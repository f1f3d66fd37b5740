------------------------- MODULE MCSettlementReplay -------------------------
(* Small instances of SettlementReplay: requests of one key, two overlapping *)
(* flushes.                                                                  *)
EXTENDS SettlementReplay, TLC

CONSTANTS u1, u2, t1, t2, r1, r2, f1, f2

OneOwner == t1 :> u1
OneBearer == r1 :> t1 @@ r2 :> t1
TwoOwner == t1 :> u1 @@ t2 :> u2
TwoBearer == r1 :> t1 @@ r2 :> t2
NoCode == [c \in {} |-> 0]
=============================================================================
