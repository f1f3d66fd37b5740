--------------------------- MODULE MCQuotaLedger ---------------------------
(* A small instance of QuotaLedger: one account with two keys whose requests *)
(* race each other, and a second account that was not migrated.             *)
EXTENDS QuotaLedger, TLC

CONSTANTS u1, u2, t1, t2, r1, r2, r3, c1

TwoKeyOwner == t1 :> u1 @@ t2 :> u1
TwoKeyBearer == r1 :> t1 @@ r2 :> t2 @@ r3 :> t1
OneCode == c1 :> 2
============================================================================
