---------------------------- MODULE RequestBill ----------------------------
(***************************************************************************)
(* What the quota ledger promises about one request, without tokens,       *)
(* statuses, journals or codes.  A request owns at most one hold.  Taking  *)
(* it moves exactly the held amount out of the payer's spendable balance,  *)
(* and only when the balance covers it; paying it gives back exactly the   *)
(* difference between the hold and the measured charge, once, for good.    *)
(* Apart from that a balance moves only when somebody credits or edits it. *)
(***************************************************************************)
EXTENDS Integers

CONSTANTS Payers,      \* accounts
          Bills,       \* request ids
          Payer,       \* [Bills -> Payers]: whose account a request draws on
          Amounts      \* the amounts requests can be held and charged for

VARIABLES spendable,   \* [Payers -> Int]; an overrun may leave a debt
          bill         \* [Bills -> [phase, held, paid]]

billVars == <<spendable, bill>>

NoBill == [phase |-> "none", held |-> 0, paid |-> 0]

Init == /\ spendable \in [Payers -> Int]
        /\ bill = [b \in Bills |-> NoBill]

\* A hold is taken out of a balance that covers it.
Hold(b, n) ==
    /\ bill[b] = NoBill
    /\ n > 0
    /\ spendable[Payer[b]] >= n
    /\ spendable' = [spendable EXCEPT ![Payer[b]] = @ - n]
    /\ bill' = [bill EXCEPT ![b] = [phase |-> "held", held |-> n, paid |-> 0]]

\* A held request is charged c: the rest of the hold goes back, or an overrun
\* is taken on top of it.
Pay(b, c) ==
    /\ bill[b].phase = "held"
    /\ spendable' = [spendable EXCEPT ![Payer[b]] = @ + bill[b].held - c]
    /\ bill' = [bill EXCEPT ![b] = [phase |-> "paid", held |-> bill[b].held,
                                    paid |-> c]]

\* An operator edit or a redeemed code: the balance of one account changes and
\* no bill does.
Adjust(p) ==
    /\ spendable' \in [Payers -> Int]
    /\ \A q \in Payers \ {p} : spendable'[q] = spendable[q]
    /\ UNCHANGED bill

Next == \/ \E b \in Bills, n \in Amounts : Hold(b, n) \/ Pay(b, n)
        \/ \E p \in Payers : Adjust(p)

Spec == Init /\ [][Next]_billVars
============================================================================
