---------------------------- MODULE QuotaLedger ----------------------------
(***************************************************************************)
(* The durable quota ledger of lib/quota/index.ts.  Money lives in three   *)
(* Mongo collections - users, tokens, quota_journal - and every movement   *)
(* is one transaction over them (snapshot reads, majority writes, write    *)
(* conflicts abort), so each transaction is one action here.  The writers  *)
(* are the relay (reserveQuota, then complete), the operator console       *)
(* (updateUser, updateToken, deleteToken) and redeemCode.                  *)
(*                                                                         *)
(* A call that is refused (400, 402, 403, 503) or that replays an open     *)
(* hold writes nothing and is a stuttering step.  Failures of the store,   *)
(* the recovery queue and the processes that call the ledger are in        *)
(* module SettlementReplay.                                                *)
(*                                                                         *)
(* Operators named Bad... are deliberately wrong variants of the operator  *)
(* after them; no specification uses them.  They show that the properties  *)
(* notice the bug.                                                         *)
(***************************************************************************)
EXTENDS Integers, FiniteSets, Functions

CONSTANTS
    Users, Tokens, Requests, Codes,
    Owner,        \* [Tokens -> Users]: tokens.userId, never rewritten
    Bearer,       \* [Requests -> Tokens]: the key a request was sent with
    CodeValue,    \* [Codes -> Nat]: redemption_codes.quota
    Estimates,    \* amounts handed to reserveQuota
    Charges,      \* measured amounts handed to complete
    Balances,     \* balances an operator types into the console
    Legacy,       \* rows that predate ledger v2 and were not migrated
    MaxSafe,      \* Number.MAX_SAFE_INTEGER
    MaxEdits      \* bound: operator edits in one behaviour

ASSUME PartiesAssumption ==
    /\ Users \cap Tokens = {}
    /\ Owner \in [Tokens -> Users]
    /\ Bearer \in [Requests -> Tokens]
    /\ Legacy \subseteq Users \cup Tokens

ASSUME AmountsAssumption ==
    /\ MaxSafe \in Nat
    /\ MaxEdits \in Nat
    /\ CodeValue \in [Codes -> 0..MaxSafe]
    /\ Estimates \subseteq 0..MaxSafe
    /\ Charges \subseteq 0..MaxSafe
    /\ Balances \subseteq 0..MaxSafe

VARIABLES
    users,     \* [Users -> row]: quota, usedQuota, requestCount, status
    tokens,    \* [Tokens -> row]: quota, usedQuota, unlimitedQuota, status, ...
    journal,   \* [Requests -> row]: quota_journal, keyed by request id
    codes,     \* [Codes -> row]: redemption_codes
    granted,   \* history: what operators gave each account and each token
    edits      \* history: operator edits so far (bounded by MaxEdits)

vars == <<users, tokens, journal, codes, granted, edits>>

Payer == [r \in Requests |-> Owner[Bearer[r]]]

----------------------------------------------------------------------------
Statuses == {"enabled", "disabled"}

UserRow == [status: Statuses, quota: Int, usedQuota: Nat, requestCount: Nat]

TokenRow == [present: BOOLEAN, status: Statuses, expired: BOOLEAN,
             unlimitedQuota: BOOLEAN, quota: Int, usedQuota: Nat]

JournalRow == [state: {"absent", "pending", "applied"},
               kind: {"reserve", "settle", "release"},
               tokenLimited: BOOLEAN, reserved: Nat, amount: Nat]

CodeRow == [status: {"unused", "used"}, expired: BOOLEAN,
            usedBy: SUBSET Users]

NoHold == [state |-> "absent", kind |-> "reserve", tokenLimited |-> FALSE,
           reserved |-> 0, amount |-> 0]

Upgraded(row) == row \notin Legacy

Safe(n) == -MaxSafe <= n /\ n <= MaxSafe

BadNeed(amount) == amount - 1

\* quotaAmount followed by Math.max(1, ..): a hold is never empty.
Need(amount) == IF amount = 0 THEN 1 ELSE amount

Init ==
    /\ \E q \in [Users -> Balances] :
          users = [u \in Users |-> [status |-> "enabled", quota |-> q[u],
                                    usedQuota |-> 0, requestCount |-> 0]]
    /\ \E q \in [Tokens -> Balances], b \in [Tokens -> BOOLEAN] :
          tokens = [t \in Tokens |->
                       [present |-> TRUE, status |-> "enabled",
                        expired |-> FALSE, unlimitedQuota |-> b[t],
                        quota |-> q[t], usedQuota |-> 0]]
    /\ journal = [r \in Requests |-> NoHold]
    /\ codes = [c \in Codes |-> [status |-> "unused", expired |-> FALSE,
                                 usedBy |-> {}]]
    /\ granted = [a \in Users \cup Tokens |->
                     IF a \in Users THEN users[a].quota ELSE tokens[a].quota]
    /\ edits = 0

----------------------------------------------------------------------------
(* The relay: reserve before the provider is called, complete after.       *)

BadCovers(balance, need) == balance >= 0

\* A balance covers a hold.
Covers(balance, need) == balance >= need

Active(u, t) ==
    /\ users[u].status = "enabled"
    /\ tokens[t].present
    /\ tokens[t].status = "enabled"
    /\ ~tokens[t].expired
    /\ Upgraded(u)
    /\ Upgraded(t)

\* reserveQuota: debit the account, debit the key when the key is capped now,
\* and journal the hold together with that fact.
ReserveQuota(r, amount) ==
    LET t == Bearer[r]
        u == Payer[r]
        need == Need(amount)
        limited == ~tokens[t].unlimitedQuota
    IN  /\ journal[r].state = "absent"
        /\ Active(u, t)
        /\ Safe(users[u].quota) /\ Safe(tokens[t].quota)
        /\ Covers(users[u].quota, need)
        /\ limited => Covers(tokens[t].quota, need)
        /\ users' = [users EXCEPT ![u].quota = @ - need]
        /\ tokens' = IF limited THEN [tokens EXCEPT ![t].quota = @ - need]
                                ELSE tokens
        /\ journal' = [journal EXCEPT ![r] =
                          [state |-> "pending", kind |-> "reserve",
                           tokenLimited |-> limited, reserved |-> need,
                           amount |-> 0]]
        /\ UNCHANGED <<codes, granted, edits>>

BadDelta(r, actual) == -actual

\* The refund-or-overrun of a hold once the charge is known.
Delta(r, actual) == journal[r].reserved - actual

BadOpen(r) == journal[r].state # "absent"

\* The row complete may still apply; any other row it answers "not applied".
Open(r) == journal[r].state = "pending"

BadCapped(r) == ~tokens[Bearer[r]].unlimitedQuota

\* Whether the key's cap pays for this request: what the row remembers, not
\* what the key says now.
Capped(r) == journal[r].tokenLimited

BadCompletable(r, actual) == Open(r)

\* complete's own precondition: a pending hold whose payer stays in range.
Completable(r, actual) ==
    /\ Open(r)
    /\ Safe(users[Payer[r]].quota + Delta(r, actual))
    /\ Safe(users[Payer[r]].usedQuota + actual)

\* complete, the whole transaction.  No status check and no floor: a disabled
\* account is still billed, and an overrun leaves a debt.  A key deleted while
\* the provider was working is simply not matched.
Complete(r, actual, kind) ==
    LET t == Bearer[r]
        u == Payer[r]
        delta == Delta(r, actual)
    IN  /\ Completable(r, actual)
        /\ users' = [users EXCEPT
              ![u].quota = @ + delta,
              ![u].usedQuota = @ + actual,
              ![u].requestCount = IF kind = "settle" THEN @ + 1 ELSE @]
        /\ tokens' = IF ~tokens[t].present THEN tokens
                     ELSE [tokens EXCEPT
              ![t].quota = IF Capped(r) THEN @ + delta ELSE @,
              ![t].usedQuota = @ + actual]
        /\ journal' = [journal EXCEPT ![r].state = "applied",
                                      ![r].kind = kind,
                                      ![r].amount = actual]
        /\ UNCHANGED <<codes, granted, edits>>

\* finalizeQuota and the replay job choose the kind from the measured amount.
KindOf(actual) == IF actual = 0 THEN "release" ELSE "settle"

FinalizeQuota(r, actual) == Complete(r, actual, KindOf(actual))

SettleQuota(r, actual) == Complete(r, actual, "settle")

ReleaseQuota(r) == Complete(r, 0, "release")

----------------------------------------------------------------------------
(* The operator console and redemption codes.                              *)

\* updateUser without expectedQuota: status and balance are overwritten.
OverwriteUser(u, status, quota) ==
    /\ edits < MaxEdits
    /\ users' = [users EXCEPT ![u].status = status, ![u].quota = quota]
    /\ granted' = [granted EXCEPT ![u] = @ + quota - users[u].quota]
    /\ edits' = edits + 1
    /\ UNCHANGED <<tokens, journal, codes>>

BadEditUser(u, status, quota, expected) ==
    /\ edits < MaxEdits
    /\ users' = [users EXCEPT ![u].status = status, ![u].quota = quota]
    /\ granted' = [granted EXCEPT ![u] = @ + quota - expected]
    /\ edits' = edits + 1
    /\ UNCHANGED <<tokens, journal, codes>>

\* updateUser with expectedQuota, as the console sends it: the operator meant
\* to change the balance from what the page showed (expected) to quota.
EditUser(u, status, quota, expected) ==
    /\ edits < MaxEdits
    /\ users[u].quota = expected
    /\ users' = [users EXCEPT ![u].status = status, ![u].quota = quota]
    /\ granted' = [granted EXCEPT ![u] = @ + quota - expected]
    /\ edits' = edits + 1
    /\ UNCHANGED <<tokens, journal, codes>>

\* updateToken: any of status, cap, cap on or off, and expiry.
UpdateToken(t, status, quota, unlimited, expired) ==
    /\ edits < MaxEdits
    /\ tokens[t].present
    /\ tokens' = [tokens EXCEPT ![t].status = status, ![t].quota = quota,
                                ![t].unlimitedQuota = unlimited,
                                ![t].expired = expired]
    /\ granted' = [granted EXCEPT ![t] = @ + quota - tokens[t].quota]
    /\ edits' = edits + 1
    /\ UNCHANGED <<users, journal, codes>>

\* deleteToken: the row goes, open holds of the key stay in the journal.
DeleteToken(t) ==
    /\ edits < MaxEdits
    /\ tokens[t].present
    /\ tokens' = [tokens EXCEPT ![t].present = FALSE]
    /\ edits' = edits + 1
    /\ UNCHANGED <<users, journal, codes, granted>>

BadRedeemCode(c, u) ==
    /\ users[u].status = "enabled"
    /\ Upgraded(u)
    /\ ~codes[c].expired
    /\ Safe(users[u].quota + CodeValue[c])
    /\ codes' = [codes EXCEPT ![c].status = "used", ![c].usedBy = @ \cup {u}]
    /\ users' = [users EXCEPT ![u].quota = @ + CodeValue[c]]
    /\ UNCHANGED <<tokens, journal, granted, edits>>

\* redeemCode: the claim and the credit commit together.
RedeemCode(c, u) ==
    /\ users[u].status = "enabled"
    /\ Upgraded(u)
    /\ codes[c].status = "unused"
    /\ ~codes[c].expired
    /\ Safe(users[u].quota + CodeValue[c])
    /\ codes' = [codes EXCEPT ![c].status = "used", ![c].usedBy = @ \cup {u}]
    /\ users' = [users EXCEPT ![u].quota = @ + CodeValue[c]]
    /\ UNCHANGED <<tokens, journal, granted, edits>>

\* Time passes the expiresAt of a key or of a code.
ExpireToken(t) ==
    /\ ~tokens[t].expired
    /\ tokens' = [tokens EXCEPT ![t].expired = TRUE]
    /\ UNCHANGED <<users, journal, codes, granted, edits>>

ExpireCode(c) ==
    /\ ~codes[c].expired
    /\ codes' = [codes EXCEPT ![c].expired = TRUE]
    /\ UNCHANGED <<users, tokens, journal, granted, edits>>

----------------------------------------------------------------------------
RelayStep ==
    \E r \in Requests :
        \/ \E a \in Estimates : ReserveQuota(r, a)
        \/ \E c \in Charges : FinalizeQuota(r, c) \/ SettleQuota(r, c)
        \/ ReleaseQuota(r)

OperatorStep ==
    \/ \E u \in Users, s \in Statuses :
          \/ \E q \in Balances \cup {users[u].quota} : OverwriteUser(u, s, q)
          \/ \E q, e \in Balances : EditUser(u, s, q, e)
    \/ \E t \in Tokens :
          \/ \E s \in Statuses, q \in Balances \cup {tokens[t].quota},
                b, x \in BOOLEAN : UpdateToken(t, s, q, b, x)
          \/ DeleteToken(t)

OtherStep ==
    \/ \E c \in Codes : ExpireCode(c) \/ \E u \in Users : RedeemCode(c, u)
    \/ \E t \in Tokens : ExpireToken(t)

Next == RelayStep \/ OperatorStep \/ OtherStep

Spec == Init /\ [][Next]_vars

----------------------------------------------------------------------------
(* Properties.                                                             *)

\* Every variable has its type (the documents of lib/db/types.ts).
TypeOK ==
    /\ users \in [Users -> UserRow]
    /\ tokens \in [Tokens -> TokenRow]
    /\ journal \in [Requests -> JournalRow]
    /\ codes \in [Codes -> CodeRow]
    /\ granted \in [Users \cup Tokens -> Int]
    /\ edits \in 0..MaxEdits

Rows(S, state) == {r \in S : journal[r].state = state}
RequestsOf(u) == {r \in Requests : Payer[r] = u}
CappedRequestsOf(t) ==
    {r \in Requests : Bearer[r] = t /\ journal[r].tokenLimited}

HeldIn(S) == SumFunctionOnSet([r \in S |-> journal[r].reserved], Rows(S, "pending"))
PaidIn(S) == SumFunctionOnSet([r \in S |-> journal[r].amount], Rows(S, "applied"))
RedeemedBy(u) ==
    SumFunctionOnSet(CodeValue, {c \in Codes : u \in codes[c].usedBy})

\* Money is neither created nor destroyed: whatever order holds, settlements,
\* refunds, console edits and redemptions commit in, what an account can spend,
\* what is on hold for it and what it has spent add up to what operators and
\* codes gave it.  A console edit that overwrote billing it had not seen, a
\* code credited twice or a refund applied twice would break the sum.
MoneyIsConserved ==
    \A u \in Users :
        users[u].quota + HeldIn(RequestsOf(u)) + users[u].usedQuota
            = granted[u] + RedeemedBy(u)

\* The cap of a key is metered by the requests that were capped when they were
\* admitted, even if the operator switches the cap on or off, or deletes and
\* disables, while they run (the journal's tokenLimited).
CapIsConserved ==
    \A t \in Tokens :
        tokens[t].present =>
            tokens[t].quota + HeldIn(CappedRequestsOf(t))
                + PaidIn(CappedRequestsOf(t)) = granted[t]

\* The denormalised lifetime counters equal what the journal says was charged:
\* usedQuota and requestCount never drift from the applied rows.
CountersMatchJournal ==
    /\ \A u \in Users :
          /\ users[u].usedQuota = PaidIn(RequestsOf(u))
          /\ users[u].requestCount =
                Cardinality({r \in RequestsOf(u) : journal[r].kind = "settle"})
    /\ \A t \in Tokens :
          tokens[t].present =>
              tokens[t].usedQuota = PaidIn({r \in Requests : Bearer[r] = t})

\* The books of the ledger balance, for accounts, keys and counters.
BooksBalance == MoneyIsConserved /\ CapIsConserved /\ CountersMatchJournal

\* The balance and the lifetime spend of an account stay safe integers, so the
\* isSafeInteger check that admits a request never locks an account out.
\* (A key has no such guarantee: complete does not check the key's balance.)
AccountsStaySafe ==
    \A u \in Users : Safe(users[u].quota) /\ Safe(users[u].usedQuota)

\* A journal row only ever goes absent, pending, applied; its hold and its cap
\* flag never change and once applied nothing does - the exactly-once anchor of
\* settlement and the reason a settled id cannot fund new work.
RowsMoveForward ==
    [][\A r \in Requests :
          \/ journal'[r] = journal[r]
          \/ /\ journal[r].state = "absent"
             /\ journal'[r].state = "pending"
          \/ /\ journal[r].state = "pending"
             /\ journal'[r].state = "applied"
             /\ journal'[r].reserved = journal[r].reserved
             /\ journal'[r].tokenLimited = journal[r].tokenLimited]_vars

\* Admission never overdraws: an account sinks further into debt only in the
\* step that charges one of its requests more than was held for it.
DebtOnlyFromOverrun ==
    [][\A u \in Users :
          users'[u].quota < 0 /\ users'[u].quota < users[u].quota =>
              \E r \in RequestsOf(u) :
                  /\ journal[r].state = "pending"
                  /\ journal'[r].state = "applied"
                  /\ journal'[r].amount > journal[r].reserved]_vars

\* The ledger implements one bill per request: see RequestBill.
BillOf(r) ==
    [phase |-> CASE journal[r].state = "absent"  -> "none"
                 [] journal[r].state = "pending" -> "held"
                 [] journal[r].state = "applied" -> "paid",
     held |-> journal[r].reserved,
     paid |-> journal[r].amount]

Promise == INSTANCE RequestBill
             WITH Payers <- Users, Bills <- Requests, Payer <- Payer,
                  Amounts <- {Need(a) : a \in Estimates} \cup Charges \cup {0},
                  spendable <- [u \in Users |-> users[u].quota],
                  bill <- [r \in Requests |-> BillOf(r)]

\* Every ledger transaction is one promised step or leaves bills and balances
\* alone (reserveQuota holds once, complete pays once, nothing else charges).
KeepsPromise == Promise!Spec
============================================================================
