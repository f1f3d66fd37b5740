------------------------- MODULE QuotaLedgerProofs -------------------------
(***************************************************************************)
(* Proofs about QuotaLedger, for every set of accounts, keys, requests,    *)
(* codes and amounts that satisfies the module's assumptions, and about    *)
(* SettlementReplay, which replays settlements into it, for any number of  *)
(* flushes, faults and entries per batch.                                  *)
(***************************************************************************)
EXTENDS SettlementReplay, SumLemmas, TLAPS

\* Each request has one payer, the owner of its key.
LEMMA PayerType == Payer \in [Requests -> Users]
  BY PartiesAssumption DEF Payer

LEMMA NeedType == \A a \in Estimates : Need(a) \in Nat /\ Need(a) > 0
  BY AmountsAssumption DEF Need

----------------------------------------------------------------------------
(* Type correctness.                                                       *)

LEMMA InitTypeOK == Init => TypeOK
  <1> SUFFICES ASSUME Init
               PROVE  TypeOK
    OBVIOUS
  <1>0. Balances \subseteq Int
    BY AmountsAssumption
  <1>1. users \in [Users -> UserRow]
    <2>1. PICK q \in [Users -> Balances] :
             users = [u \in Users |-> [status |-> "enabled", quota |-> q[u],
                                       usedQuota |-> 0, requestCount |-> 0]]
      BY DEF Init
    <2>2. QED
      BY <2>1, <1>0 DEF UserRow, Statuses
  <1>2. tokens \in [Tokens -> TokenRow]
    <2>1. PICK q \in [Tokens -> Balances], b \in [Tokens -> BOOLEAN] :
             tokens = [t \in Tokens |->
                          [present |-> TRUE, status |-> "enabled",
                           expired |-> FALSE, unlimitedQuota |-> b[t],
                           quota |-> q[t], usedQuota |-> 0]]
      BY DEF Init
    <2>2. QED
      BY <2>1, <1>0 DEF TokenRow, Statuses
  <1>3. granted \in [Users \cup Tokens -> Int]
    BY <1>1, <1>2 DEF Init, UserRow, TokenRow
  <1>4. journal \in [Requests -> JournalRow]
    BY DEF Init, JournalRow, NoHold
  <1>5. codes \in [Codes -> CodeRow]
    BY DEF Init, CodeRow
  <1>6. edits \in 0..MaxEdits
    BY AmountsAssumption DEF Init
  <1>7. QED
    BY <1>1, <1>2, <1>3, <1>4, <1>5, <1>6 DEF TypeOK

LEMMA ReserveTypeOK ==
  ASSUME TypeOK, NEW r \in Requests, NEW a \in Estimates, ReserveQuota(r, a)
  PROVE  TypeOK'
  <1>1. Payer[r] \in Users /\ Bearer[r] \in Tokens
    BY PayerType, PartiesAssumption
  <1>2. Need(a) \in Nat
    BY NeedType
  <1>3. users' \in [Users -> UserRow]
    BY <1>1, <1>2 DEF TypeOK, ReserveQuota, UserRow
  <1>4. tokens' \in [Tokens -> TokenRow]
    BY <1>1, <1>2 DEF TypeOK, ReserveQuota, TokenRow
  <1>5. journal' \in [Requests -> JournalRow]
    BY <1>1, <1>2 DEF TypeOK, ReserveQuota, JournalRow, TokenRow
  <1>6. QED
    BY <1>3, <1>4, <1>5 DEF TypeOK, ReserveQuota

LEMMA CompleteTypeOK ==
  ASSUME TypeOK, NEW r \in Requests, NEW c \in Nat,
         NEW k \in {"settle", "release"}, Complete(r, c, k)
  PROVE  TypeOK'
  <1>1. Payer[r] \in Users /\ Bearer[r] \in Tokens
    BY PayerType, PartiesAssumption
  <1>2. Delta(r, c) \in Int
    BY DEF TypeOK, JournalRow, Delta
  <1>3. users' \in [Users -> UserRow]
    BY <1>1, <1>2 DEF TypeOK, Complete, UserRow
  <1>4. tokens' \in [Tokens -> TokenRow]
    BY <1>1, <1>2, SMTT(30) DEF TypeOK, Complete, TokenRow
  <1>5. journal' \in [Requests -> JournalRow]
    <2>1. journal' = [journal EXCEPT ![r] = [journal[r] EXCEPT
                        !.state = "applied", !.kind = k, !.amount = c]]
      BY DEF Complete, TypeOK
    <2>2. [journal[r] EXCEPT !.state = "applied", !.kind = k, !.amount = c]
              \in JournalRow
      BY DEF TypeOK, JournalRow
    <2>3. QED
      BY <2>1, <2>2 DEF TypeOK
  <1>6. QED
    BY <1>3, <1>4, <1>5 DEF TypeOK, Complete

\* Each relay step is a hold or a completion with an amount that is a natural.
LEMMA RelayCases ==
  ASSUME RelayStep
  PROVE  \E r \in Requests :
            \/ \E a \in Estimates : ReserveQuota(r, a)
            \/ \E c \in Charges \cup {0}, k \in {"settle", "release"} :
                  Complete(r, c, k)
  BY DEF RelayStep, FinalizeQuota, SettleQuota, ReleaseQuota, KindOf

LEMMA OperatorTypeOK ==
  ASSUME TypeOK, OperatorStep
  PROVE  TypeOK'
  <1>1. ASSUME NEW u \in Users, NEW s \in Statuses,
               NEW q \in Balances \cup {users[u].quota}, OverwriteUser(u, s, q)
        PROVE  TypeOK'
    <2>1. q \in Int
      BY AmountsAssumption DEF TypeOK, UserRow
    <2>2. users' \in [Users -> UserRow]
      BY <1>1, <2>1, ZenonT(60) DEF TypeOK, OverwriteUser, UserRow
    <2>3. granted' \in [Users \cup Tokens -> Int]
      BY <1>1, <2>1 DEF TypeOK, OverwriteUser, UserRow
    <2>4. QED
      BY <1>1, <2>2, <2>3, AmountsAssumption DEF TypeOK, OverwriteUser
  <1>2. ASSUME NEW u \in Users, NEW s \in Statuses, NEW q \in Balances,
               NEW e \in Balances, EditUser(u, s, q, e)
        PROVE  TypeOK'
    <2>1. q \in Int /\ e \in Int
      BY AmountsAssumption
    <2>2. users' \in [Users -> UserRow]
      BY <1>2, <2>1 DEF TypeOK, EditUser, UserRow
    <2>3. granted' \in [Users \cup Tokens -> Int]
      BY <1>2, <2>1 DEF TypeOK, EditUser
    <2>4. QED
      BY <1>2, <2>2, <2>3, AmountsAssumption DEF TypeOK, EditUser
  <1>3. ASSUME NEW t \in Tokens, NEW s \in Statuses,
               NEW q \in Balances \cup {tokens[t].quota},
               NEW b \in BOOLEAN, NEW x \in BOOLEAN, UpdateToken(t, s, q, b, x)
        PROVE  TypeOK'
    <2>1. q \in Int
      BY AmountsAssumption DEF TypeOK, TokenRow
    <2>2. tokens' \in [Tokens -> TokenRow]
      <3>1. tokens' = [tokens EXCEPT ![t] = [tokens[t] EXCEPT
                         !.status = s, !.quota = q, !.unlimitedQuota = b,
                         !.expired = x]]
        BY <1>3 DEF UpdateToken, TypeOK
      <3>2. [tokens[t] EXCEPT !.status = s, !.quota = q, !.unlimitedQuota = b,
                              !.expired = x] \in TokenRow
        BY <2>1, ZenonT(60) DEF TypeOK, TokenRow
      <3>3. QED
        BY <3>1, <3>2 DEF TypeOK
    <2>3. granted' \in [Users \cup Tokens -> Int]
      BY <1>3, <2>1 DEF TypeOK, UpdateToken, TokenRow
    <2>4. QED
      BY <1>3, <2>2, <2>3, AmountsAssumption DEF TypeOK, UpdateToken
  <1>4. ASSUME NEW t \in Tokens, DeleteToken(t)
        PROVE  TypeOK'
    <2>1. [tokens[t] EXCEPT !.present = FALSE] \in TokenRow
      BY DEF TypeOK, TokenRow
    <2>2. tokens' \in [Tokens -> TokenRow]
      BY <1>4, <2>1 DEF TypeOK, DeleteToken
    <2>3. QED
      BY <1>4, <2>2, AmountsAssumption DEF TypeOK, DeleteToken
  <1>5. QED
    BY <1>1, <1>2, <1>3, <1>4 DEF OperatorStep

LEMMA OtherTypeOK ==
  ASSUME TypeOK, OtherStep
  PROVE  TypeOK'
  <1>1. ASSUME NEW c \in Codes, NEW u \in Users, RedeemCode(c, u)
        PROVE  TypeOK'
    <2>1. CodeValue[c] \in Int
      BY AmountsAssumption
    <2>2. users' \in [Users -> UserRow]
      BY <1>1, <2>1 DEF TypeOK, RedeemCode, UserRow
    <2>3. codes' \in [Codes -> CodeRow]
      BY <1>1 DEF TypeOK, RedeemCode, CodeRow
    <2>4. QED
      BY <1>1, <2>2, <2>3 DEF TypeOK, RedeemCode
  <1>2. ASSUME NEW c \in Codes, ExpireCode(c)
        PROVE  TypeOK'
    BY <1>2 DEF TypeOK, ExpireCode, CodeRow
  <1>3. ASSUME NEW t \in Tokens, ExpireToken(t)
        PROVE  TypeOK'
    BY <1>3 DEF TypeOK, ExpireToken, TokenRow
  <1>4. QED
    BY <1>1, <1>2, <1>3 DEF OtherStep

LEMMA StepTypeOK == TypeOK /\ [Next]_vars => TypeOK'
  <1> SUFFICES ASSUME TypeOK, [Next]_vars
               PROVE  TypeOK'
    OBVIOUS
  <1>1. CASE RelayStep
    BY <1>1, RelayCases, ReserveTypeOK, CompleteTypeOK, AmountsAssumption
  <1>2. CASE OperatorStep
    BY <1>2, OperatorTypeOK
  <1>3. CASE OtherStep
    BY <1>3, OtherTypeOK
  <1>4. CASE UNCHANGED vars
    BY <1>4 DEF TypeOK, vars
  <1>5. QED
    BY <1>1, <1>2, <1>3, <1>4 DEF Next

\* Every reachable state of the ledger is well typed.
THEOREM TypeCorrect == Spec => []TypeOK
  BY InitTypeOK, StepTypeOK, PTL DEF Spec

----------------------------------------------------------------------------
(* The exactly-once anchor: journal rows move forward only.                *)

MovesForward(r) ==
    \/ journal'[r] = journal[r]
    \/ /\ journal[r].state = "absent"
       /\ journal'[r].state = "pending"
    \/ /\ journal[r].state = "pending"
       /\ journal'[r].state = "applied"
       /\ journal'[r].reserved = journal[r].reserved
       /\ journal'[r].tokenLimited = journal[r].tokenLimited

\* Operators, codes and clocks never touch the journal, change the balance of
\* at most one account and never push a balance further below zero.
OutsideRelay ==
    /\ journal' = journal
    /\ \A u \in Users : users'[u].quota < users[u].quota => users'[u].quota >= 0
    /\ \/ \A v \in Users : users'[v].quota = users[v].quota
       \/ \E u \in Users : \A v \in Users \ {u} : users'[v] = users[v]

LEMMA OneAccountTouched ==
  ASSUME TypeOK, NEW u \in Users, NEW n \in Int,
         journal' = journal,
         \A v \in Users \ {u} : users'[v] = users[v],
         users'[u].quota = n,
         n >= 0 \/ n >= users[u].quota
  PROVE  OutsideRelay
  <1>1. \A v \in Users : users[v].quota \in Int
    BY DEF TypeOK, UserRow
  <1>2. ASSUME NEW v \in Users, users'[v].quota < users[v].quota
        PROVE  users'[v].quota >= 0
    <2>1. CASE v = u
      BY <1>1, <1>2, <2>1
    <2>2. CASE v # u
      BY <1>1, <1>2, <2>2
    <2>3. QED
      BY <2>1, <2>2
  <1>3. QED
    BY <1>2 DEF OutsideRelay

LEMMA NoAccountTouched ==
  ASSUME TypeOK, users' = users, journal' = journal
  PROVE  OutsideRelay
  BY DEF OutsideRelay, TypeOK, UserRow

LEMMA OperatorOutsideRelay ==
  ASSUME TypeOK, OperatorStep
  PROVE  OutsideRelay
  <1>1. ASSUME NEW u \in Users, NEW s \in Statuses,
               NEW q \in Balances \cup {users[u].quota}, OverwriteUser(u, s, q)
        PROVE  OutsideRelay
    <2>1. q \in Int /\ (q >= 0 \/ q >= users[u].quota)
      BY AmountsAssumption DEF TypeOK, UserRow
    <2>2. /\ journal' = journal
          /\ \A v \in Users \ {u} : users'[v] = users[v]
          /\ users'[u].quota = q
      BY <1>1 DEF OverwriteUser, TypeOK, UserRow
    <2>3. QED
      BY <2>1, <2>2, OneAccountTouched
  <1>2. ASSUME NEW u \in Users, NEW s \in Statuses, NEW q \in Balances,
               NEW e \in Balances, EditUser(u, s, q, e)
        PROVE  OutsideRelay
    <2>1. q \in Int /\ q >= 0
      BY AmountsAssumption
    <2>2. /\ journal' = journal
          /\ \A v \in Users \ {u} : users'[v] = users[v]
          /\ users'[u].quota = q
      BY <1>2 DEF EditUser, TypeOK, UserRow
    <2>3. QED
      BY <2>1, <2>2, OneAccountTouched
  <1>3. ASSUME NEW t \in Tokens, NEW s \in Statuses,
               NEW q \in Balances \cup {tokens[t].quota},
               NEW b \in BOOLEAN, NEW x \in BOOLEAN, UpdateToken(t, s, q, b, x)
        PROVE  OutsideRelay
    BY <1>3, NoAccountTouched DEF UpdateToken
  <1>4. ASSUME NEW t \in Tokens, DeleteToken(t)
        PROVE  OutsideRelay
    BY <1>4, NoAccountTouched DEF DeleteToken
  <1>5. QED
    BY <1>1, <1>2, <1>3, <1>4 DEF OperatorStep

LEMMA OtherOutsideRelay ==
  ASSUME TypeOK, OtherStep
  PROVE  OutsideRelay
  <1>1. ASSUME NEW c \in Codes, NEW u \in Users, RedeemCode(c, u)
        PROVE  OutsideRelay
    <2>1. /\ users[u].quota + CodeValue[c] \in Int
          /\ users[u].quota + CodeValue[c] >= users[u].quota
      BY AmountsAssumption DEF TypeOK, UserRow
    <2>2. /\ journal' = journal
          /\ \A v \in Users \ {u} : users'[v] = users[v]
          /\ users'[u].quota = users[u].quota + CodeValue[c]
      BY <1>1 DEF RedeemCode, TypeOK, UserRow
    <2>3. QED
      BY <2>1, <2>2, OneAccountTouched
  <1>2. ASSUME NEW c \in Codes, ExpireCode(c)
        PROVE  OutsideRelay
    BY <1>2, NoAccountTouched DEF ExpireCode
  <1>3. ASSUME NEW t \in Tokens, ExpireToken(t)
        PROVE  OutsideRelay
    BY <1>3, NoAccountTouched DEF ExpireToken
  <1>4. QED
    BY <1>1, <1>2, <1>3 DEF OtherStep

LEMMA RelayMovesForward ==
  ASSUME TypeOK, RelayStep, NEW r \in Requests
  PROVE  MovesForward(r)
  <1>1. ASSUME NEW s \in Requests, NEW a \in Estimates, ReserveQuota(s, a)
        PROVE  MovesForward(r)
    BY <1>1 DEF ReserveQuota, TypeOK, MovesForward
  <1>2. ASSUME NEW s \in Requests, NEW c \in Charges \cup {0},
               NEW k \in {"settle", "release"}, Complete(s, c, k)
        PROVE  MovesForward(r)
    <2>1. journal' = [journal EXCEPT ![s] = [journal[s] EXCEPT
                        !.state = "applied", !.kind = k, !.amount = c]]
      BY <1>2 DEF Complete, TypeOK
    <2>2. journal[s].state = "pending"
      BY <1>2 DEF Complete, Completable, Open
    <2>3. CASE r = s
      BY <2>1, <2>2, <2>3 DEF TypeOK, JournalRow, MovesForward
    <2>4. CASE r # s
      BY <2>1, <2>4 DEF TypeOK, MovesForward
    <2>5. QED
      BY <2>3, <2>4
  <1>3. QED
    BY <1>1, <1>2, RelayCases

LEMMA StepMovesForward ==
  ASSUME TypeOK, [Next]_vars, NEW r \in Requests
  PROVE  MovesForward(r)
  <1>1. CASE RelayStep
    BY <1>1, RelayMovesForward
  <1>2. CASE OperatorStep \/ OtherStep
    BY <1>2, OperatorOutsideRelay, OtherOutsideRelay DEF OutsideRelay, MovesForward
  <1>3. CASE UNCHANGED vars
    BY <1>3 DEF vars, MovesForward
  <1>4. QED
    BY <1>1, <1>2, <1>3 DEF Next

\* A row goes absent, pending, applied, keeps its hold and its cap flag and is
\* final once applied, whatever order reserve, settle, release, replays and
\* operator edits commit in.
THEOREM RowsOnlyMoveForward == Spec => RowsMoveForward
  <1>1. TypeOK /\ [Next]_vars => [\A r \in Requests : MovesForward(r)]_vars
    BY StepMovesForward
  <1>2. QED
    BY <1>1, TypeCorrect, PTL DEF Spec, RowsMoveForward, MovesForward

----------------------------------------------------------------------------
(* What the two relay transactions do to balances and rows, in the form    *)
(* the debt theorem and the refinement theorem use.                        *)

LEMMA ReserveEffect ==
  ASSUME TypeOK, NEW r \in Requests, NEW a \in Estimates, ReserveQuota(r, a)
  PROVE  /\ users[Payer[r]].quota >= Need(a)
         /\ users'[Payer[r]].quota = users[Payer[r]].quota - Need(a)
         /\ \A v \in Users \ {Payer[r]} : users'[v] = users[v]
         /\ journal[r].state = "absent"
         /\ journal'[r].state = "pending"
         /\ journal'[r].reserved = Need(a)
         /\ journal'[r].amount = 0
         /\ \A q \in Requests \ {r} : journal'[q] = journal[q]
  <1>1. Payer[r] \in Users /\ Need(a) \in Nat
    BY PayerType, NeedType
  <1>2. QED
    BY <1>1 DEF TypeOK, UserRow, ReserveQuota, Covers

LEMMA CompleteEffect ==
  ASSUME TypeOK, NEW r \in Requests, NEW c \in Nat,
         NEW k \in {"settle", "release"}, Complete(r, c, k)
  PROVE  /\ users'[Payer[r]].quota =
               users[Payer[r]].quota + journal[r].reserved - c
         /\ \A v \in Users \ {Payer[r]} : users'[v] = users[v]
         /\ journal[r].state = "pending"
         /\ journal'[r].state = "applied"
         /\ journal'[r].reserved = journal[r].reserved
         /\ journal'[r].amount = c
         /\ \A q \in Requests \ {r} : journal'[q] = journal[q]
  <1>1. Payer[r] \in Users /\ Delta(r, c) \in Int
    BY PayerType DEF TypeOK, JournalRow, Delta
  <1>2. /\ users'[Payer[r]].quota = users[Payer[r]].quota + Delta(r, c)
        /\ \A v \in Users \ {Payer[r]} : users'[v] = users[v]
    BY <1>1 DEF TypeOK, UserRow, Complete
  <1>3. journal' = [journal EXCEPT ![r] = [journal[r] EXCEPT
                      !.state = "applied", !.kind = k, !.amount = c]]
    BY DEF Complete, TypeOK
  <1>4. /\ journal'[r].state = "applied"
        /\ journal'[r].reserved = journal[r].reserved
        /\ journal'[r].amount = c
        /\ \A q \in Requests \ {r} : journal'[q] = journal[q]
    BY <1>3 DEF TypeOK, JournalRow
  <1>5. users[Payer[r]].quota + Delta(r, c) =
          users[Payer[r]].quota + journal[r].reserved - c
    BY <1>1 DEF TypeOK, UserRow, JournalRow, Delta
  <1>6. QED
    BY <1>2, <1>4, <1>5 DEF Complete, Completable, Open

----------------------------------------------------------------------------
(* Admission never overdraws.                                              *)

\* u is charged more than was held for one of its requests in this step.
Overruns(u) ==
    \E r \in RequestsOf(u) :
        /\ journal[r].state = "pending"
        /\ journal'[r].state = "applied"
        /\ journal'[r].amount > journal[r].reserved

LEMMA DebtStep ==
  ASSUME TypeOK, Next, NEW u \in Users,
         users'[u].quota < 0, users'[u].quota < users[u].quota
  PROVE  Overruns(u)
  <1>0. \A v \in Users : users[v].quota \in Int
    BY DEF TypeOK, UserRow
  <1>1. ASSUME NEW r \in Requests, NEW a \in Estimates, ReserveQuota(r, a)
        PROVE  FALSE
    <2>1. users[u].quota \in Int /\ Need(a) \in Nat
      BY <1>0, NeedType
    <2>2. CASE u = Payer[r]
      BY <2>1, <2>2, <1>1, ReserveEffect
    <2>3. CASE u # Payer[r]
      BY <2>1, <2>3, <1>1, ReserveEffect
    <2>4. QED
      BY <2>2, <2>3
  <1>2. ASSUME NEW r \in Requests, NEW c \in Charges \cup {0},
               NEW k \in {"settle", "release"}, Complete(r, c, k)
        PROVE  Overruns(u)
    <2>0. c \in Nat
      BY AmountsAssumption
    <2>1. c \in Nat /\ journal[r].reserved \in Nat
      BY <2>0 DEF TypeOK, JournalRow
    <2>2. u = Payer[r]
      BY <1>0, <1>2, <2>1, CompleteEffect
    <2>3. users'[u].quota = users[u].quota + journal[r].reserved - c
      BY <1>2, <2>1, <2>2, CompleteEffect
    <2>4. c > journal[r].reserved
      BY <1>0, <2>1, <2>3
    <2>5. QED
      BY <1>2, <2>1, <2>2, <2>4, CompleteEffect DEF Overruns, RequestsOf
  <1>3. ASSUME OperatorStep \/ OtherStep
        PROVE  FALSE
    <2>1. users'[u].quota >= 0
      BY <1>3, OperatorOutsideRelay, OtherOutsideRelay DEF OutsideRelay
    <2>2. users'[u].quota \in Int
      BY StepTypeOK DEF TypeOK, UserRow
    <2>3. QED
      BY <2>1, <2>2
  <1>4. QED
    BY <1>1, <1>2, <1>3, RelayCases DEF Next

\* However holds race each other on one account, none of them drives its
\* balance below zero: debt deepens only when a request is charged more than
\* its hold.
THEOREM OnlyOverrunsMakeDebt == Spec => DebtOnlyFromOverrun
  <1> DEFINE Fine == \A u \in Users :
                users'[u].quota < 0 /\ users'[u].quota < users[u].quota
                    => Overruns(u)
  <1>1. TypeOK /\ [Next]_vars => [Fine]_vars
    BY DebtStep
  <1>2. QED
    BY <1>1, TypeCorrect, PTL DEF Spec, DebtOnlyFromOverrun, Overruns

----------------------------------------------------------------------------
(* No account is locked out by its own balance.                            *)

LEMMA SafeStart == Init => AccountsStaySafe
  <1> SUFFICES ASSUME Init, NEW u \in Users
               PROVE  Safe(users[u].quota) /\ Safe(users[u].usedQuota)
    BY DEF AccountsStaySafe
  <1>1. PICK q \in [Users -> Balances] :
           users = [v \in Users |-> [status |-> "enabled", quota |-> q[v],
                                     usedQuota |-> 0, requestCount |-> 0]]
    BY DEF Init
  <1>2. q[u] \in 0..MaxSafe
    BY AmountsAssumption
  <1>3. QED
    BY <1>1, <1>2, AmountsAssumption DEF Safe

\* The account a step writes is left in range by the step.
LEMMA SafeStep ==
  ASSUME TypeOK, AccountsStaySafe, Next
  PROVE  AccountsStaySafe'
  <1> DEFINE InBounds(row) == Safe(row.quota) /\ Safe(row.usedQuota)
  <1>0. /\ \A v \in Users : InBounds(users[v])
        /\ \A v \in Users : users[v].quota \in Int /\ users[v].usedQuota \in Nat
        /\ MaxSafe \in Nat
    BY AmountsAssumption DEF TypeOK, UserRow, AccountsStaySafe
  <1>1. ASSUME NEW u \in Users, InBounds(users'[u]),
               \A v \in Users \ {u} : users'[v] = users[v]
        PROVE  AccountsStaySafe'
    BY <1>0, <1>1 DEF AccountsStaySafe
  <1>2. ASSUME users' = users
        PROVE  AccountsStaySafe'
    BY <1>2 DEF AccountsStaySafe
  <1>3. ASSUME NEW r \in Requests, NEW a \in Estimates, ReserveQuota(r, a)
        PROVE  AccountsStaySafe'
    <2>1. Payer[r] \in Users /\ Need(a) \in Nat
      BY PayerType, NeedType
    <2>2. users'[Payer[r]].usedQuota = users[Payer[r]].usedQuota
      BY <1>3, <2>1 DEF ReserveQuota, TypeOK, UserRow
    <2>3. InBounds(users'[Payer[r]])
      BY <1>0, <1>3, <2>1, <2>2, ReserveEffect DEF Safe
    <2>4. QED
      BY <1>1, <1>3, <2>1, <2>3, ReserveEffect
  <1>4. ASSUME NEW r \in Requests, NEW c \in Charges \cup {0},
               NEW k \in {"settle", "release"}, Complete(r, c, k)
        PROVE  AccountsStaySafe'
    <2>1. c \in Nat
      BY AmountsAssumption
    <2>2. Payer[r] \in Users
      BY PayerType
    <2>3. /\ users'[Payer[r]].quota = users[Payer[r]].quota + Delta(r, c)
          /\ users'[Payer[r]].usedQuota = users[Payer[r]].usedQuota + c
          /\ \A v \in Users \ {Payer[r]} : users'[v] = users[v]
      BY <1>4, <2>2 DEF Complete, TypeOK, UserRow
    <2>4. InBounds(users'[Payer[r]])
      BY <1>4, <2>3 DEF Complete, Completable
    <2>5. QED
      BY <1>1, <2>2, <2>3, <2>4
  <1>5. ASSUME OperatorStep
        PROVE  AccountsStaySafe'
    <2>1. ASSUME NEW u \in Users, NEW s \in Statuses,
                 NEW q \in Balances \cup {users[u].quota}, OverwriteUser(u, s, q)
          PROVE  AccountsStaySafe'
      <3>1. Safe(q)
        BY <1>0, AmountsAssumption DEF Safe
      <3>2. /\ users'[u].quota = q
            /\ users'[u].usedQuota = users[u].usedQuota
            /\ \A v \in Users \ {u} : users'[v] = users[v]
        BY <2>1 DEF OverwriteUser, TypeOK, UserRow
      <3>3. QED
        BY <1>0, <1>1, <3>1, <3>2
    <2>2. ASSUME NEW u \in Users, NEW s \in Statuses, NEW q \in Balances,
                 NEW e \in Balances, EditUser(u, s, q, e)
          PROVE  AccountsStaySafe'
      <3>1. Safe(q)
        BY <1>0, AmountsAssumption DEF Safe
      <3>2. /\ users'[u].quota = q
            /\ users'[u].usedQuota = users[u].usedQuota
            /\ \A v \in Users \ {u} : users'[v] = users[v]
        BY <2>2 DEF EditUser, TypeOK, UserRow
      <3>3. QED
        BY <1>0, <1>1, <3>1, <3>2
    <2>3. ASSUME NEW t \in Tokens, NEW s \in Statuses,
                 NEW q \in Balances \cup {tokens[t].quota},
                 NEW b \in BOOLEAN, NEW x \in BOOLEAN, UpdateToken(t, s, q, b, x)
          PROVE  AccountsStaySafe'
      BY <1>2, <2>3 DEF UpdateToken
    <2>4. ASSUME NEW t \in Tokens, DeleteToken(t)
          PROVE  AccountsStaySafe'
      BY <1>2, <2>4 DEF DeleteToken
    <2>5. QED
      BY <1>5, <2>1, <2>2, <2>3, <2>4 DEF OperatorStep
  <1>6. ASSUME OtherStep
        PROVE  AccountsStaySafe'
    <2>1. ASSUME NEW c \in Codes, NEW u \in Users, RedeemCode(c, u)
          PROVE  AccountsStaySafe'
      <3>1. CodeValue[c] \in Nat
        BY AmountsAssumption
      <3>2. /\ users'[u].quota = users[u].quota + CodeValue[c]
            /\ users'[u].usedQuota = users[u].usedQuota
            /\ \A v \in Users \ {u} : users'[v] = users[v]
        BY <2>1, <3>1 DEF RedeemCode, TypeOK, UserRow
      <3>3. Safe(users[u].quota + CodeValue[c])
        BY <2>1 DEF RedeemCode
      <3>4. QED
        BY <1>0, <1>1, <3>2, <3>3
    <2>2. QED
      BY <1>2, <1>6, <2>1 DEF OtherStep, ExpireToken, ExpireCode
  <1>7. QED
    BY <1>3, <1>4, <1>5, <1>6, RelayCases DEF Next

\* Whatever is held, charged, refunded, redeemed or typed in, an account's
\* balance and lifetime spend stay within the safe integers, so the integer
\* check of reserveQuota never turns an account away.
THEOREM AccountsAlwaysSafe == Spec => []AccountsStaySafe
  <1>1. AccountsStaySafe /\ UNCHANGED vars => AccountsStaySafe'
    BY DEF AccountsStaySafe, vars
  <1>2. TypeOK /\ AccountsStaySafe /\ [Next]_vars => AccountsStaySafe'
    BY <1>1, SafeStep
  <1>3. QED
    BY <1>2, SafeStart, TypeCorrect, PTL DEF Spec

----------------------------------------------------------------------------
(* The books balance.  First, what a row does to the sums over the rows    *)
(* when it begins and when it is applied; j are the rows before, k after.  *)

Journals == [Requests -> JournalRow]
Begun(j) == {r \in Requests : j[r].state # "absent"}
RowsOf(j, S, state) == {r \in S : j[r].state = state}

HeldBy(j, S) == SumFunctionOnSet([r \in S |-> j[r].reserved], RowsOf(j, S, "pending"))
PaidBy(j, S) == SumFunctionOnSet([r \in S |-> j[r].amount], RowsOf(j, S, "applied"))

\* j and k differ in row r only; S and T differ in the member r only.
OnlyRow(r, j, k) == \A q \in Requests \ {r} : k[q] = j[q]
OnlyMember(r, S, T) == T \ {r} = S \ {r}

LEMMA RowsOfType ==
  ASSUME NEW j \in Journals, IsFiniteSet(Begun(j)), NEW S \in SUBSET Requests,
         NEW state \in {"pending", "applied"}
  PROVE  /\ IsFiniteSet(RowsOf(j, S, state))
         /\ \A r \in RowsOf(j, S, state) :
               r \in S /\ j[r].reserved \in Nat /\ j[r].amount \in Nat
  <1>1. RowsOf(j, S, state) \subseteq Begun(j)
    BY DEF Begun, RowsOf
  <1>2. IsFiniteSet(RowsOf(j, S, state))
    BY <1>1, FS_Subset
  <1>3. QED
    BY <1>2 DEF RowsOf, Journals, JournalRow

LEMMA SumsType ==
  ASSUME NEW j \in Journals, IsFiniteSet(Begun(j)), NEW S \in SUBSET Requests
  PROVE  HeldBy(j, S) \in Nat /\ PaidBy(j, S) \in Nat
  <1>1. HeldBy(j, S) \in Nat
    BY RowsOfType, SumType DEF HeldBy
  <1>2. PaidBy(j, S) \in Nat
    BY RowsOfType, SumType DEF PaidBy
  <1>3. QED
    BY <1>1, <1>2

\* A row of T begins: S and T differ in that row at most, which may be counted
\* from now on.
LEMMA RowBegins ==
  ASSUME NEW j \in Journals, NEW k \in Journals, IsFiniteSet(Begun(j)),
         NEW S \in SUBSET Requests, NEW T \in SUBSET Requests, NEW r \in Requests,
         OnlyRow(r, j, k), OnlyMember(r, S, T),
         j[r].state = "absent", k[r].state = "pending"
  PROVE  /\ IsFiniteSet(Begun(k))
         /\ HeldBy(k, T) = HeldBy(j, S) + (IF r \in T THEN k[r].reserved ELSE 0)
         /\ PaidBy(k, T) = PaidBy(j, S)
  <1>1. IsFiniteSet(Begun(k))
    <2>1. Begun(k) = Begun(j) \cup {r}
      BY DEF Begun, OnlyRow
    <2>2. QED
      BY <2>1, FS_AddElement
  <1> DEFINE P == RowsOf(j, S, "pending")
             Q == RowsOf(k, T, "pending")
             f == [q \in S |-> j[q].reserved]
             g == [q \in T |-> k[q].reserved]
  <1>2. /\ IsFiniteSet(P) /\ r \notin P
        /\ SameOn(P, f, g)
    <2>1. IsFiniteSet(P) /\ \A q \in P : j[q].reserved \in Nat /\ q \in S
      BY RowsOfType
    <2>2. r \notin P
      BY DEF RowsOf, OnlyRow, OnlyMember
    <2>3. \A q \in P : q \in T /\ k[q] = j[q]
      BY <2>1, <2>2 DEF OnlyRow, OnlyMember
    <2>4. QED
      BY <2>1, <2>2, <2>3 DEF SameOn
  <1>3. HeldBy(k, T) = HeldBy(j, S) + (IF r \in T THEN k[r].reserved ELSE 0)
    <2>1. CASE r \in T
      <3>1. Q \ {r} = P
        BY <1>2, <2>1 DEF RowsOf, OnlyRow, OnlyMember
      <3>m. r \in Q
        BY <1>2, <2>1 DEF RowsOf, OnlyRow, OnlyMember
      <3>2. g[r] = k[r].reserved
        BY <2>1
      <3>n. g[r] \in Nat
        BY <3>2 DEF Journals, JournalRow
      <3>3. /\ IsFiniteSet(Q \ {r})
            /\ SameOn(Q \ {r}, f, g)
        BY <1>2, <3>1
      <3>4. SumFunctionOnSet(g, Q) = SumFunctionOnSet(f, Q \ {r}) + g[r]
        <4> HIDE DEF f, g, Q
        <4>1. QED
          BY <3>m, <3>n, <3>3, SumGrows
      <3>5. QED
        BY <2>1, <3>1, <3>2, <3>4 DEF HeldBy
    <2>2. CASE r \notin T
      <3>1. Q = P
        BY <1>2, <2>2 DEF RowsOf, OnlyRow, OnlyMember
      <3>2. SumFunctionOnSet(g, P) = SumFunctionOnSet(f, P)
        <4> HIDE DEF f, g, P
        <4>1. QED
          BY <1>2, SumOfSame
      <3>3. HeldBy(j, S) \in Nat
        BY SumsType
      <3>4. QED
        BY <2>2, <3>1, <3>2, <3>3 DEF HeldBy
    <2>3. QED
      BY <2>1, <2>2
  <1>4. PaidBy(k, T) = PaidBy(j, S)
    <2> DEFINE A == RowsOf(j, S, "applied")
               a == [q \in S |-> j[q].amount]
               b == [q \in T |-> k[q].amount]
    <2>1. IsFiniteSet(A) /\ \A q \in A : j[q].amount \in Nat /\ q \in S
      BY RowsOfType
    <2>2. RowsOf(k, T, "applied") = A /\ r \notin A
      BY DEF RowsOf, OnlyRow, OnlyMember
    <2>3. SameOn(A, a, b)
      <3>1. \A q \in A : q \in T /\ k[q] = j[q]
        BY <2>1, <2>2 DEF OnlyRow, OnlyMember
      <3>2. QED
        BY <2>1, <3>1 DEF SameOn
    <2>4. SumFunctionOnSet(b, A) = SumFunctionOnSet(a, A)
      <3> HIDE DEF a, b, A
      <3>1. QED
        BY <2>1, <2>3, SumOfSame
    <2>5. QED
      BY <2>2, <2>4 DEF PaidBy
  <1>5. QED
    BY <1>1, <1>3, <1>4

\* A row is applied: it is no longer held and counts as paid.
LEMMA RowIsApplied ==
  ASSUME NEW j \in Journals, NEW k \in Journals, IsFiniteSet(Begun(j)),
         NEW S \in SUBSET Requests, NEW r \in Requests,
         OnlyRow(r, j, k),
         j[r].state = "pending", k[r].state = "applied"
  PROVE  /\ Begun(k) = Begun(j)
         /\ HeldBy(k, S) = HeldBy(j, S) - (IF r \in S THEN j[r].reserved ELSE 0)
         /\ PaidBy(k, S) = PaidBy(j, S) + (IF r \in S THEN k[r].amount ELSE 0)
  <1>1. Begun(k) = Begun(j)
    BY DEF Begun, OnlyRow
  <1>2. /\ HeldBy(j, S) \in Nat /\ PaidBy(j, S) \in Nat
        /\ HeldBy(k, S) \in Nat
    BY <1>1, SumsType
  <1>3. HeldBy(j, S) = HeldBy(k, S) + (IF r \in S THEN j[r].reserved ELSE 0)
    <2> DEFINE P == RowsOf(k, S, "pending")
               Q == RowsOf(j, S, "pending")
               f == [q \in S |-> k[q].reserved]
               g == [q \in S |-> j[q].reserved]
    <2>0. IsFiniteSet(P)
      BY <1>1, RowsOfType
    <2>1. \A q \in P : k[q].reserved \in Nat /\ q \in S
      BY <1>1, RowsOfType
    <2>2. r \notin P
      BY DEF RowsOf, OnlyRow
    <2>3. SameOn(P, f, g)
      BY <2>1, <2>2 DEF OnlyRow, SameOn
    <2>4. CASE r \in S
      <3>1. Q \ {r} = P
        BY <2>2, <2>4 DEF RowsOf, OnlyRow
      <3>m. r \in Q
        BY <2>2, <2>4 DEF RowsOf, OnlyRow
      <3>2. g[r] = j[r].reserved
        BY <2>4
      <3>n. g[r] \in Nat
        BY <3>2 DEF Journals, JournalRow
      <3>3. /\ IsFiniteSet(Q \ {r})
            /\ SameOn(Q \ {r}, f, g)
        BY <2>0, <2>3, <3>1
      <3>4. SumFunctionOnSet(g, Q) = SumFunctionOnSet(f, Q \ {r}) + g[r]
        <4> HIDE DEF f, g, Q
        <4>1. QED
          BY <3>m, <3>n, <3>3, SumGrows
      <3>5. QED
        BY <2>4, <3>1, <3>2, <3>4 DEF HeldBy
    <2>5. CASE r \notin S
      <3>1. RowsOf(j, S, "pending") = P
        BY <2>5 DEF RowsOf, OnlyRow
      <3>2. SumFunctionOnSet(g, P) = SumFunctionOnSet(f, P)
        <4> HIDE DEF f, g, P
        <4>1. QED
          BY <2>0, <2>3, SumOfSame
      <3>3. QED
        BY <1>2, <2>5, <3>1, <3>2 DEF HeldBy
    <2>6. QED
      BY <2>4, <2>5
  <1>4. PaidBy(k, S) = PaidBy(j, S) + (IF r \in S THEN k[r].amount ELSE 0)
    <2> DEFINE A == RowsOf(j, S, "applied")
               B == RowsOf(k, S, "applied")
               f == [q \in S |-> j[q].amount]
               g == [q \in S |-> k[q].amount]
    <2>0. IsFiniteSet(A)
      BY RowsOfType
    <2>1. \A q \in A : j[q].amount \in Nat /\ q \in S
      BY RowsOfType
    <2>2. r \notin A
      BY DEF RowsOf, OnlyRow
    <2>3. SameOn(A, f, g)
      BY <2>1, <2>2 DEF OnlyRow, SameOn
    <2>4. CASE r \in S
      <3>1. B \ {r} = A
        BY <2>2, <2>4 DEF RowsOf, OnlyRow
      <3>m. r \in B
        BY <2>2, <2>4 DEF RowsOf, OnlyRow
      <3>2. g[r] = k[r].amount
        BY <2>4
      <3>n. g[r] \in Nat
        BY <3>2 DEF Journals, JournalRow
      <3>3. /\ IsFiniteSet(B \ {r})
            /\ SameOn(B \ {r}, f, g)
        BY <2>0, <2>3, <3>1
      <3>4. SumFunctionOnSet(g, B) = SumFunctionOnSet(f, B \ {r}) + g[r]
        <4> HIDE DEF f, g, B
        <4>1. QED
          BY <3>m, <3>n, <3>3, SumGrows
      <3>5. QED
        BY <2>4, <3>1, <3>2, <3>4 DEF PaidBy
    <2>5. CASE r \notin S
      <3>1. RowsOf(k, S, "applied") = A
        BY <2>5 DEF RowsOf, OnlyRow
      <3>2. SumFunctionOnSet(g, A) = SumFunctionOnSet(f, A)
        <4> HIDE DEF f, g, A
        <4>1. QED
          BY <2>0, <2>3, SumOfSame
      <3>3. QED
        BY <1>2, <2>5, <3>1, <3>2 DEF PaidBy
    <2>6. QED
      BY <2>4, <2>5
  <1>5. QED
    BY <1>1, <1>2, <1>3, <1>4 DEF Journals, JournalRow

\* The sums of QuotaLedger, over the journal of a state.
LEMMA SumsOfJournal ==
  ASSUME NEW S
  PROVE  HeldIn(S) = HeldBy(journal, S) /\ PaidIn(S) = PaidBy(journal, S)
  BY DEF HeldIn, PaidIn, Rows, HeldBy, PaidBy, RowsOf

(* The invariant: the books of each account and of each key.               *)

RequestsWith(t) == {r \in Requests : Bearer[r] = t}
CappedWith(j, t) == {r \in Requests : Bearer[r] = t /\ j[r].tokenLimited}
SettledOf(j, u) == {r \in RequestsOf(u) : j[r].kind = "settle"}

AccountBalances(u) ==
    /\ users[u].quota + HeldBy(journal, RequestsOf(u)) + users[u].usedQuota
          = granted[u] + RedeemedBy(u)
    /\ users[u].usedQuota = PaidBy(journal, RequestsOf(u))
    /\ users[u].requestCount = Cardinality(SettledOf(journal, u))

KeyBalances(t) ==
    tokens[t].present =>
        /\ tokens[t].quota + HeldBy(journal, CappedWith(journal, t))
               + PaidBy(journal, CappedWith(journal, t)) = granted[t]
        /\ tokens[t].usedQuota = PaidBy(journal, RequestsWith(t))

\* Only finitely many requests and redemptions have happened so far.
FinitelyMany ==
    /\ IsFiniteSet(Begun(journal))
    /\ IsFiniteSet({c \in Codes : codes[c].status = "used"})

\* A row says that it settled something only once it is applied, and a code
\* nobody redeemed has no redeemer.
RowsAreHonest ==
    /\ \A r \in Requests : journal[r].kind = "settle" => journal[r].state = "applied"
    /\ \A c \in Codes : codes[c].status = "unused" => codes[c].usedBy = {}

BooksInv ==
    /\ TypeOK /\ FinitelyMany /\ RowsAreHonest
    /\ \A u \in Users : AccountBalances(u)
    /\ \A t \in Tokens : KeyBalances(t)

LEMMA BooksAreBalances ==
  ASSUME \A u \in Users : AccountBalances(u), \A t \in Tokens : KeyBalances(t)
  PROVE  BooksBalance
  <1>1. MoneyIsConserved
    BY SumsOfJournal DEF MoneyIsConserved, AccountBalances
  <1>2. CapIsConserved
    BY SumsOfJournal DEF CapIsConserved, KeyBalances, CappedRequestsOf, CappedWith
  <1>3. CountersMatchJournal
    BY SumsOfJournal
    DEF CountersMatchJournal, AccountBalances, KeyBalances, SettledOf, RequestsWith
  <1>4. QED
    BY <1>1, <1>2, <1>3 DEF BooksBalance

\* The sums of BooksInv are naturals.
LEMMA BooksType ==
  ASSUME BooksInv
  PROVE  /\ \A S \in SUBSET Requests :
               HeldBy(journal, S) \in Nat /\ PaidBy(journal, S) \in Nat
         /\ \A u \in Users : RedeemedBy(u) \in Nat
         /\ \A u \in Users : granted[u] \in Int /\ u \notin Tokens
         /\ \A t \in Tokens : granted[t] \in Int /\ t \notin Users
  <1>1. journal \in Journals /\ IsFiniteSet(Begun(journal))
    BY DEF BooksInv, TypeOK, Journals, FinitelyMany
  <1>2. ASSUME NEW u \in Users
        PROVE  RedeemedBy(u) \in Nat
    <2> DEFINE C == {c \in Codes : u \in codes[c].usedBy}
    <2>1. C \subseteq {c \in Codes : codes[c].status = "used"}
      BY DEF BooksInv, RowsAreHonest, TypeOK, CodeRow
    <2>2. IsFiniteSet(C)
      BY <2>1, FS_Subset DEF BooksInv, FinitelyMany
    <2>3. \A c \in C : CodeValue[c] \in Nat
      BY AmountsAssumption
    <2>4. SumFunctionOnSet(CodeValue, C) \in Nat
      <3> HIDE DEF C
      <3>1. QED
        BY <2>2, <2>3, SumType
    <2>5. QED
      BY <2>4 DEF RedeemedBy
  <1>3. QED
    BY <1>1, <1>2, SumsType, PartiesAssumption DEF BooksInv, TypeOK

LEMMA BooksStart == Init => BooksInv
  <1> SUFFICES ASSUME Init
               PROVE  BooksInv
    OBVIOUS
  <1>1. TypeOK
    BY InitTypeOK
  <1>2. /\ \A r \in Requests : journal[r] = NoHold
        /\ \A c \in Codes : codes[c].status = "unused" /\ codes[c].usedBy = {}
        /\ \A u \in Users : granted[u] = users[u].quota
        /\ \A t \in Tokens : granted[t] = tokens[t].quota
    BY PartiesAssumption DEF Init
  <1>3. \A u \in Users : users[u].usedQuota = 0 /\ users[u].requestCount = 0
    BY DEF Init
  <1>4. \A t \in Tokens : tokens[t].usedQuota = 0
    BY DEF Init
  <1>5. FinitelyMany /\ RowsAreHonest
    <2>1. Begun(journal) = {} /\ {c \in Codes : codes[c].status = "used"} = {}
      BY <1>2 DEF Begun, NoHold
    <2>2. QED
      BY <1>2, <2>1, FS_EmptySet DEF FinitelyMany, RowsAreHonest, NoHold
  <1>6. ASSUME NEW S \in SUBSET Requests
        PROVE  HeldBy(journal, S) = 0 /\ PaidBy(journal, S) = 0
    <2>1. RowsOf(journal, S, "pending") = {} /\ RowsOf(journal, S, "applied") = {}
      BY <1>2 DEF RowsOf, NoHold
    <2>2. QED
      BY <2>1, SumOfNone DEF HeldBy, PaidBy
  <1>7. ASSUME NEW u \in Users
        PROVE  AccountBalances(u)
    <2>1. RedeemedBy(u) = 0
      <3>1. {c \in Codes : u \in codes[c].usedBy} = {}
        BY <1>2
      <3>2. QED
        BY <3>1, SumOfNone DEF RedeemedBy
    <2>2. Cardinality(SettledOf(journal, u)) = 0
      <3>1. SettledOf(journal, u) = {}
        BY <1>2 DEF SettledOf, NoHold, RequestsOf
      <3>2. QED
        BY <3>1, FS_EmptySet
    <2>3. RequestsOf(u) \in SUBSET Requests /\ users[u].quota \in Int
      BY <1>1 DEF RequestsOf, TypeOK, UserRow
    <2>4. QED
      BY <1>2, <1>3, <1>6, <2>1, <2>2, <2>3 DEF AccountBalances
  <1>8. ASSUME NEW t \in Tokens
        PROVE  KeyBalances(t)
    <2>1. /\ RequestsWith(t) \in SUBSET Requests
          /\ CappedWith(journal, t) \in SUBSET Requests
          /\ tokens[t].quota \in Int
      BY <1>1 DEF RequestsWith, CappedWith, TypeOK, TokenRow
    <2>2. QED
      BY <1>2, <1>4, <1>6, <2>1 DEF KeyBalances
  <1>9. QED
    BY <1>1, <1>5, <1>7, <1>8 DEF BooksInv

\* A hold: the payer's and the capped key's money moves onto the row.
LEMMA ReserveBalances ==
  ASSUME BooksInv, NEW r \in Requests, NEW a \in Estimates, ReserveQuota(r, a)
  PROVE  BooksInv'
  <1> DEFINE t0 == Bearer[r]
             u0 == Payer[r]
             need == Need(a)
  <1>0. TypeOK /\ TypeOK' /\ t0 \in Tokens /\ u0 \in Users /\ need \in Nat
    BY ReserveTypeOK, PayerType, NeedType, PartiesAssumption DEF BooksInv
  <1>1. /\ journal \in Journals /\ journal' \in Journals
        /\ OnlyRow(r, journal, journal') /\ IsFiniteSet(Begun(journal))
        /\ journal[r].state = "absent" /\ journal'[r].state = "pending"
        /\ journal'[r].reserved = need /\ journal'[r].kind = "reserve"
        /\ journal'[r].tokenLimited = ~tokens[t0].unlimitedQuota
    BY <1>0 DEF TypeOK, Journals, OnlyRow, BooksInv, FinitelyMany, ReserveQuota
  <1>2. UNCHANGED <<codes, granted>>
    BY DEF ReserveQuota
  <1>3. IsFiniteSet(Begun(journal'))
    BY <1>1, RowBegins DEF OnlyMember
  <1>4. FinitelyMany' /\ RowsAreHonest'
    <2>1. \A q \in Requests : journal'[q].kind = "settle" => journal'[q].state = "applied"
      BY <1>1 DEF OnlyRow, BooksInv, RowsAreHonest
    <2>2. QED
      BY <1>2, <1>3, <2>1 DEF FinitelyMany, RowsAreHonest, BooksInv, Begun
  <1>5. ASSUME NEW u \in Users
        PROVE  AccountBalances(u)'
    <2> DEFINE S == RequestsOf(u)
               charged == IF r \in S THEN need ELSE 0
    <2>1. S \in SUBSET Requests /\ (r \in S <=> u = u0) /\ OnlyMember(r, S, S)
      BY DEF RequestsOf, OnlyMember
    <2>2. /\ HeldBy(journal', S) = HeldBy(journal, S) + charged
          /\ PaidBy(journal', S) = PaidBy(journal, S)
      <3> HIDE DEF S
      <3>1. QED
        BY <1>1, <2>1, RowBegins
    <2>3. SettledOf(journal', u) = SettledOf(journal, u)
      BY <1>1, <2>1 DEF SettledOf, OnlyRow, BooksInv, RowsAreHonest
    <2>4. /\ users'[u].quota = users[u].quota - charged
          /\ users'[u].usedQuota = users[u].usedQuota
          /\ users'[u].requestCount = users[u].requestCount
      <3> HIDE DEF S
      <3>1. QED
        BY <1>0, <2>1 DEF ReserveQuota, TypeOK, UserRow
    <2>5. RedeemedBy(u)' = RedeemedBy(u) /\ granted'[u] = granted[u]
      BY <1>2 DEF RedeemedBy
    <2>6. /\ users[u].quota \in Int /\ users[u].usedQuota \in Nat
          /\ HeldBy(journal, S) \in Nat /\ charged \in Nat
          /\ granted[u] \in Int /\ RedeemedBy(u) \in Nat
      <3> HIDE DEF S
      <3>1. QED
        BY <1>0, <2>1, BooksType DEF TypeOK, UserRow
    <2>7. AccountBalances(u)
      BY DEF BooksInv
    <2>8. RequestsOf(u)' = S /\ SettledOf(journal, u)' = SettledOf(journal', u)
      BY DEF RequestsOf, SettledOf
    <2> HIDE DEF charged
    <2>9. QED
      BY <2>2, <2>3, <2>4, <2>5, <2>6, <2>7, <2>8 DEF AccountBalances
  <1>6. ASSUME NEW t \in Tokens
        PROVE  KeyBalances(t)'
    <2> DEFINE S == CappedWith(journal, t)
               T == CappedWith(journal', t)
               W == RequestsWith(t)
               charged == IF r \in T THEN need ELSE 0
    <2>1. /\ S \in SUBSET Requests /\ T \in SUBSET Requests /\ W \in SUBSET Requests
          /\ OnlyMember(r, S, T) /\ OnlyMember(r, W, W)
      BY <1>1 DEF CappedWith, RequestsWith, OnlyMember, OnlyRow
    <2>2. /\ HeldBy(journal', T) = HeldBy(journal, S) + charged
          /\ PaidBy(journal', T) = PaidBy(journal, S)
          /\ PaidBy(journal', W) = PaidBy(journal, W)
      <3> HIDE DEF S, T, W
      <3>1. QED
        BY <1>1, <2>1, RowBegins
    <2>3. r \in T <=> t = t0 /\ ~tokens[t0].unlimitedQuota
      BY <1>1 DEF CappedWith
    <2>4. /\ tokens'[t].quota = tokens[t].quota - charged
          /\ tokens'[t].usedQuota = tokens[t].usedQuota
          /\ tokens'[t].present = tokens[t].present
      <3> HIDE DEF T
      <3>1. CASE tokens[t0].unlimitedQuota
        BY <1>0, <2>3, <3>1 DEF ReserveQuota, TypeOK, TokenRow
      <3>2. CASE ~tokens[t0].unlimitedQuota
        BY <1>0, <2>3, <3>2 DEF ReserveQuota, TypeOK, TokenRow
      <3>3. QED
        BY <3>1, <3>2
    <2>5. granted'[t] = granted[t]
      BY <1>2
    <2>6. /\ tokens[t].quota \in Int /\ tokens[t].usedQuota \in Nat
          /\ HeldBy(journal, S) \in Nat /\ PaidBy(journal, S) \in Nat
          /\ granted[t] \in Int /\ charged \in Nat
      <3> HIDE DEF S, T
      <3>1. QED
        BY <1>0, <2>1, BooksType DEF TypeOK, TokenRow
    <2>7. KeyBalances(t)
      BY DEF BooksInv
    <2>8. /\ CappedWith(journal, t)' = T /\ RequestsWith(t)' = W
          /\ CappedWith(journal, t) = S /\ RequestsWith(t) = W
      BY DEF RequestsWith, CappedWith
    <2> HIDE DEF S, T, W, charged
    <2>9. QED
      BY <2>2, <2>4, <2>5, <2>6, <2>7, <2>8 DEF KeyBalances
  <1>7. QED
    BY <1>0, <1>4, <1>5, <1>6 DEF BooksInv

\* A completion: what was held for the row is paid or given back.
LEMMA CompleteBalances ==
  ASSUME BooksInv, NEW r \in Requests, NEW c \in Nat,
         NEW kind \in {"settle", "release"}, Complete(r, c, kind)
  PROVE  BooksInv'
  <1> DEFINE t0 == Bearer[r]
             u0 == Payer[r]
             held == journal[r].reserved
  <1>0. /\ TypeOK /\ TypeOK' /\ t0 \in Tokens /\ u0 \in Users /\ held \in Nat
        /\ Delta(r, c) = held - c
    BY CompleteTypeOK, PayerType, PartiesAssumption
    DEF BooksInv, TypeOK, JournalRow, Delta
  <1>1. /\ journal \in Journals /\ journal' \in Journals
        /\ IsFiniteSet(Begun(journal))
    BY <1>0 DEF TypeOK, Journals, BooksInv, FinitelyMany
  <1>2. /\ OnlyRow(r, journal, journal')
        /\ journal[r].state = "pending" /\ journal'[r].state = "applied"
        /\ journal'[r].amount = c /\ journal'[r].kind = kind
        /\ journal'[r].tokenLimited = journal[r].tokenLimited
    <2>1. journal' = [journal EXCEPT ![r] = [journal[r] EXCEPT
                        !.state = "applied", !.kind = kind, !.amount = c]]
      BY <1>0 DEF Complete, TypeOK
    <2>2. journal[r].state = "pending"
      BY DEF Complete, Completable, Open
    <2>3. QED
      BY <1>0, <2>1, <2>2 DEF TypeOK, JournalRow, OnlyRow
  <1>3. UNCHANGED <<codes, granted>>
    BY DEF Complete
  <1>4. Begun(journal') = Begun(journal)
    BY <1>1, <1>2, RowIsApplied
  <1>5. FinitelyMany' /\ RowsAreHonest'
    <2>1. \A q \in Requests : journal'[q].kind = "settle" => journal'[q].state = "applied"
      BY <1>2 DEF OnlyRow, BooksInv, RowsAreHonest
    <2>2. QED
      BY <1>3, <1>4, <2>1 DEF FinitelyMany, RowsAreHonest, BooksInv, Begun
  <1>6. ASSUME NEW u \in Users
        PROVE  AccountBalances(u)'
    <2> DEFINE S == RequestsOf(u)
               hold == IF r \in S THEN held ELSE 0
               paid == IF r \in S THEN c ELSE 0
               one == IF r \in S /\ kind = "settle" THEN 1 ELSE 0
    <2>1. S \in SUBSET Requests /\ (r \in S <=> u = u0)
      BY DEF RequestsOf
    <2>2. /\ HeldBy(journal', S) = HeldBy(journal, S) - hold
          /\ PaidBy(journal', S) = PaidBy(journal, S) + paid
      <3> HIDE DEF S
      <3>1. QED
        BY <1>1, <1>2, <2>1, RowIsApplied
    <2>3. Cardinality(SettledOf(journal', u)) = Cardinality(SettledOf(journal, u)) + one
      <3>1. SettledOf(journal, u) \subseteq Begun(journal)
        BY <2>1 DEF SettledOf, Begun, BooksInv, RowsAreHonest
      <3>2. /\ IsFiniteSet(SettledOf(journal, u))
            /\ Cardinality(SettledOf(journal, u)) \in Nat
        BY <1>1, <3>1, FS_Subset, FS_CardinalityType
      <3>3. r \notin SettledOf(journal, u)
        BY <1>2 DEF SettledOf, BooksInv, RowsAreHonest
      <3>4. CASE r \in S /\ kind = "settle"
        <4>1. SettledOf(journal', u) = SettledOf(journal, u) \cup {r}
          BY <1>2, <2>1, <3>4 DEF SettledOf, OnlyRow
        <4>2. QED
          BY <3>2, <3>3, <3>4, <4>1, FS_AddElement
      <3>5. CASE ~(r \in S /\ kind = "settle")
        <4>1. SettledOf(journal', u) = SettledOf(journal, u)
          BY <1>2, <2>1, <3>3, <3>5 DEF SettledOf, OnlyRow
        <4>2. QED
          BY <3>2, <3>5, <4>1
      <3>6. QED
        BY <3>4, <3>5
    <2>4. /\ users'[u].quota = users[u].quota + hold - paid
          /\ users'[u].usedQuota = users[u].usedQuota + paid
          /\ users'[u].requestCount = users[u].requestCount + one
      <3>1. users' = [users EXCEPT ![u0] = [users[u0] EXCEPT
                        !.quota = @ + Delta(r, c), !.usedQuota = @ + c,
                        !.requestCount = IF kind = "settle" THEN @ + 1 ELSE @]]
        BY <1>0 DEF Complete, TypeOK
      <3>2. /\ users'[u0].quota = users[u0].quota + (held - c)
            /\ users'[u0].usedQuota = users[u0].usedQuota + c
            /\ users'[u0].requestCount =
                  users[u0].requestCount + (IF kind = "settle" THEN 1 ELSE 0)
            /\ \A v \in Users \ {u0} : users'[v] = users[v]
        BY <1>0, <3>1 DEF TypeOK, UserRow
      <3> HIDE DEF S
      <3>3. QED
        BY <1>0, <2>1, <3>2 DEF TypeOK, UserRow
    <2>5. RedeemedBy(u)' = RedeemedBy(u) /\ granted'[u] = granted[u]
      BY <1>3 DEF RedeemedBy
    <2>6. /\ users[u].quota \in Int /\ users[u].usedQuota \in Nat
          /\ HeldBy(journal, S) \in Nat /\ hold \in Nat /\ paid \in Nat
          /\ granted[u] \in Int /\ RedeemedBy(u) \in Nat
      <3> HIDE DEF S
      <3>1. QED
        BY <1>0, <2>1, BooksType DEF TypeOK, UserRow
    <2>7. AccountBalances(u)
      BY DEF BooksInv
    <2>8. RequestsOf(u)' = S /\ SettledOf(journal, u)' = SettledOf(journal', u)
      BY DEF RequestsOf, SettledOf
    <2> HIDE DEF hold, paid, one
    <2>9. QED
      BY <2>2, <2>3, <2>4, <2>5, <2>6, <2>7, <2>8 DEF AccountBalances
  <1>7. ASSUME NEW t \in Tokens
        PROVE  KeyBalances(t)'
    <2> DEFINE S == CappedWith(journal, t)
               W == RequestsWith(t)
               hold == IF r \in S THEN held ELSE 0
               capped == IF r \in S THEN c ELSE 0
               paid == IF r \in W THEN c ELSE 0
    <2>1. /\ S \in SUBSET Requests /\ W \in SUBSET Requests
          /\ CappedWith(journal', t) = S
          /\ (r \in W <=> t = t0)
          /\ (r \in S <=> t = t0 /\ journal[r].tokenLimited)
      BY <1>2 DEF CappedWith, RequestsWith, OnlyRow
    <2>2. /\ HeldBy(journal', S) = HeldBy(journal, S) - hold
          /\ PaidBy(journal', S) = PaidBy(journal, S) + capped
          /\ PaidBy(journal', W) = PaidBy(journal, W) + paid
      <3> HIDE DEF S, W
      <3>1. QED
        BY <1>1, <1>2, <2>1, RowIsApplied
    <2>3. /\ tokens'[t].present = tokens[t].present
          /\ tokens[t].present =>
                /\ tokens'[t].quota = tokens[t].quota + hold - capped
                /\ tokens'[t].usedQuota = tokens[t].usedQuota + paid
      <3>1. CASE ~tokens[t0].present
        BY <2>1, <3>1, <1>0 DEF Complete, TypeOK, TokenRow
      <3>2. CASE tokens[t0].present
        <4>1. tokens' = [tokens EXCEPT ![t0] = [tokens[t0] EXCEPT
                           !.quota = IF Capped(r) THEN @ + Delta(r, c) ELSE @,
                           !.usedQuota = @ + c]]
          BY <1>0, <3>2 DEF Complete, TypeOK
        <4>2. /\ tokens'[t0].present = tokens[t0].present
              /\ tokens'[t0].quota = tokens[t0].quota
                    + (IF journal[r].tokenLimited THEN held - c ELSE 0)
              /\ tokens'[t0].usedQuota = tokens[t0].usedQuota + c
              /\ \A v \in Tokens \ {t0} : tokens'[v] = tokens[v]
          BY <1>0, <4>1 DEF TypeOK, TokenRow, Capped
        <4> HIDE DEF S, W
        <4>3. QED
          BY <1>0, <2>1, <4>2 DEF TypeOK, TokenRow
      <3>3. QED
        BY <3>1, <3>2
    <2>4. granted'[t] = granted[t]
      BY <1>3
    <2>5. /\ tokens[t].quota \in Int /\ tokens[t].usedQuota \in Nat
          /\ HeldBy(journal, S) \in Nat /\ PaidBy(journal, S) \in Nat
          /\ PaidBy(journal, W) \in Nat
          /\ granted[t] \in Int /\ hold \in Nat /\ capped \in Nat /\ paid \in Nat
      <3> HIDE DEF S, W
      <3>1. QED
        BY <1>0, <2>1, BooksType DEF TypeOK, TokenRow
    <2>6. KeyBalances(t)
      BY DEF BooksInv
    <2>7. /\ CappedWith(journal, t)' = S /\ RequestsWith(t)' = W
          /\ CappedWith(journal, t) = S /\ RequestsWith(t) = W
      BY <2>1 DEF RequestsWith, CappedWith
    <2> HIDE DEF S, W, hold, capped, paid
    <2>8. QED
      BY <2>2, <2>3, <2>4, <2>5, <2>6, <2>7 DEF KeyBalances
  <1>8. QED
    BY <1>0, <1>5, <1>6, <1>7 DEF BooksInv

\* Outside the relay: a balance moves by what the operator granted or the code
\* credited, or not at all.
LEMMA AccountStays ==
  ASSUME BooksInv, TypeOK', journal' = journal, NEW u \in Users,
         users'[u].usedQuota = users[u].usedQuota,
         users'[u].requestCount = users[u].requestCount,
         RedeemedBy(u)' \in Int,
         users'[u].quota - users[u].quota =
             (granted'[u] - granted[u]) + (RedeemedBy(u)' - RedeemedBy(u))
  PROVE  AccountBalances(u)'
  <1>1. /\ users[u].quota \in Int /\ users[u].usedQuota \in Nat
        /\ users'[u].quota \in Int /\ granted'[u] \in Int
    BY DEF BooksInv, TypeOK, UserRow
  <1>2. RequestsOf(u) \in SUBSET Requests /\ RequestsOf(u)' = RequestsOf(u)
        /\ SettledOf(journal, u)' = SettledOf(journal, u)
    BY DEF RequestsOf, SettledOf
  <1>3. /\ HeldBy(journal, RequestsOf(u)) \in Nat /\ granted[u] \in Int
        /\ RedeemedBy(u) \in Nat
    BY <1>2, BooksType
  <1>4. AccountBalances(u)
    BY DEF BooksInv
  <1>5. QED
    BY <1>1, <1>2, <1>3, <1>4 DEF AccountBalances

LEMMA KeyStays ==
  ASSUME BooksInv, TypeOK', journal' = journal, NEW t \in Tokens,
         tokens'[t].present => tokens[t].present,
         tokens'[t].usedQuota = tokens[t].usedQuota,
         tokens'[t].quota - tokens[t].quota = granted'[t] - granted[t]
  PROVE  KeyBalances(t)'
  <1>1. /\ tokens[t].quota \in Int /\ tokens'[t].quota \in Int /\ granted'[t] \in Int
    BY DEF BooksInv, TypeOK, TokenRow
  <1>2. /\ CappedWith(journal, t) \in SUBSET Requests
        /\ CappedWith(journal, t)' = CappedWith(journal, t)
        /\ RequestsWith(t)' = RequestsWith(t)
    BY DEF RequestsWith, CappedWith
  <1>3. /\ HeldBy(journal, CappedWith(journal, t)) \in Nat
        /\ PaidBy(journal, CappedWith(journal, t)) \in Nat
        /\ granted[t] \in Int
    BY <1>2, BooksType
  <1>4. KeyBalances(t)
    BY DEF BooksInv
  <1>5. QED
    BY <1>1, <1>2, <1>3, <1>4 DEF KeyBalances

\* The parts of BooksInv that only the relay and a redemption change.
LEMMA RecordsStay ==
  ASSUME BooksInv, journal' = journal,
         \A c \in Codes : codes'[c].status = codes[c].status
                              /\ codes'[c].usedBy = codes[c].usedBy
  PROVE  /\ FinitelyMany' /\ RowsAreHonest'
         /\ \A u \in Users : RedeemedBy(u)' = RedeemedBy(u)
  <1>1. {c \in Codes : codes'[c].status = "used"} = {c \in Codes : codes[c].status = "used"}
    OBVIOUS
  <1>2. \A u \in Users : {c \in Codes : u \in codes'[c].usedBy}
                             = {c \in Codes : u \in codes[c].usedBy}
    OBVIOUS
  <1>3. Begun(journal)' = Begun(journal)
    BY DEF Begun
  <1>4. FinitelyMany'
    BY <1>1, <1>3 DEF FinitelyMany, BooksInv
  <1>5. RowsAreHonest'
    BY DEF BooksInv, RowsAreHonest
  <1>6. QED
    BY <1>2, <1>4, <1>5 DEF RedeemedBy

LEMMA OperatorBalances ==
  ASSUME BooksInv, OperatorStep
  PROVE  BooksInv'
  <1>0. TypeOK /\ TypeOK' /\ Users \cap Tokens = {}
    BY OperatorTypeOK, PartiesAssumption DEF BooksInv
  <1>1. journal' = journal /\ codes' = codes
    <2>1. ASSUME NEW u, NEW s, NEW q, OverwriteUser(u, s, q)
          PROVE  codes' = codes
      BY <2>1 DEF OverwriteUser
    <2>2. ASSUME NEW u, NEW s, NEW q, NEW e, EditUser(u, s, q, e)
          PROVE  codes' = codes
      BY <2>2 DEF EditUser
    <2>3. ASSUME NEW t, NEW s, NEW q, NEW b, NEW x, UpdateToken(t, s, q, b, x)
          PROVE  codes' = codes
      BY <2>3 DEF UpdateToken
    <2>4. ASSUME NEW t, DeleteToken(t)
          PROVE  codes' = codes
      BY <2>4 DEF DeleteToken
    <2>5. codes' = codes
      BY <2>1, <2>2, <2>3, <2>4 DEF OperatorStep
    <2>6. QED
      BY <1>0, <2>5, OperatorOutsideRelay DEF OutsideRelay
  <1>2. /\ FinitelyMany' /\ RowsAreHonest'
        /\ \A u \in Users : RedeemedBy(u)' = RedeemedBy(u) /\ RedeemedBy(u) \in Nat
    BY <1>1, RecordsStay, BooksType
  <1>3. ASSUME NEW u \in Users, NEW s \in Statuses, NEW n \in Int,
               users' = [users EXCEPT ![u].status = s, ![u].quota = n],
               granted' = [granted EXCEPT ![u] = @ + n - users[u].quota],
               tokens' = tokens
        PROVE  BooksInv'
    <2>1. ASSUME NEW v \in Users
          PROVE  AccountBalances(v)'
      <3>1. /\ users'[v].usedQuota = users[v].usedQuota
            /\ users'[v].requestCount = users[v].requestCount
            /\ users'[v].quota - users[v].quota = granted'[v] - granted[v]
        <4>1. users' = [users EXCEPT ![u] = [users[u] EXCEPT !.status = s, !.quota = n]]
          BY <1>0, <1>3 DEF TypeOK
        <4>2. CASE v = u
          BY <1>0, <1>3, <4>1, <4>2 DEF TypeOK, UserRow
        <4>3. CASE v # u
          BY <1>0, <1>3, <4>1, <4>3 DEF TypeOK, UserRow
        <4>4. QED
          BY <4>2, <4>3
      <3>2. granted'[v] - granted[v] \in Int
        BY <1>0 DEF TypeOK
      <3>3. QED
        BY <1>0, <1>1, <1>2, <3>1, <3>2, AccountStays
    <2>2. ASSUME NEW t \in Tokens
          PROVE  KeyBalances(t)'
      <3>1. granted'[t] = granted[t] /\ granted[t] \in Int /\ tokens[t].quota \in Int
        BY <1>0, <1>3 DEF TypeOK, TokenRow
      <3>2. QED
        BY <1>0, <1>1, <1>3, <3>1, KeyStays
    <2>3. QED
      BY <1>0, <1>2, <2>1, <2>2 DEF BooksInv
  <1>4. ASSUME users' = users, \A u \in Users : granted'[u] = granted[u],
               \A t \in Tokens : KeyBalances(t)'
        PROVE  BooksInv'
    <2>1. ASSUME NEW v \in Users
          PROVE  AccountBalances(v)'
      <3>1. granted[v] \in Int /\ users[v].quota \in Int
        BY <1>0 DEF TypeOK, UserRow
      <3>2. QED
        BY <1>0, <1>1, <1>2, <1>4, <3>1, AccountStays
    <2>2. QED
      BY <1>0, <1>2, <1>4, <2>1 DEF BooksInv
  <1>5. ASSUME NEW u \in Users, NEW s \in Statuses,
               NEW q \in Balances \cup {users[u].quota}, OverwriteUser(u, s, q)
        PROVE  BooksInv'
    <2>1. q \in Int
      BY <1>0, AmountsAssumption DEF TypeOK, UserRow
    <2>2. QED
      BY <1>3, <1>5, <2>1 DEF OverwriteUser
  <1>6. ASSUME NEW u \in Users, NEW s \in Statuses, NEW q \in Balances,
               NEW e \in Balances, EditUser(u, s, q, e)
        PROVE  BooksInv'
    <2>1. q \in Int
      BY AmountsAssumption
    <2>2. QED
      BY <1>3, <1>6, <2>1 DEF EditUser
  <1>7. ASSUME NEW t \in Tokens, NEW s \in Statuses,
               NEW q \in Balances \cup {tokens[t].quota},
               NEW b \in BOOLEAN, NEW x \in BOOLEAN, UpdateToken(t, s, q, b, x)
        PROVE  BooksInv'
    <2>1. q \in Int
      BY <1>0, AmountsAssumption DEF TypeOK, TokenRow
    <2>2. /\ granted' = [granted EXCEPT ![t] = @ + q - tokens[t].quota]
          /\ \A u \in Users : granted'[u] = granted[u]
      BY <1>0, <1>7 DEF UpdateToken, TypeOK
    <2>3. tokens' = [tokens EXCEPT ![t] = [tokens[t] EXCEPT
                       !.status = s, !.quota = q, !.unlimitedQuota = b, !.expired = x]]
      BY <1>0, <1>7 DEF UpdateToken, TypeOK
    <2>4. ASSUME NEW v \in Tokens
          PROVE  KeyBalances(v)'
      <3>1. /\ tokens'[v].present = tokens[v].present
            /\ tokens'[v].usedQuota = tokens[v].usedQuota
            /\ tokens'[v].quota - tokens[v].quota = granted'[v] - granted[v]
        <4>1. CASE v = t
          BY <1>0, <2>1, <2>2, <2>3, <4>1 DEF TypeOK, TokenRow
        <4>2. CASE v # t
          BY <1>0, <2>2, <2>3, <4>2 DEF TypeOK, TokenRow
        <4>3. QED
          BY <4>1, <4>2
      <3>2. QED
        BY <1>0, <1>1, <3>1, KeyStays
    <2>5. QED
      BY <1>4, <1>7, <2>2, <2>4 DEF UpdateToken
  <1>8. ASSUME NEW t \in Tokens, DeleteToken(t)
        PROVE  BooksInv'
    <2>1. tokens' = [tokens EXCEPT ![t] = [tokens[t] EXCEPT !.present = FALSE]]
          /\ UNCHANGED <<users, granted>>
      BY <1>0, <1>8 DEF DeleteToken, TypeOK
    <2>2. ASSUME NEW v \in Tokens
          PROVE  KeyBalances(v)'
      <3>1. /\ tokens'[v].present => tokens[v].present
            /\ tokens'[v].usedQuota = tokens[v].usedQuota
            /\ tokens'[v].quota = tokens[v].quota
            /\ tokens[v].quota \in Int /\ granted[v] \in Int
        BY <1>0, <2>1 DEF TypeOK, TokenRow
      <3>2. QED
        BY <1>0, <1>1, <2>1, <3>1, KeyStays
    <2>3. QED
      BY <1>4, <2>1, <2>2
  <1>9. QED
    BY <1>5, <1>6, <1>7, <1>8 DEF OperatorStep

\* A redemption: the credit and the redeemer appear together, once per code.
LEMMA RedeemBalances ==
  ASSUME BooksInv, NEW c \in Codes, NEW u \in Users, RedeemCode(c, u)
  PROVE  BooksInv'
  <1> DEFINE CodesOf(v) == {d \in Codes : v \in codes[d].usedBy}
             CodesThen(v) == {d \in Codes : v \in codes'[d].usedBy}
             Used == {d \in Codes : codes[d].status = "used"}
  <1>0. TypeOK /\ TypeOK' /\ CodeValue[c] \in Nat
    BY OtherTypeOK, AmountsAssumption DEF BooksInv, OtherStep
  <1>1. /\ journal' = journal /\ tokens' = tokens /\ granted' = granted
        /\ codes[c].status = "unused" /\ codes[c].usedBy = {}
    BY DEF RedeemCode, BooksInv, RowsAreHonest
  <1>2. codes' = [codes EXCEPT ![c] = [codes[c] EXCEPT
                    !.status = "used", !.usedBy = {u}]]
    <2>1. codes' = [codes EXCEPT ![c] = [codes[c] EXCEPT
                      !.status = "used", !.usedBy = codes[c].usedBy \cup {u}]]
      BY <1>0 DEF RedeemCode, TypeOK
    <2>2. codes[c].usedBy \cup {u} = {u}
      BY <1>1
    <2>3. QED
      BY <2>1, <2>2
  <1>3. /\ codes'[c].status = "used" /\ codes'[c].usedBy = {u}
        /\ \A d \in Codes \ {c} : codes'[d] = codes[d]
    BY <1>0, <1>2 DEF TypeOK, CodeRow
  <1>4. FinitelyMany' /\ RowsAreHonest'
    <2>1. {d \in Codes : codes'[d].status = "used"} = Used \cup {c}
      BY <1>3
    <2>2. IsFiniteSet(Used \cup {c})
      BY FS_AddElement DEF BooksInv, FinitelyMany
    <2>3. Begun(journal)' = Begun(journal)
      BY <1>1 DEF Begun
    <2>4. FinitelyMany'
      BY <2>1, <2>2, <2>3 DEF BooksInv, FinitelyMany
    <2>5. RowsAreHonest'
      BY <1>1, <1>3 DEF BooksInv, RowsAreHonest
    <2>6. QED
      BY <2>4, <2>5
  <1>5. ASSUME NEW v \in Users
        PROVE  /\ RedeemedBy(v) \in Nat
               /\ RedeemedBy(v)' = RedeemedBy(v) + (IF v = u THEN CodeValue[c] ELSE 0)
    <2>1. RedeemedBy(v) \in Nat /\ RedeemedBy(v) = SumFunctionOnSet(CodeValue, CodesOf(v))
          /\ RedeemedBy(v)' = SumFunctionOnSet(CodeValue, CodesThen(v))
      BY BooksType DEF RedeemedBy
    <2>2. CASE v = u
      <3>1. CodesThen(v) \ {c} = CodesOf(v) /\ c \in CodesThen(v)
        BY <1>1, <1>3, <2>2
      <3>2. IsFiniteSet(CodesOf(v))
        <4>1. CodesOf(v) \subseteq Used
          BY <1>0 DEF BooksInv, RowsAreHonest, TypeOK, CodeRow
        <4>2. QED
          BY <4>1, FS_Subset DEF BooksInv, FinitelyMany
      <3>3. SameOn(CodesOf(v), CodeValue, CodeValue)
        BY AmountsAssumption DEF SameOn
      <3> HIDE DEF CodesThen, CodesOf
      <3>4. SumFunctionOnSet(CodeValue, CodesThen(v)) =
               SumFunctionOnSet(CodeValue, CodesThen(v) \ {c}) + CodeValue[c]
        <4>1. c \in CodesThen(v)
          BY <3>1
        <4>2. IsFiniteSet(CodesThen(v) \ {c}) /\ SameOn(CodesThen(v) \ {c}, CodeValue, CodeValue)
          BY <3>1, <3>2, <3>3
        <4>3. QED
          BY <1>0, <4>1, <4>2, SumGrows
      <3>5. QED
        BY <2>1, <2>2, <3>1, <3>4
    <2>3. CASE v # u
      <3>1. CodesThen(v) = CodesOf(v)
        BY <1>1, <1>3, <2>3
      <3> HIDE DEF CodesThen, CodesOf
      <3>2. QED
        BY <2>1, <2>3, <3>1
    <2>4. QED
      BY <2>1, <2>2, <2>3
  <1>6. ASSUME NEW v \in Users
        PROVE  AccountBalances(v)'
    <2>1. /\ users'[v].quota = users[v].quota + (IF v = u THEN CodeValue[c] ELSE 0)
          /\ users'[v].usedQuota = users[v].usedQuota
          /\ users'[v].requestCount = users[v].requestCount
          /\ users[v].quota \in Int /\ granted[v] \in Int
      BY <1>0 DEF RedeemCode, TypeOK, UserRow
    <2>2. /\ users'[v].quota - users[v].quota =
                (granted'[v] - granted[v]) + (RedeemedBy(v)' - RedeemedBy(v))
          /\ RedeemedBy(v)' \in Int
      BY <1>0, <1>1, <1>5, <2>1
    <2>3. QED
      BY <1>0, <1>1, <2>1, <2>2, AccountStays
  <1>7. ASSUME NEW t \in Tokens
        PROVE  KeyBalances(t)'
    <2>1. granted[t] \in Int /\ tokens[t].quota \in Int
      BY <1>0 DEF TypeOK, TokenRow
    <2>2. QED
      BY <1>0, <1>1, <2>1, KeyStays
  <1>8. QED
    BY <1>0, <1>4, <1>6, <1>7 DEF BooksInv

\* A key or a code expires, or nothing happens.
LEMMA ExpiryBalances ==
  ASSUME BooksInv, TypeOK', UNCHANGED <<users, journal, granted>>,
         \A c \in Codes : codes'[c].status = codes[c].status
                              /\ codes'[c].usedBy = codes[c].usedBy,
         \A t \in Tokens : /\ tokens'[t].present = tokens[t].present
                           /\ tokens'[t].quota = tokens[t].quota
                           /\ tokens'[t].usedQuota = tokens[t].usedQuota
  PROVE  BooksInv'
  <1>1. /\ FinitelyMany' /\ RowsAreHonest'
        /\ \A u \in Users : RedeemedBy(u)' = RedeemedBy(u) /\ RedeemedBy(u) \in Nat
    BY RecordsStay, BooksType
  <1>2. /\ \A u \in Users : granted[u] \in Int /\ users[u].quota \in Int
        /\ \A t \in Tokens : granted[t] \in Int /\ tokens[t].quota \in Int
    BY DEF BooksInv, TypeOK, UserRow, TokenRow
  <1>3. \A u \in Users : AccountBalances(u)'
    BY <1>1, <1>2, AccountStays
  <1>4. \A t \in Tokens : KeyBalances(t)'
    BY <1>2, KeyStays
  <1>5. QED
    BY <1>1, <1>3, <1>4 DEF BooksInv

LEMMA OtherBalances ==
  ASSUME BooksInv, OtherStep
  PROVE  BooksInv'
  <1>0. TypeOK /\ TypeOK'
    BY OtherTypeOK DEF BooksInv
  <1>1. ASSUME NEW c \in Codes, ExpireCode(c)
        PROVE  BooksInv'
    <2>1. \A d \in Codes : codes'[d].status = codes[d].status
                               /\ codes'[d].usedBy = codes[d].usedBy
      BY <1>0, <1>1 DEF ExpireCode, TypeOK, CodeRow
    <2>2. QED
      BY <1>0, <1>1, <2>1, ExpiryBalances DEF ExpireCode
  <1>2. ASSUME NEW t \in Tokens, ExpireToken(t)
        PROVE  BooksInv'
    <2>1. \A v \in Tokens : /\ tokens'[v].present = tokens[v].present
                            /\ tokens'[v].quota = tokens[v].quota
                            /\ tokens'[v].usedQuota = tokens[v].usedQuota
      BY <1>0, <1>2 DEF ExpireToken, TypeOK, TokenRow
    <2>2. QED
      BY <1>0, <1>2, <2>1, ExpiryBalances DEF ExpireToken
  <1>3. QED
    BY <1>1, <1>2, RedeemBalances DEF OtherStep

\* For any accounts, keys, requests, codes and amounts and any order of holds,
\* charges, edits and redemptions: what an account can spend, holds and has
\* spent add up to what it was given, a key's cap is metered by the requests
\* that were capped when admitted, and the lifetime counters are the journal's.
THEOREM BooksAlwaysBalance == Spec => []BooksBalance
  <1>1. BooksInv /\ [Next]_vars => BooksInv'
    <2> SUFFICES ASSUME BooksInv, [Next]_vars
                 PROVE  BooksInv'
      OBVIOUS
    <2>1. CASE RelayStep
      <3>1. Charges \cup {0} \subseteq Nat
        BY AmountsAssumption
      <3>2. QED
        BY <2>1, <3>1, RelayCases, ReserveBalances, CompleteBalances
    <2>2. CASE UNCHANGED vars
      <3>1. TypeOK'
        BY <2>2, StepTypeOK DEF BooksInv
      <3>2. QED
        BY <2>2, <3>1, ExpiryBalances DEF vars
    <2>3. QED
      BY <2>1, <2>2, OperatorBalances, OtherBalances DEF Next
  <1>2. BooksInv => BooksBalance
    BY BooksAreBalances DEF BooksInv
  <1>3. QED
    BY <1>1, <1>2, BooksStart, PTL DEF Spec

----------------------------------------------------------------------------
(* The ledger implements RequestBill.                                      *)

\* Before its hold a row is blank: the strengthening that lets the first step
\* of a request map to a hold of an unused bill.
UnusedRowsBlank ==
    \A r \in Requests : journal[r].state = "absent" => journal[r] = NoHold

LEMMA RowsStartBlank == Spec => []UnusedRowsBlank
  <1>1. Init => UnusedRowsBlank
    BY DEF Init, UnusedRowsBlank
  <1>2. TypeOK /\ UnusedRowsBlank /\ [Next]_vars => UnusedRowsBlank'
    <2> SUFFICES ASSUME TypeOK, UnusedRowsBlank, [Next]_vars,
                        NEW r \in Requests, journal'[r].state = "absent"
                 PROVE  journal'[r] = NoHold
      BY DEF UnusedRowsBlank
    <2>1. CASE RelayStep
      BY <2>1, RelayMovesForward DEF MovesForward, UnusedRowsBlank
    <2>2. CASE OperatorStep \/ OtherStep
      BY <2>2, OperatorOutsideRelay, OtherOutsideRelay
      DEF OutsideRelay, UnusedRowsBlank
    <2>3. CASE UNCHANGED vars
      BY <2>3 DEF vars, UnusedRowsBlank
    <2>4. QED
      BY <2>1, <2>2, <2>3 DEF Next
  <1>3. QED
    BY <1>1, <1>2, TypeCorrect, PTL DEF Spec

LEMMA InitKeepsPromise ==
  ASSUME Init
  PROVE  Promise!Init
  <1>1. TypeOK
    BY InitTypeOK
  <1>2. [u \in Users |-> users[u].quota] \in [Users -> Int]
    BY <1>1 DEF TypeOK, UserRow
  <1>3. \A r \in Requests : BillOf(r) = Promise!NoBill
    BY DEF Init, NoHold, BillOf, Promise!NoBill
  <1>4. QED
    BY <1>2, <1>3 DEF Promise!Init

LEMMA StepKeepsPromise ==
  ASSUME TypeOK, UnusedRowsBlank, Next
  PROVE  [Promise!Next]_(Promise!billVars)
  <1> DEFINE spend == [u \in Users |-> users[u].quota]
             bill == [r \in Requests |-> BillOf(r)]
  <1>0. /\ Payer \in [Requests -> Users]
        /\ spend \in [Users -> Int] /\ spend' \in [Users -> Int]
        /\ bill = [r \in Requests |-> bill[r]]
        /\ \A r \in Requests : journal[r].state \in {"absent", "pending", "applied"}
    BY PayerType, StepTypeOK DEF TypeOK, UserRow, JournalRow
  <1>1. ASSUME NEW r \in Requests, NEW a \in Estimates, ReserveQuota(r, a)
        PROVE  Promise!Hold(r, Need(a))
    <2>1. Need(a) \in Nat /\ Need(a) > 0
      BY NeedType
    <2>2. bill[r] = Promise!NoBill
      <3>1. journal[r] = NoHold
        BY <1>1, ReserveEffect DEF UnusedRowsBlank
      <3>2. QED
        BY <3>1 DEF BillOf, Promise!NoBill, NoHold
    <2>3. bill' = [bill EXCEPT ![r] =
                      [phase |-> "held", held |-> Need(a), paid |-> 0]]
      <3>1. BillOf(r)' = [phase |-> "held", held |-> Need(a), paid |-> 0]
        BY <1>1, ReserveEffect DEF BillOf
      <3>2. \A q \in Requests \ {r} : BillOf(q)' = BillOf(q)
        BY <1>1, ReserveEffect DEF BillOf
      <3>3. QED
        BY <3>1, <3>2
    <2>4. spend' = [spend EXCEPT ![Payer[r]] = @ - Need(a)]
      BY <1>0, <1>1, ReserveEffect
    <2>5. spend[Payer[r]] >= Need(a)
      BY <1>0, <1>1, ReserveEffect
    <2>6. QED
      BY <2>1, <2>2, <2>3, <2>4, <2>5 DEF Promise!Hold
  <1>2. ASSUME NEW r \in Requests, NEW c \in Charges \cup {0},
               NEW k \in {"settle", "release"}, Complete(r, c, k)
        PROVE  Promise!Pay(r, c)
    <2>1. c \in Nat
      BY AmountsAssumption
    <2>2. bill[r].phase = "held" /\ bill[r].held = journal[r].reserved
      BY <1>2, <2>1, CompleteEffect DEF BillOf
    <2>3. bill' = [bill EXCEPT ![r] = [phase |-> "paid", held |-> bill[r].held,
                                       paid |-> c]]
      <3>1. BillOf(r)' = [phase |-> "paid", held |-> journal[r].reserved,
                          paid |-> c]
        BY <1>2, <2>1, CompleteEffect DEF BillOf
      <3>2. \A q \in Requests \ {r} : BillOf(q)' = BillOf(q)
        BY <1>2, <2>1, CompleteEffect DEF BillOf
      <3>3. QED
        BY <2>2, <3>1, <3>2
    <2>4. spend' = [spend EXCEPT ![Payer[r]] = @ + journal[r].reserved - c]
      BY <1>0, <1>2, <2>1, CompleteEffect
    <2>5. QED
      BY <2>2, <2>3, <2>4 DEF Promise!Pay
  <1>3. ASSUME OutsideRelay
        PROVE  UNCHANGED Promise!billVars \/ \E u \in Users : Promise!Adjust(u)
    <2>1. bill' = bill
      BY <1>3 DEF OutsideRelay, BillOf
    <2>2. CASE \A v \in Users : users'[v].quota = users[v].quota
      BY <2>1, <2>2 DEF Promise!billVars
    <2>3. CASE \E u \in Users : \A v \in Users \ {u} : users'[v] = users[v]
      BY <1>0, <2>1, <2>3 DEF Promise!Adjust
    <2>4. QED
      BY <1>3, <2>2, <2>3 DEF OutsideRelay
  <1>4. CASE RelayStep
    <2>1. \A a \in Estimates :
             Need(a) \in {Need(b) : b \in Estimates} \cup Charges \cup {0}
      OBVIOUS
    <2>2. QED
      BY <1>1, <1>2, <1>4, <2>1, RelayCases DEF Promise!Next
  <1>5. CASE OperatorStep \/ OtherStep
    BY <1>3, <1>5, OperatorOutsideRelay, OtherOutsideRelay DEF Promise!Next
  <1>6. QED
    BY <1>4, <1>5 DEF Next

\* Every behaviour of the ledger is one hold, then one payment per request,
\* each moving exactly its amount, with edits and codes as the only other
\* movements: the refinement of RequestBill.
THEOREM LedgerKeepsPromise == Spec => KeepsPromise
  <1>1. UNCHANGED vars => UNCHANGED Promise!billVars
    BY DEF vars, Promise!billVars, BillOf
  <1>2. TypeOK /\ UnusedRowsBlank /\ [Next]_vars
            => [Promise!Next]_(Promise!billVars)
    BY <1>1, StepKeepsPromise
  <1>3. Init => Promise!Init
    BY InitKeepsPromise
  <1>4. QED
    BY <1>2, <1>3, TypeCorrect, RowsStartBlank, PTL
    DEF Spec, KeepsPromise, Promise!Spec

(***************************************************************************)
(* SettlementReplay.                                                       *)
(***************************************************************************)

\* The inductive invariant: types, the bookkeeping of callers, entries and
\* flushes, and the two results it supports.
ReplayInv ==
    /\ ReplayTypeOK
    /\ QueueDiscipline
    /\ ChargedAsMeasured
    /\ AnsweredIsKept

LEMMA AmountsAreNat == Amounts \subseteq Nat /\ NotMeasured \notin Amounts
  BY AmountsAssumption DEF Amounts, NotMeasured

LEMMA ReplayInvInit == ReplayInit => ReplayInv
  <1> SUFFICES ASSUME ReplayInit
               PROVE  ReplayInv
    OBVIOUS
  <1>0. Init /\ \A r \in Requests : journal[r].state = "absent"
    BY DEF ReplayInit, Init, NoHold
  <1>1. ReplayTypeOK
    <2>1. TypeOK
      BY <1>0, InitTypeOK
    <2>2. flusher \in [Flushers -> [pc: {"idle", "peek", "replay", "ack", "release"},
                                    batch: Seq(Entries), next: Nat]]
      BY DEF ReplayInit, Idle
    <2>3. QED
      BY <2>1, <2>2, ReplayAssumption DEF ReplayInit, ReplayTypeOK, Phases
  <1>2. QueueDiscipline
    BY <1>0 DEF ReplayInit, QueueDiscipline, CallersAgree, EntriesKnown,
                Position, Idle, At
  <1>3. ChargedAsMeasured /\ AnsweredIsKept
    BY <1>0 DEF ReplayInit, ChargedAsMeasured, AnsweredIsKept
  <1>4. QED
    BY <1>1, <1>2, <1>3 DEF ReplayInv

----------------------------------------------------------------------------
(* Every step is a ledger step or leaves the ledger alone.                 *)

LEMMA FinalizeIsRelayStep ==
  ASSUME NEW r \in Requests, NEW c \in Amounts, FinalizeQuota(r, c)
  PROVE  RelayStep
  <1>1. CASE c \in Charges
    BY <1>1 DEF RelayStep
  <1>2. CASE c = 0
    BY <1>2 DEF RelayStep, FinalizeQuota, ReleaseQuota, KindOf
  <1>3. QED
    BY <1>1, <1>2 DEF Amounts

LEMMA CurrentType ==
  ASSUME ReplayInv, NEW f \in Flushers, At(f, "replay")
  PROVE  /\ Current(f).req \in Requests
         /\ Current(f).actual \in Amounts
         /\ Current(f).actual = measured[Current(f).req]
         /\ journal[Current(f).req].state # "absent"
         /\ flusher[f].next \in 1..Len(flusher[f].batch)
  <1>1. flusher[f].batch \in Seq(Entries)
    BY DEF ReplayInv, ReplayTypeOK
  <1>2. flusher[f].next \in 1..Len(flusher[f].batch)
    BY DEF ReplayInv, QueueDiscipline, Position
  <1>3. Known(Current(f))
    BY <1>1, <1>2 DEF ReplayInv, QueueDiscipline, EntriesKnown, Current
  <1>4. Current(f) \in Entries
    BY <1>1, <1>2 DEF Current
  <1>5. QED
    BY <1>2, <1>3, <1>4 DEF Known, Entries

LEMMA CallerRunsLedger ==
  ASSUME CallerStep
  PROVE  Next \/ UNCHANGED vars
  <1>1. ASSUME NEW r \in Requests, NEW a \in Estimates,
               Admit(r, a) \/ AdmitUnacknowledged(r, a)
        PROVE  Next
    BY <1>1 DEF Admit, AdmitUnacknowledged, RelayStep, Next
  <1>2. ASSUME NEW r \in Requests, NEW c \in Amounts,
               Finalize(r, c) \/ FinalizeUnacknowledged(r, c)
        PROVE  Next
    BY <1>2, FinalizeIsRelayStep DEF Finalize, FinalizeUnacknowledged, Next
  <1>3. ASSUME NEW r \in Requests,
               \/ \E c \in Amounts : FinalizeUnavailable(r, c)
               \/ Refuse(r) \/ Enqueue(r) \/ EnqueueFails(r)
               \/ CallerCrash(r) \/ Lapse(r)
        PROVE  UNCHANGED vars
    BY <1>3 DEF FinalizeUnavailable, Refuse, Enqueue, EnqueueFails,
                CallerCrash, Lapse
  <1>4. QED
    BY <1>1, <1>2, <1>3 DEF CallerStep

LEMMA FlusherRunsLedger ==
  ASSUME ReplayInv, NEW f \in Flushers, FlusherStep(f) \/ FlusherFault(f)
  PROVE  Next \/ UNCHANGED vars
  <1>1. CASE ReplayEntry(f) \/ ReplayUnacknowledged(f)
    BY <1>1, CurrentType, FinalizeIsRelayStep
    DEF ReplayEntry, ReplayUnacknowledged, Next
  <1>2. CASE ~(ReplayEntry(f) \/ ReplayUnacknowledged(f))
    BY <1>2 DEF FlusherStep, FlusherFault, AcquireLock, Peek, ReplayOutOfRange,
                AckSettlements, ReleaseLock, FlushAborts, FlusherCrash
  <1>3. QED
    BY <1>1, <1>2

LEMMA RunsLedgerStep == ReplayInv /\ [ReplayNext]_allVars => [Next]_vars
  <1> SUFFICES ASSUME ReplayInv, [ReplayNext]_allVars
               PROVE  Next \/ UNCHANGED vars
    OBVIOUS
  <1>1. CASE CallerStep
    BY <1>1, CallerRunsLedger
  <1>2. CASE \E f \in Flushers : FlusherStep(f) \/ FlusherFault(f)
    BY <1>2, FlusherRunsLedger
  <1>3. CASE DeadLockExpires \/ LiveLockExpires
    BY <1>3 DEF DeadLockExpires, LiveLockExpires
  <1>4. CASE ConsoleStep
    BY <1>4 DEF ConsoleStep, Next
  <1>5. CASE UNCHANGED allVars
    BY <1>5 DEF allVars
  <1>6. QED
    BY <1>1, <1>2, <1>3, <1>4, <1>5 DEF ReplayNext

----------------------------------------------------------------------------
(* What a step keeps of the rows and of the measurements.                  *)

RowsKept ==
    \A r \in Requests :
        /\ journal[r].state # "absent" => journal'[r].state # "absent"
        /\ journal[r].state = "applied" => journal'[r] = journal[r]

MeasuredKept ==
    \A r \in Requests : measured[r] # NotMeasured => measured'[r] = measured[r]

LEMMA StepKeepsRows ==
  ASSUME ReplayInv, [ReplayNext]_allVars
  PROVE  TypeOK' /\ RowsKept
  <1>1. TypeOK /\ [Next]_vars
    BY RunsLedgerStep DEF ReplayInv, ReplayTypeOK
  <1>2. TypeOK'
    BY <1>1, StepTypeOK
  <1>3. RowsKept
    BY <1>1, StepMovesForward DEF MovesForward, RowsKept
  <1>4. QED
    BY <1>2, <1>3

LEMMA FinalizeEffect ==
  ASSUME TypeOK, NEW r \in Requests, NEW c \in Amounts, FinalizeQuota(r, c)
  PROVE  /\ journal[r].state = "pending"
         /\ journal'[r].state = "applied"
         /\ journal'[r].amount = c
         /\ \A q \in Requests \ {r} : journal'[q] = journal[q]
  <1>1. KindOf(c) \in {"settle", "release"} /\ c \in Nat
    BY AmountsAreNat DEF KindOf
  <1>2. QED
    BY <1>1, CompleteEffect DEF FinalizeQuota

----------------------------------------------------------------------------
(* Callers.                                                                *)

CallerTypes ==
    /\ caller \in [Requests -> Phases]
    /\ measured \in [Requests -> Amounts \cup {NotMeasured}]
    /\ lapsed \in SUBSET Requests
    /\ faults \in 0..MaxFaults

\* Entries of requests in phase queueing are all a caller ever adds.
QueueGrows ==
    /\ flusher' = flusher
    /\ lock' = lock
    /\ \/ queue' = queue
       \/ \E r \in Requests : /\ caller[r] = "queueing"
                              /\ queue' = Append(queue, EntryOf(r))

\* A caller that has its answer got it from the ledger or left an entry.
AnswersAreBacked ==
    \A r \in Requests :
        caller'[r] = "answered" =>
            \/ caller[r] = "answered"
            \/ journal'[r].state = "applied"
            \/ queue' = Append(queue, EntryOf(r))

CallerGoal ==
    /\ CallersAgree' /\ ChargedAsMeasured' /\ CallerTypes'
    /\ MeasuredKept /\ QueueGrows /\ AnswersAreBacked

LEMMA FaultType ==
  ASSUME ReplayInv, Fault \/ UNCHANGED faults
  PROVE  faults' \in 0..MaxFaults
  BY ReplayAssumption DEF ReplayInv, ReplayTypeOK, Fault

LEMMA AdmitGoal ==
  ASSUME ReplayInv, NEW r \in Requests, NEW a \in Estimates,
         Admit(r, a) \/ AdmitUnacknowledged(r, a)
  PROVE  CallerGoal
  <1>0. TypeOK /\ CallerTypes /\ CallersAgree /\ ChargedAsMeasured
    BY DEF ReplayInv, ReplayTypeOK, CallerTypes, QueueDiscipline
  <1>1. PICK to \in {"serving", "refused"} :
           /\ caller[r] = "idle"
           /\ caller' = [caller EXCEPT ![r] = to]
    BY DEF Admit, AdmitUnacknowledged, Moves
  <1>2. /\ ReserveQuota(r, a)
        /\ UNCHANGED <<measured, queue, lock, flusher, lapsed>>
        /\ Fault \/ UNCHANGED faults
    BY DEF Admit, AdmitUnacknowledged
  <1>3. /\ journal'[r].state = "pending"
        /\ \A q \in Requests \ {r} : journal'[q] = journal[q]
    BY <1>0, <1>2, ReserveEffect
  <1>4. CallersAgree'
    BY <1>0, <1>1, <1>2, <1>3 DEF CallersAgree, CallerTypes
  <1>5. ChargedAsMeasured'
    BY <1>0, <1>2, <1>3 DEF ChargedAsMeasured
  <1>6. CallerTypes'
    BY <1>0, <1>1, <1>2, FaultType DEF CallerTypes, Phases
  <1>7. MeasuredKept /\ QueueGrows /\ AnswersAreBacked
    BY <1>0, <1>1, <1>2 DEF MeasuredKept, QueueGrows, AnswersAreBacked, CallerTypes
  <1>8. QED
    BY <1>4, <1>5, <1>6, <1>7 DEF CallerGoal

LEMMA FinalizeGoal ==
  ASSUME ReplayInv, NEW r \in Requests, NEW c \in Amounts,
         Finalize(r, c) \/ FinalizeUnacknowledged(r, c)
  PROVE  CallerGoal
  <1>0. TypeOK /\ CallerTypes /\ CallersAgree /\ ChargedAsMeasured
    BY DEF ReplayInv, ReplayTypeOK, CallerTypes, QueueDiscipline
  <1>1. PICK to \in {"answered", "queueing"} :
           /\ caller[r] = "serving"
           /\ caller' = [caller EXCEPT ![r] = to]
    BY DEF Finalize, FinalizeUnacknowledged, Moves
  <1>2. /\ FinalizeQuota(r, c)
        /\ measured' = [measured EXCEPT ![r] = c]
        /\ UNCHANGED <<queue, lock, flusher, lapsed>>
        /\ Fault \/ UNCHANGED faults
    BY DEF Finalize, FinalizeUnacknowledged
  <1>3. /\ journal'[r].state = "applied"
        /\ journal'[r].amount = c
        /\ \A q \in Requests \ {r} : journal'[q] = journal[q]
    BY <1>0, <1>2, FinalizeEffect
  <1>4. CallersAgree'
    BY <1>0, <1>1, <1>2, <1>3, AmountsAreNat DEF CallersAgree, CallerTypes
  <1>5. ChargedAsMeasured'
    BY <1>0, <1>2, <1>3 DEF ChargedAsMeasured, CallerTypes
  <1>6. CallerTypes'
    BY <1>0, <1>1, <1>2, FaultType DEF CallerTypes, Phases
  <1>7. MeasuredKept
    BY <1>0, <1>1, <1>2 DEF MeasuredKept, CallersAgree, CallerTypes
  <1>8. QueueGrows /\ AnswersAreBacked
    BY <1>0, <1>1, <1>2, <1>3 DEF QueueGrows, AnswersAreBacked, CallerTypes
  <1>9. QED
    BY <1>4, <1>5, <1>6, <1>7, <1>8 DEF CallerGoal

LEMMA UnavailableGoal ==
  ASSUME ReplayInv, NEW r \in Requests, NEW c \in Amounts,
         FinalizeUnavailable(r, c)
  PROVE  CallerGoal
  <1>0. TypeOK /\ CallerTypes /\ CallersAgree /\ ChargedAsMeasured
    BY DEF ReplayInv, ReplayTypeOK, CallerTypes, QueueDiscipline
  <1>1. /\ caller[r] = "serving"
        /\ caller' = [caller EXCEPT ![r] = "queueing"]
        /\ measured' = [measured EXCEPT ![r] = c]
        /\ UNCHANGED <<vars, queue, lock, flusher, lapsed>>
        /\ Fault \/ UNCHANGED faults
    BY DEF FinalizeUnavailable, Moves
  <1>2. journal' = journal
    BY <1>1 DEF vars
  <1>3. CallersAgree'
    BY <1>0, <1>1, <1>2, AmountsAreNat DEF CallersAgree, CallerTypes
  <1>4. ChargedAsMeasured'
    BY <1>0, <1>1, <1>2 DEF ChargedAsMeasured, CallersAgree, CallerTypes
  <1>5. CallerTypes'
    BY <1>0, <1>1, FaultType DEF CallerTypes, Phases
  <1>6. MeasuredKept
    BY <1>0, <1>1 DEF MeasuredKept, CallersAgree, CallerTypes
  <1>7. QueueGrows /\ AnswersAreBacked
    BY <1>0, <1>1 DEF QueueGrows, AnswersAreBacked, CallerTypes
  <1>8. QED
    BY <1>3, <1>4, <1>5, <1>6, <1>7 DEF CallerGoal

\* Refusals, queueing, crashes and lapses leave ledger and measurements alone.
LEMMA QuietGoal ==
  ASSUME ReplayInv, NEW r \in Requests,
         \/ Refuse(r) \/ Enqueue(r) \/ EnqueueFails(r)
         \/ CallerCrash(r) \/ Lapse(r)
  PROVE  CallerGoal
  <1>0. TypeOK /\ CallerTypes /\ CallersAgree /\ ChargedAsMeasured
    BY DEF ReplayInv, ReplayTypeOK, CallerTypes, QueueDiscipline
  <1>1. /\ UNCHANGED <<vars, measured, lock, flusher>>
        /\ Fault \/ UNCHANGED faults
        /\ lapsed' \in SUBSET Requests
    BY <1>0 DEF Refuse, Enqueue, EnqueueFails, CallerCrash, Lapse, CallerTypes
  <1>2. journal' = journal
    BY <1>1 DEF vars
  <1>3. \/ caller' = caller
        \/ \E to \in {"refused", "answered", "lost"} :
              caller' = [caller EXCEPT ![r] = to]
    BY DEF Refuse, Enqueue, EnqueueFails, CallerCrash, Lapse, Moves
  <1>4. CallersAgree' /\ ChargedAsMeasured'
    BY <1>0, <1>1, <1>2, <1>3 DEF CallersAgree, ChargedAsMeasured, CallerTypes
  <1>5. CallerTypes'
    BY <1>0, <1>1, <1>3, FaultType DEF CallerTypes, Phases
  <1>6. MeasuredKept
    BY <1>1 DEF MeasuredKept
  <1>7. QueueGrows
    BY <1>1 DEF QueueGrows, Refuse, Enqueue, EnqueueFails, CallerCrash, Lapse,
                Moves
  <1>8. AnswersAreBacked
    BY <1>0 DEF AnswersAreBacked, Refuse, Enqueue, EnqueueFails, CallerCrash,
                Lapse, Moves, CallerTypes
  <1>9. QED
    BY <1>4, <1>5, <1>6, <1>7, <1>8 DEF CallerGoal

LEMMA CallerStepGoal ==
  ASSUME ReplayInv, CallerStep
  PROVE  CallerGoal
  BY AdmitGoal, FinalizeGoal, UnavailableGoal, QuietGoal DEF CallerStep

----------------------------------------------------------------------------
(* The queue and the flushes.                                              *)

FlushRecords == [pc: {"idle", "peek", "replay", "ack", "release"},
                 batch: Seq(Entries), next: Nat]

QueueTypes ==
    /\ queue \in Seq(Entries)
    /\ lock \in Flushers \cup {NoOwner}
    /\ flusher \in [Flushers -> FlushRecords]

\* An entry leaves the queue only when its request is in the journal.
NothingForgotten ==
    \A r \in Requests : Queued(r) => Queued(r)' \/ journal'[r].state = "applied"

QueueGoal ==
    /\ QueueTypes' /\ EntriesKnown'
    /\ \A f \in Flushers : Position(f)'
    /\ NothingForgotten

\* Known in the next state, for an entry that need not be a state variable.
KnownNext(e) ==
    /\ e.actual = measured'[e.req]
    /\ journal'[e.req].state # "absent"

LEMMA KnownStaysKnown ==
  ASSUME RowsKept, MeasuredKept, NEW e \in Entries, Known(e)
  PROVE  KnownNext(e)
  <1>1. e.req \in Requests /\ e.actual # NotMeasured
    BY AmountsAreNat DEF Entries
  <1>2. QED
    BY <1>1 DEF RowsKept, MeasuredKept, Known, KnownNext

LEMMA BatchesStayKnown ==
  ASSUME QueueTypes, EntriesKnown, RowsKept, MeasuredKept, NEW f \in Flushers,
         NEW i \in 1..Len(flusher[f].batch)
  PROVE  KnownNext(flusher[f].batch[i])
  <1>1. flusher[f].batch \in Seq(Entries)
    BY DEF QueueTypes, FlushRecords
  <1>2. flusher[f].batch[i] \in Entries
    BY <1>1
  <1>3. QED
    BY <1>2, KnownStaysKnown DEF EntriesKnown

LEMMA InvParts ==
  ASSUME ReplayInv
  PROVE  /\ TypeOK /\ QueueTypes /\ CallerTypes
         /\ EntriesKnown /\ CallersAgree /\ ChargedAsMeasured /\ AnsweredIsKept
         /\ \A f \in Flushers : Position(f)
  BY DEF ReplayInv, ReplayTypeOK, QueueTypes, FlushRecords, CallerTypes,
         QueueDiscipline

\* A flush whose record, rows and - while it owns the lock - queue prefix are
\* kept stands where it stood.
LEMMA PositionKept ==
  ASSUME ReplayInv, RowsKept, NEW f \in Flushers,
         flusher'[f] = flusher[f],
         lock' = f => /\ lock = f
                      /\ Len(queue) <= Len(queue')
                      /\ \A i \in 1..Len(queue) : queue'[i] = queue[i]
  PROVE  Position(f)'
  <1>1. Position(f) /\ flusher[f].batch \in Seq(Entries) /\ queue \in Seq(Entries)
    BY InvParts DEF QueueTypes, FlushRecords
  <1>2. \A i \in 1..Len(flusher[f].batch) : flusher[f].batch[i].req \in Requests
    <2>1. \A i \in 1..Len(flusher[f].batch) : flusher[f].batch[i] \in Entries
      BY <1>1
    <2>2. QED
      BY <2>1 DEF Entries
  <1>3. ASSUME At(f, "replay") \/ At(f, "ack"),
               NEW i \in 1..Len(flusher[f].batch), i < flusher[f].next
        PROVE  journal'[flusher[f].batch[i].req].state = "applied"
    BY <1>1, <1>2, <1>3 DEF Position, RowsKept
  <1>4. ASSUME At(f, "replay") \/ At(f, "ack"), lock' = f
        PROVE  /\ Len(flusher[f].batch) <= Len(queue')
               /\ \A i \in 1..Len(flusher[f].batch) :
                     queue'[i] = flusher[f].batch[i]
    <2>1. /\ Len(flusher[f].batch) <= Len(queue)
          /\ \A i \in 1..Len(flusher[f].batch) : queue[i] = flusher[f].batch[i]
      BY <1>1, <1>4 DEF Position
    <2>2. Len(queue) \in Nat /\ Len(flusher[f].batch) \in Nat
      BY <1>1
    <2>3. QED
      BY <1>4, <2>1, <2>2, Z3
  <1>5. QED
    BY <1>1, <1>3, <1>4 DEF Position, At

LEMMA GrowthGoal ==
  ASSUME ReplayInv, RowsKept, MeasuredKept, QueueGrows
  PROVE  /\ QueueGoal
         /\ \A r \in Requests : queue' = Append(queue, EntryOf(r)) => Queued(r)'
  <1>0. queue \in Seq(Entries) /\ EntriesKnown /\ CallersAgree /\ QueueTypes
    BY InvParts DEF QueueTypes
  <1>1. ASSUME NEW r \in Requests, caller[r] = "queueing"
        PROVE  EntryOf(r) \in Entries /\ Known(EntryOf(r))
    BY <1>0, <1>1, InvParts
    DEF EntryOf, Entries, Known, CallersAgree, CallerTypes
  <1>2. queue' \in Seq(Entries)
    BY <1>0, <1>1 DEF QueueGrows
  <1>3. \A i \in 1..Len(queue') : Known(queue'[i])
    <2>1. CASE queue' = queue
      BY <1>0, <2>1 DEF EntriesKnown
    <2>2. ASSUME NEW r \in Requests, caller[r] = "queueing",
                 queue' = Append(queue, EntryOf(r)),
                 NEW i \in 1..Len(queue')
          PROVE  Known(queue'[i])
      <3>1. CASE i \in 1..Len(queue)
        BY <1>0, <1>1, <2>2, <3>1 DEF EntriesKnown
      <3>2. CASE i = Len(queue) + 1
        BY <1>0, <1>1, <2>2, <3>2
      <3>3. QED
        BY <1>0, <1>1, <2>2, <3>1, <3>2
    <2>3. QED
      BY <2>1, <2>2 DEF QueueGrows
  <1>4. EntriesKnown'
    <2>1. \A i \in 1..Len(queue') : KnownNext(queue'[i])
      <3>1. \A i \in 1..Len(queue') : queue'[i] \in Entries
        BY <1>2
      <3>2. QED
        BY <1>3, <3>1, KnownStaysKnown
    <2>2. \A f \in Flushers : \A i \in 1..Len(flusher[f].batch) :
             KnownNext(flusher[f].batch[i])
      BY <1>0, BatchesStayKnown
    <2>3. QED
      BY <2>1, <2>2 DEF EntriesKnown, QueueGrows, Known, KnownNext
  <1>5. /\ Len(queue) <= Len(queue')
        /\ \A i \in 1..Len(queue) : queue'[i] = queue[i]
    BY <1>0, <1>1 DEF QueueGrows
  <1>6. \A f \in Flushers : Position(f)'
    BY <1>5, PositionKept DEF QueueGrows
  <1>7. NothingForgotten
    BY <1>0, <1>2, <1>5 DEF NothingForgotten, Queued
  <1>8. ASSUME NEW r \in Requests, queue' = Append(queue, EntryOf(r))
        PROVE  Queued(r)'
    <2>1. Len(queue) + 1 \in 1..Len(queue')
      BY <1>0, <1>2, <1>8
    <2>2. queue'[Len(queue) + 1].req = r
      BY <1>0, <1>8 DEF EntryOf
    <2>3. QED
      BY <2>1, <2>2 DEF Queued
  <1>9. QED
    BY <1>0, <1>2, <1>4, <1>6, <1>7, <1>8 DEF QueueGoal, QueueTypes, QueueGrows

\* One flush moves; the queue stays; the lock is kept, dropped or taken by it.
LEMMA OneFlushMoves ==
  ASSUME ReplayInv, RowsKept, MeasuredKept, NEW f \in Flushers,
         NEW rec \in FlushRecords,
         flusher' = [flusher EXCEPT ![f] = rec],
         queue' = queue,
         lock' \in {lock, NoOwner, f},
         \A i \in 1..Len(rec.batch) : KnownNext(rec.batch[i]),
         Position(f)'
  PROVE  QueueGoal
  <1>0. QueueTypes /\ EntriesKnown
    BY InvParts
  <1>1. QueueTypes'
    BY <1>0 DEF QueueTypes
  <1>2. EntriesKnown'
    <2>1. \A i \in 1..Len(queue) : KnownNext(queue[i])
      <3>1. \A i \in 1..Len(queue) : queue[i] \in Entries
        BY <1>0 DEF QueueTypes
      <3>2. QED
        BY <1>0, <3>1, KnownStaysKnown DEF EntriesKnown
    <2>2. \A g \in Flushers : \A i \in 1..Len(flusher'[g].batch) :
             KnownNext(flusher'[g].batch[i])
      <3>1. flusher'[f] = rec /\ \A g \in Flushers \ {f} : flusher'[g] = flusher[g]
        BY <1>0 DEF QueueTypes
      <3>2. QED
        BY <1>0, <3>1, BatchesStayKnown
    <2>3. QED
      BY <2>1, <2>2 DEF EntriesKnown, Known, KnownNext
  <1>3. ASSUME NEW g \in Flushers
        PROVE  Position(g)'
    <2>1. CASE g = f
      BY <2>1
    <2>2. CASE g # f
      <3>1. flusher'[g] = flusher[g]
        BY <1>0, <2>2 DEF QueueTypes
      <3>2. lock' = g => lock = g
        BY <2>2, ReplayAssumption
      <3>3. Len(queue) \in Nat
        BY <1>0 DEF QueueTypes
      <3>4. QED
        BY <3>1, <3>2, <3>3, PositionKept
    <2>3. QED
      BY <2>1, <2>2
  <1>4. NothingForgotten
    BY DEF NothingForgotten, Queued
  <1>5. QED
    BY <1>1, <1>2, <1>3, <1>4 DEF QueueGoal

\* A flush that ends - in the finally block or by dying - promises nothing.
LEMMA FlushEnds ==
  ASSUME ReplayInv, RowsKept, MeasuredKept, NEW f \in Flushers,
         queue' = queue, lock' \in {lock, NoOwner},
         \/ Goto(f, "release")
         \/ flusher' = [flusher EXCEPT ![f] = Idle]
  PROVE  QueueGoal
  <1>0. QueueTypes /\ EntriesKnown /\ flusher[f] \in FlushRecords
    BY InvParts DEF QueueTypes
  <1>1. CASE Goto(f, "release")
    <2> DEFINE rec == [flusher[f] EXCEPT !.pc = "release"]
    <2>1. rec \in FlushRecords /\ rec.batch = flusher[f].batch /\ rec.pc = "release"
      BY <1>0 DEF FlushRecords
    <2>2. flusher' = [flusher EXCEPT ![f] = rec]
      BY <1>0, <1>1 DEF Goto, QueueTypes
    <2>3. Position(f)'
      BY <1>0, <2>1, <2>2 DEF Position, At, QueueTypes
    <2>4. \A i \in 1..Len(rec.batch) : KnownNext(rec.batch[i])
      BY <1>0, <2>1, BatchesStayKnown
    <2>5. QED
      BY <2>1, <2>2, <2>3, <2>4, OneFlushMoves
  <1>2. CASE flusher' = [flusher EXCEPT ![f] = Idle]
    <2>1. Idle \in FlushRecords /\ Idle.batch = <<>> /\ Idle.pc = "idle"
      BY DEF Idle, FlushRecords
    <2>2. Position(f)'
      BY <1>0, <1>2, <2>1 DEF Position, At, QueueTypes
    <2>3. \A i \in 1..Len(Idle.batch) : KnownNext(Idle.batch[i])
      BY <2>1
    <2>4. QED
      BY <1>2, <2>1, <2>2, <2>3, OneFlushMoves
  <1>3. QED
    BY <1>1, <1>2

LEMMA AcquireGoal ==
  ASSUME ReplayInv, RowsKept, MeasuredKept, NEW f \in Flushers, AcquireLock(f)
  PROVE  QueueGoal
  <1>0. QueueTypes /\ EntriesKnown /\ flusher[f] \in FlushRecords
    BY InvParts DEF QueueTypes
  <1> DEFINE rec == [flusher[f] EXCEPT !.pc = "peek"]
  <1>1. rec \in FlushRecords /\ rec.batch = flusher[f].batch /\ rec.pc = "peek"
    BY <1>0 DEF FlushRecords
  <1>2. flusher' = [flusher EXCEPT ![f] = rec]
    BY <1>0 DEF AcquireLock, Goto, QueueTypes
  <1>3. Position(f)'
    BY <1>0, <1>1, <1>2 DEF Position, At, QueueTypes
  <1>4. \A i \in 1..Len(rec.batch) : KnownNext(rec.batch[i])
    BY <1>0, <1>1, BatchesStayKnown
  <1>5. QED
    BY <1>1, <1>2, <1>3, <1>4, OneFlushMoves DEF AcquireLock

LEMMA PeekGoal ==
  ASSUME ReplayInv, RowsKept, MeasuredKept, NEW f \in Flushers, Peek(f)
  PROVE  QueueGoal
  <1>0. QueueTypes /\ EntriesKnown /\ queue \in Seq(Entries) /\ Len(queue) \in Nat
    BY InvParts DEF QueueTypes
  <1> DEFINE n == IF Len(queue) < BatchLimit THEN Len(queue) ELSE BatchLimit
             rec == [pc |-> IF n = 0 THEN "release" ELSE "replay",
                     batch |-> SubSeq(queue, 1, n), next |-> 1]
  <1>1. n \in 0..Len(queue)
    BY <1>0, ReplayAssumption
  <1> HIDE DEF n
  <1>2. /\ SubSeq(queue, 1, n) \in Seq(Entries)
        /\ Len(SubSeq(queue, 1, n)) = n
        /\ \A i \in 1..n : SubSeq(queue, 1, n)[i] = queue[i]
    BY <1>0, <1>1
  <1>3. rec \in FlushRecords
    BY <1>2 DEF FlushRecords
  <1>4. flusher' = [flusher EXCEPT ![f] = rec]
    BY DEF Peek, n
  <1>5. \A i \in 1..Len(rec.batch) : KnownNext(rec.batch[i])
    <2>1. \A i \in 1..n : queue[i] \in Entries /\ Known(queue[i])
      BY <1>0, <1>1 DEF EntriesKnown
    <2>2. QED
      BY <1>2, <2>1, KnownStaysKnown
  <1>6. Position(f)'
    <2>1. flusher'[f] = rec
      BY <1>0, <1>4 DEF QueueTypes
    <2>2. queue' = queue
      BY DEF Peek
    <2>3. QED
      BY <1>0, <1>1, <1>2, <2>1, <2>2 DEF Position, At
  <1>7. QED
    BY <1>3, <1>4, <1>5, <1>6, OneFlushMoves DEF Peek

\* After complete returned, the entry under the cursor is in the journal.
LEMMA ReplayedIsApplied ==
  ASSUME ReplayInv, NEW f \in Flushers, ReplayEntry(f)
  PROVE  journal'[Current(f).req].state = "applied"
  <1>1. /\ Current(f).req \in Requests
        /\ Current(f).actual \in Amounts
        /\ journal[Current(f).req].state # "absent"
    BY CurrentType DEF ReplayEntry
  <1>2. CASE Open(Current(f).req)
    BY <1>1, <1>2, FinalizeEffect, InvParts DEF ReplayEntry
  <1>3. CASE ~Open(Current(f).req)
    <2>1. journal[Current(f).req].state \in {"absent", "pending", "applied"}
      BY <1>1, InvParts DEF TypeOK, JournalRow
    <2>2. QED
      BY <1>1, <1>3, <2>1 DEF ReplayEntry, Open, vars
  <1>4. QED
    BY <1>2, <1>3

LEMMA ReplayGoal ==
  ASSUME ReplayInv, RowsKept, MeasuredKept, NEW f \in Flushers, ReplayEntry(f)
  PROVE  QueueGoal
  <1>0. /\ QueueTypes /\ EntriesKnown /\ Position(f)
        /\ flusher[f].batch \in Seq(Entries)
        /\ flusher[f].next \in 1..Len(flusher[f].batch)
    BY InvParts, CurrentType DEF QueueTypes, FlushRecords, ReplayEntry
  <1> DEFINE batch == flusher[f].batch
             next == flusher[f].next
             pc == IF next = Len(batch) THEN "ack" ELSE "replay"
             rec == [pc |-> pc, batch |-> batch, next |-> next + 1]
  <1>1. rec \in FlushRecords
    BY <1>0 DEF FlushRecords
  <1>2. flusher' = [flusher EXCEPT ![f] = rec]
    BY DEF ReplayEntry, Advance
  <1>3. \A i \in 1..Len(batch) : KnownNext(batch[i])
    BY <1>0, BatchesStayKnown
  <1>4. \A i \in 1..Len(batch) :
           i < next + 1 => journal'[batch[i].req].state = "applied"
    <2>1. SUFFICES ASSUME NEW i \in 1..Len(batch), i < next + 1
                   PROVE  journal'[batch[i].req].state = "applied"
      OBVIOUS
    <2>2. CASE i = next
      BY <2>2, ReplayedIsApplied DEF Current
    <2>3. CASE i # next
      <3>1. i < next
        BY <1>0, <2>1, <2>3
      <3>2. journal[batch[i].req].state = "applied"
        BY <1>0, <3>1 DEF Position, ReplayEntry
      <3>3. batch[i] \in Entries
        BY <1>0
      <3>4. QED
        BY <3>2, <3>3 DEF RowsKept, Entries
    <2>4. QED
      BY <2>2, <2>3
  <1>5. Position(f)'
    <2>1. flusher'[f] = rec
      BY <1>0, <1>2 DEF QueueTypes
    <2>2. queue' = queue /\ lock' = lock
      BY DEF ReplayEntry
    <2>3. lock = f => /\ Len(batch) <= Len(queue)
                      /\ \A i \in 1..Len(batch) : queue[i] = batch[i]
      BY <1>0 DEF Position, ReplayEntry
    <2>4. rec.batch = batch /\ rec.next = next + 1 /\ rec.pc = pc
      OBVIOUS
    <2>5. /\ pc = "replay" => next + 1 \in 1..Len(batch)
          /\ pc = "ack" => next + 1 = Len(batch) + 1
      BY <1>0
    <2>6. QED
      BY <1>4, <2>1, <2>2, <2>3, <2>4, <2>5 DEF Position, At
  <1>6. QED
    BY <1>1, <1>2, <1>3, <1>5, OneFlushMoves DEF ReplayEntry

\* The owner's trim drops exactly the entries it has seen applied.
LEMMA AckGoal ==
  ASSUME ReplayInv, RowsKept, MeasuredKept, NEW f \in Flushers, AckSettlements(f)
  PROVE  QueueGoal
  <1>0. /\ QueueTypes /\ EntriesKnown /\ Position(f)
        /\ flusher[f] \in FlushRecords
        /\ flusher[f].batch \in Seq(Entries)
        /\ queue \in Seq(Entries)
    BY InvParts DEF QueueTypes, FlushRecords
  <1>1. CASE lock # f
    BY <1>1, FlushEnds DEF AckSettlements
  <1>2. CASE lock = f
    <2> DEFINE batch == flusher[f].batch
               n == Len(batch)
               rec == [flusher[f] EXCEPT !.pc = "release"]
    <2>1. /\ n \in 0..Len(queue) /\ Len(queue) \in Nat
          /\ \A i \in 1..n : /\ queue[i] = batch[i]
                             /\ journal[batch[i].req].state = "applied"
      BY <1>0, <1>2 DEF Position, AckSettlements, At
    <2>2. queue' = SubSeq(queue, n + 1, Len(queue)) /\ lock' = NoOwner
      BY <1>2 DEF AckSettlements
    <2> HIDE DEF n
    <2>3. /\ queue' \in Seq(Entries)
          /\ Len(queue') = Len(queue) - n
          /\ \A i \in 1..(Len(queue) - n) : queue'[i] = queue[n + i]
      BY <1>0, <2>1, <2>2
    <2>4. rec \in FlushRecords /\ rec.batch = batch /\ rec.pc = "release"
      BY <1>0 DEF FlushRecords
    <2>5. flusher' = [flusher EXCEPT ![f] = rec]
      BY <1>0 DEF AckSettlements, Goto, QueueTypes
    <2>6. QueueTypes'
      BY <1>0, <2>2, <2>3, <2>4, <2>5 DEF QueueTypes
    <2>7. EntriesKnown'
      <3>1. \A i \in 1..Len(queue) : KnownNext(queue[i])
        <4>1. \A i \in 1..Len(queue) : queue[i] \in Entries
          BY <1>0
        <4>2. QED
          BY <1>0, <4>1, KnownStaysKnown DEF EntriesKnown
      <3>2. \A i \in 1..Len(queue') : KnownNext(queue'[i])
        <4>1. \A i \in 1..(Len(queue) - n) : n + i \in 1..Len(queue)
          BY <2>1
        <4>2. QED
          BY <2>3, <3>1, <4>1
      <3>3. \A g \in Flushers : flusher'[g].batch = flusher[g].batch
        BY <1>0, <2>4, <2>5 DEF QueueTypes
      <3>4. \A g \in Flushers : \A i \in 1..Len(flusher'[g].batch) :
               KnownNext(flusher'[g].batch[i])
        BY <1>0, <3>3, BatchesStayKnown
      <3>5. QED
        BY <3>2, <3>4 DEF EntriesKnown, Known, KnownNext
    <2>8. ASSUME NEW g \in Flushers
          PROVE  Position(g)'
      <3>1. CASE g = f
        BY <1>0, <2>4, <2>5, <3>1 DEF Position, At, QueueTypes
      <3>2. CASE g # f
        <4>1. flusher'[g] = flusher[g]
          BY <1>0, <2>5, <3>2 DEF QueueTypes
        <4>2. lock' # g
          BY <2>2, ReplayAssumption
        <4>3. QED
          BY <4>1, <4>2, PositionKept
      <3>3. QED
        BY <3>1, <3>2
    <2>9. NothingForgotten
      <3>1. SUFFICES ASSUME NEW r \in Requests, NEW i \in 1..Len(queue),
                            queue[i].req = r
                     PROVE  Queued(r)' \/ journal'[r].state = "applied"
        BY DEF NothingForgotten, Queued
      <3>2. CASE i <= n
        <4>1. i \in 1..n
          BY <2>1, <3>2
        <4>2. journal[r].state = "applied"
          BY <2>1, <3>1, <4>1
        <4>3. QED
          BY <4>2 DEF RowsKept
      <3>3. CASE i > n
        <4>1. i - n \in 1..(Len(queue) - n) /\ n + (i - n) = i
          BY <2>1, <3>3
        <4>2. queue'[i - n].req = r
          BY <2>3, <3>1, <4>1
        <4>3. QED
          BY <2>3, <4>1, <4>2 DEF Queued
      <3>4. QED
        BY <2>1, <3>2, <3>3
    <2>10. QED
      BY <2>6, <2>7, <2>8, <2>9 DEF QueueGoal
  <1>3. QED
    BY <1>1, <1>2

----------------------------------------------------------------------------
(* The inductive step and the theorems.                                    *)

LEMMA FlusherQueueGoal ==
  ASSUME ReplayInv, RowsKept, MeasuredKept, NEW f \in Flushers,
         FlusherStep(f) \/ FlusherFault(f)
  PROVE  QueueGoal
  <1>1. CASE AcquireLock(f)
    BY <1>1, AcquireGoal
  <1>2. CASE Peek(f)
    BY <1>2, PeekGoal
  <1>3. CASE ReplayEntry(f)
    BY <1>3, ReplayGoal
  <1>4. CASE AckSettlements(f)
    BY <1>4, AckGoal
  <1>5. CASE ReplayOutOfRange(f) \/ ReplayUnacknowledged(f) \/ FlushAborts(f)
    BY <1>5, FlushEnds DEF ReplayOutOfRange, ReplayUnacknowledged, FlushAborts
  <1>6. CASE ReleaseLock(f) \/ FlusherCrash(f)
    BY <1>6, FlushEnds DEF ReleaseLock, FlusherCrash
  <1>7. QED
    BY <1>1, <1>2, <1>3, <1>4, <1>5, <1>6 DEF FlusherStep, FlusherFault

\* A flush measures nothing and moves a row only to the amount of its entry.
LEMMA FlusherBookkeeping ==
  ASSUME ReplayInv, NEW f \in Flushers, FlusherStep(f) \/ FlusherFault(f)
  PROVE  /\ CallersAgree' /\ ChargedAsMeasured' /\ CallerTypes'
         /\ caller' = caller /\ measured' = measured
  <1>0. TypeOK /\ CallersAgree /\ ChargedAsMeasured /\ CallerTypes
    BY InvParts
  <1>1. /\ UNCHANGED <<caller, measured, lapsed>>
        /\ Fault \/ UNCHANGED faults
    BY DEF FlusherStep, FlusherFault, AcquireLock, Peek, ReplayEntry,
           ReplayOutOfRange, AckSettlements, ReleaseLock, ReplayUnacknowledged,
           FlushAborts, FlusherCrash
  <1>2. CallerTypes'
    BY <1>0, <1>1, FaultType DEF CallerTypes
  <1>3. CASE journal' = journal
    BY <1>0, <1>1, <1>2, <1>3 DEF CallersAgree, ChargedAsMeasured
  <1>4. CASE At(f, "replay") /\ FinalizeQuota(Current(f).req, Current(f).actual)
    <2> DEFINE r == Current(f).req
    <2>1. /\ r \in Requests /\ Current(f).actual \in Amounts
          /\ Current(f).actual = measured[r]
      BY <1>4, CurrentType
    <2>2. /\ journal'[r].state = "applied"
          /\ journal'[r].amount = measured[r]
          /\ \A q \in Requests \ {r} : journal'[q] = journal[q]
      BY <1>0, <1>4, <2>1, FinalizeEffect
    <2>3. caller[r] \notin {"idle", "serving"}
      BY <1>0, <2>1, AmountsAreNat DEF CallersAgree
    <2>4. QED
      BY <1>0, <1>1, <1>2, <2>2, <2>3 DEF CallersAgree, ChargedAsMeasured
  <1>5. \/ journal' = journal
        \/ At(f, "replay") /\ FinalizeQuota(Current(f).req, Current(f).actual)
    BY DEF FlusherStep, FlusherFault, AcquireLock, Peek, ReplayEntry,
           ReplayOutOfRange, AckSettlements, ReleaseLock, ReplayUnacknowledged,
           FlushAborts, FlusherCrash, vars
  <1>6. QED
    BY <1>3, <1>4, <1>5

\* Expiring locks and console steps touch neither queue nor callers nor rows.
LEMMA BystanderGoal ==
  ASSUME ReplayInv,
         \/ DeadLockExpires \/ LiveLockExpires
         \/ ConsoleStep \/ UNCHANGED allVars
  PROVE  /\ CallersAgree' /\ ChargedAsMeasured' /\ CallerTypes'
         /\ caller' = caller /\ measured' = measured /\ journal' = journal
         /\ flusher' = flusher /\ queue' = queue /\ lock' \in {lock, NoOwner}
  <1>0. TypeOK /\ CallersAgree /\ ChargedAsMeasured /\ CallerTypes
    BY InvParts
  <1>1. journal' = journal
    <2>1. CASE ConsoleStep
      BY <1>0, <2>1, OperatorOutsideRelay, OtherOutsideRelay
      DEF ConsoleStep, OutsideRelay
    <2>2. CASE DeadLockExpires \/ LiveLockExpires \/ UNCHANGED allVars
      BY <2>2 DEF DeadLockExpires, LiveLockExpires, allVars, vars
    <2>3. QED
      BY <2>1, <2>2
  <1>2. /\ UNCHANGED <<caller, measured, queue, flusher, lapsed>>
        /\ lock' \in {lock, NoOwner}
        /\ Fault \/ UNCHANGED faults
    BY DEF DeadLockExpires, LiveLockExpires, ConsoleStep, allVars, replayVars
  <1>3. CallerTypes'
    BY <1>0, <1>2, FaultType DEF CallerTypes
  <1>4. QED
    BY <1>0, <1>1, <1>2, <1>3 DEF CallersAgree, ChargedAsMeasured

LEMMA ReplayInvStep == ReplayInv /\ [ReplayNext]_allVars => ReplayInv'
  <1> SUFFICES ASSUME ReplayInv, [ReplayNext]_allVars
               PROVE  ReplayInv'
    OBVIOUS
  <1>0. TypeOK' /\ RowsKept /\ AnsweredIsKept
    BY StepKeepsRows, InvParts
  <1>1. CASE CallerStep
    <2>1. CallerGoal
      BY <1>1, CallerStepGoal
    <2>2. /\ QueueGoal
          /\ \A r \in Requests : queue' = Append(queue, EntryOf(r)) => Queued(r)'
      BY <1>0, <2>1, GrowthGoal DEF CallerGoal
    <2>3. AnsweredIsKept'
      BY <1>0, <2>1, <2>2
      DEF CallerGoal, QueueGoal, AnswersAreBacked, AnsweredIsKept,
          NothingForgotten, RowsKept
    <2>4. QED
      BY <1>0, <2>1, <2>2, <2>3
      DEF CallerGoal, QueueGoal, ReplayInv, ReplayTypeOK, QueueDiscipline,
          CallerTypes, QueueTypes, FlushRecords
  <1>2. ASSUME CallersAgree', ChargedAsMeasured', CallerTypes',
               caller' = caller, QueueGoal
        PROVE  ReplayInv'
    <2>1. AnsweredIsKept'
      BY <1>0, <1>2 DEF QueueGoal, AnsweredIsKept, NothingForgotten, RowsKept
    <2>2. QED
      BY <1>0, <1>2, <2>1
      DEF QueueGoal, ReplayInv, ReplayTypeOK, QueueDiscipline, CallerTypes,
          QueueTypes, FlushRecords
  <1>3. CASE \E f \in Flushers : FlusherStep(f) \/ FlusherFault(f)
    <2>1. PICK f \in Flushers : FlusherStep(f) \/ FlusherFault(f)
      BY <1>3
    <2>2. MeasuredKept
      BY <2>1, FlusherBookkeeping DEF MeasuredKept
    <2>3. QED
      BY <1>0, <1>2, <2>1, <2>2, FlusherBookkeeping, FlusherQueueGoal
  <1>4. CASE \/ DeadLockExpires \/ LiveLockExpires
             \/ ConsoleStep \/ UNCHANGED allVars
    <2>1. MeasuredKept /\ Len(queue) \in Nat
      BY <1>4, BystanderGoal, InvParts DEF MeasuredKept, QueueTypes
    <2>2. \A f \in Flushers : Position(f)'
      BY <1>0, <1>4, <2>1, BystanderGoal, PositionKept, ReplayAssumption
    <2>3. QueueTypes' /\ EntriesKnown' /\ NothingForgotten
      BY <1>4, BystanderGoal, InvParts
      DEF QueueTypes, EntriesKnown, Known, NothingForgotten, Queued
    <2>4. QED
      BY <1>2, <1>4, <2>2, <2>3, BystanderGoal DEF QueueGoal
  <1>5. QED
    BY <1>1, <1>3, <1>4 DEF ReplayNext

THEOREM ReplayInvariant == ReplaySpec => []ReplayInv
  BY ReplayInvInit, ReplayInvStep, PTL DEF ReplaySpec

\* Every reachable state of callers, queue, lock, flushes and ledger is typed.
THEOREM ReplayTypeCorrect == ReplaySpec => []ReplayTypeOK
  BY ReplayInvariant, PTL DEF ReplayInv

\* A charge whose finalizeQuota returned is in the journal or in the queue,
\* for any number of overlapping flushes, lost acknowledgements, expired locks
\* and crashes.
THEOREM AnswersNeverLost == ReplaySpec => []AnsweredIsKept
  BY ReplayInvariant, PTL DEF ReplayInv

\* A hold is only ever completed with the amount its own caller measured.
THEOREM ChargesAreMeasured == ReplaySpec => []ChargedAsMeasured
  BY ReplayInvariant, PTL DEF ReplayInv

\* With all these failures the ledger still runs its own transactions only ...
THEOREM ReplayRunsTheLedger == ReplaySpec => RunsTheLedger
  <1>1. ReplayInit => Init
    BY DEF ReplayInit
  <1>2. QED
    BY <1>1, RunsLedgerStep, ReplayInvariant, PTL
    DEF ReplaySpec, RunsTheLedger, Spec

\* ... so one hold and one payment per request, whatever fails and is retried.
THEOREM ReplayKeepsPromise == ReplaySpec => KeepsPromise
  BY ReplayRunsTheLedger, LedgerKeepsPromise DEF RunsTheLedger
=============================================================================
