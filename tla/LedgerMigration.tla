--------------------------- MODULE LedgerMigration ---------------------------
(***************************************************************************)
(* The upgrade of balances to the second ledger: lib/quota/migrate.ts and  *)
(* scripts/migrate-quota-ledger.ts.  A plan is exported, reviewed and      *)
(* applied row by row, each row in a transaction of its own; the run may   *)
(* die between two rows and be started again, with the same plan or with a *)
(* newer one, while requests already spend from the rows it upgraded, the  *)
(* console edits balances and an account is deleted.                       *)
(***************************************************************************)
EXTENDS Integers, FiniteSets

CONSTANTS
    Rows,             \* the accounts and keys of the old ledger
    Paid,             \* what every row really has left, by the receipts
    MaxLedgerEvents,  \* bound: spendings, console edits and deletions together
    MaxPlans,         \* bound: plans exported
    Gone              \* a model value: no counter, no such row

ASSUME MigrationAssumption ==
    /\ Rows # {} /\ IsFiniteSet(Rows) /\ Paid \in Nat
    /\ MaxLedgerEvents \in Nat /\ MaxPlans \in Nat \ {0}
    /\ Gone \notin Int /\ Gone \notin [quota : Int, version : 1..2]

VARIABLES
    doc,    \* the database row: [quota, version], or Gone once deleted
    hot,    \* the old shared counter of a row, or Gone
    plans,  \* the plans: each a set of [id, remaining, previous], reviewed or not
    todo,   \* the rows the running apply has still to visit, with their plan
    due,    \* what a row must hold once it is upgraded
    steps

migrationVars == <<doc, hot, plans, todo, due, steps>>

Old == 1
QUOTA_LEDGER_VERSION == 2
Stale == Paid + 3            \* the quota the old ledger left in the database

Exists(r) == doc[r] # Gone
Upgraded(r) == Exists(r) /\ doc[r].version = QUOTA_LEDGER_VERSION

MigrationInit ==
    /\ doc = [r \in Rows |-> [quota |-> Stale, version |-> Old]]
    /\ hot \in [Rows -> {Paid, Gone}]
    /\ plans = {}
    /\ todo = {}
    /\ due = [r \in Rows |-> Paid]
    /\ steps = 0

Counted == steps < MaxLedgerEvents /\ steps' = steps + 1

\* exportBalancePlan: the rows of the old ledger; a counter that is missing
\* is not taken for zero.
Export ==
    /\ Cardinality(plans) < MaxPlans
    /\ LET left == {r \in Rows : Exists(r) /\ ~Upgraded(r)}
       IN  plans' = plans \cup {[reviewed |-> FALSE, balances |->
                {[id |-> r, remaining |-> hot[r], previous |-> doc[r].quota] : r \in left}]}
    /\ UNCHANGED <<doc, hot, todo, due, steps>>

\* The operator reconciles the rows with the receipts and with what the
\* console was told.
Review ==
    /\ \E plan \in plans :
         /\ ~plan.reviewed
         /\ plans' = (plans \ {plan}) \cup {[reviewed |-> TRUE, balances |->
                {[row EXCEPT !.remaining = due[row.id]] : row \in plan.balances}]}
    /\ UNCHANGED <<doc, hot, todo, due, steps>>

\* applyBalancePlan begins: a plan that is not reviewed is refused.
StartApply ==
    /\ todo = {}
    /\ \E plan \in plans : plan.reviewed /\ todo' = plan.balances
    /\ UNCHANGED <<doc, hot, plans, due, steps>>

\* A slip: a row that was upgraded before is written again.
BadLeaves(row) == FALSE
\* A row that is upgraded is left as it is.
Leaves(row) == Upgraded(row.id)

\* A slip: a balance that changed after the export is overwritten.
BadUnchanged(row) == TRUE
Unchanged(row) == doc[row.id].quota = row.previous

\* One row, in its transaction.  A row that is gone or whose balance changed
\* after the export stops the run.
ApplyRow ==
    /\ \E row \in todo :
         IF ~Exists(row.id) \/ (~Leaves(row) /\ ~Unchanged(row))
           THEN todo' = {} /\ UNCHANGED doc
           ELSE /\ todo' = todo \ {row}
                /\ doc' = IF Leaves(row) THEN doc
                          ELSE [doc EXCEPT ![row.id] =
                                  [quota |-> row.remaining, version |-> QUOTA_LEDGER_VERSION]]
    /\ UNCHANGED <<hot, plans, due, steps>>

\* The process dies between two transactions.
Crash ==
    /\ todo # {} /\ todo' = {}
    /\ UNCHANGED <<doc, hot, plans, due, steps>>

\* A request is charged (quota/index.ts); requireUpgraded refuses the rows of
\* the old ledger.
Spend ==
    /\ Counted
    /\ \E r \in Rows :
         /\ Upgraded(r)
         /\ doc' = [doc EXCEPT ![r].quota = @ - 1]
         /\ due' = [due EXCEPT ![r] = @ - 1]
    /\ UNCHANGED <<hot, plans, todo>>

\* The console sets a balance, whatever the ledger of its row; on an old row
\* it is the operator's word and becomes what the row must hold.
SetBalance ==
    /\ Counted
    /\ \E r \in Rows :
         /\ Exists(r)
         /\ doc' = [doc EXCEPT ![r].quota = Paid + 4]
         /\ due' = [due EXCEPT ![r] = Paid + 4]
    /\ UNCHANGED <<hot, plans, todo>>

Delete ==
    /\ Counted
    /\ \E r \in Rows : Exists(r) /\ doc' = [doc EXCEPT ![r] = Gone]
    /\ UNCHANGED <<hot, plans, todo, due>>

MigrationNext ==
    \/ Export \/ Review \/ StartApply \/ ApplyRow \/ Crash
    \/ Spend \/ SetBalance \/ Delete

MigrationSpec == MigrationInit /\ [][MigrationNext]_migrationVars

-----------------------------------------------------------------------------
\* quota/migrate.ts: however often and from whatever plan the upgrade is
\* applied, an upgraded row holds what was left by the receipts less what was
\* spent since, or what the console set.
MigrationKeepsSpending == \A r \in Rows : Upgraded(r) => doc[r].quota = due[r]
=============================================================================
