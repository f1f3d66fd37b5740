-------------------------- MODULE ComponentsProofs --------------------------
(***************************************************************************)
(* Proofs about the components that share no state with the others: the    *)
(* upgrade of balances, the setup of scheduled jobs, the console's         *)
(* sessions and pages, the database connection, the memory store, the rate *)
(* limits and the translation of streams.  Each section names the          *)
(* component, and first says what its invariant rests on.                  *)
(***************************************************************************)
EXTENDS LedgerMigration, SchedulerSetup, ConsoleSessions, ConsolePages,
        Databases, Limiter, StreamTranslation, RequestEdge,
        SumLemmas, FiniteSetTheorems, SequenceTheorems, TLAPS

(***************************************************************************)
(* LedgerMigration.  Proof that the upgrade of balances keeps what was     *)
(* spent, for any rows, receipts, number of plans and order of crashes,    *)
(* spendings and edits.                                                    *)
(*                                                                         *)
(* A row of the old ledger is as the old ledger left it or as the console  *)
(* set it, and no row comes back to the old ledger.  So what a plan says   *)
(* of a row stays right for as long as the row is of the old ledger and    *)
(* has the balance the plan was exported with: whichever plan gets there   *)
(* first, in however many runs, writes what is due.                        *)
(***************************************************************************)

SetTo == Paid + 4
Docs == [quota : Int, version : {Old, QUOTA_LEDGER_VERSION}]
PlanRows == [id : Rows, remaining : Int \cup {Gone}, previous : Int]
Plans == [reviewed : BOOLEAN, balances : SUBSET PlanRows]

OnOldLedger(r) == Exists(r) /\ ~Upgraded(r)

MigrationTypeOK ==
    /\ doc \in [Rows -> Docs \cup {Gone}]
    /\ hot \in [Rows -> {Paid, Gone}]
    /\ plans \subseteq Plans
    /\ todo \subseteq PlanRows
    /\ due \in [Rows -> Int]

\* A row of the old ledger holds what it always did, or what the console set.
Untouched ==
    \A r \in Rows : OnOldLedger(r) =>
        \/ doc[r].quota = Stale /\ due[r] = Paid
        \/ doc[r].quota = SetTo /\ due[r] = SetTo

\* What an exported plan knows of a row of the old ledger.
Exported(line) ==
    OnOldLedger(line.id) =>
        \/ line.previous = Stale
        \/ line.previous = SetTo /\ due[line.id] = SetTo

\* What a reviewed one does.
Reviewed(line) ==
    OnOldLedger(line.id) =>
        \/ /\ line.previous = Stale
           /\ doc[line.id].quota = Stale => line.remaining = Paid
        \/ line.previous = SetTo /\ line.remaining = SetTo

PlansAreRight ==
    /\ \A plan \in plans : \A line \in plan.balances : Exported(line)
    /\ \A plan \in plans : plan.reviewed =>
          \A line \in plan.balances : Reviewed(line) /\ line.remaining \in Int
    /\ \A line \in todo : Reviewed(line) /\ line.remaining \in Int

MigrationInv == MigrationTypeOK /\ MigrationKeepsSpending /\ Untouched /\ PlansAreRight

\* The model value for "no row" is no document.
LEMMA GoneIsNoDocument == Gone \notin Docs /\ Gone \notin Int
<1>1. Docs \subseteq [quota : Int, version : 1..2]
  BY DEF Docs, Old, QUOTA_LEDGER_VERSION
<1> QED BY <1>1, MigrationAssumption

-----------------------------------------------------------------------------
(* What a step of the documents does to what the plans know.               *)

\* A step that moves rows off the old ledger, or sets them, leaves every plan
\* right: a row it leaves on the old ledger is as it was, or set.
LEMMA PlansStayRight ==
    ASSUME MigrationInv, UNCHANGED <<plans, todo>>,
           \A r \in Rows : OnOldLedger(r)' =>
               /\ OnOldLedger(r)
               /\ \/ doc'[r].quota = doc[r].quota /\ due'[r] = due[r]
                  \/ doc'[r].quota = SetTo /\ due'[r] = SetTo
    PROVE  PlansAreRight' /\ Untouched'
<1> USE DEF MigrationInv, MigrationTypeOK, Stale, SetTo
<1> Paid \in Nat
  BY MigrationAssumption
<1>1. Untouched'
  BY DEF Untouched
<1>2. ASSUME NEW line \in PlanRows, Exported(line) PROVE Exported(line)'
  BY <1>2 DEF Exported, PlanRows
<1>3. ASSUME NEW line \in PlanRows, Reviewed(line) PROVE Reviewed(line)'
  BY <1>3 DEF Reviewed, PlanRows
<1>4. \A plan \in plans : \A line \in plan.balances : line \in PlanRows
  BY DEF Plans
<1>5. PlansAreRight'
  BY <1>2, <1>3, <1>4 DEF PlansAreRight
<1> QED BY <1>1, <1>5

-----------------------------------------------------------------------------
(* The steps.                                                              *)

LEMMA InitIsRight == MigrationInit => MigrationInv
<1> SUFFICES ASSUME MigrationInit PROVE MigrationInv
  OBVIOUS
<1> USE DEF MigrationInit
<1>1. Paid \in Nat
  BY MigrationAssumption
<1>2. MigrationTypeOK
  BY <1>1 DEF MigrationTypeOK, Docs, Stale
<1>3. \A r \in Rows : ~Upgraded(r) /\ doc[r].quota = Stale /\ due[r] = Paid
  BY DEF Upgraded, Old, QUOTA_LEDGER_VERSION
<1> QED BY <1>2, <1>3 DEF MigrationInv, MigrationKeepsSpending, Untouched, PlansAreRight

LEMMA ExportIsRight == MigrationInv /\ Export => MigrationInv'
<1> SUFFICES ASSUME MigrationInv, Export PROVE MigrationInv'
  OBVIOUS
<1> DEFINE Left == {r \in Rows : Exists(r) /\ ~Upgraded(r)}
           Lines == {[id |-> r, remaining |-> hot[r], previous |-> doc[r].quota] : r \in Left}
           New == [reviewed |-> FALSE, balances |-> Lines]
<1>1. plans' = plans \cup {New} /\ UNCHANGED <<doc, hot, todo, due>>
  BY DEF Export
<1>2. Paid \in Nat
  BY MigrationAssumption
<1>3. \A r \in Left : doc[r] \in Docs
  BY DEF MigrationInv, MigrationTypeOK, Exists
<1>4. Lines \subseteq PlanRows
  BY <1>2, <1>3 DEF MigrationInv, MigrationTypeOK, Docs, PlanRows
<1>5. New \in Plans
  BY <1>4 DEF Plans
<1>6. \A line \in Lines : Exported(line)
  BY DEF MigrationInv, Untouched, Exported, OnOldLedger
<1>7. MigrationTypeOK'
  BY <1>1, <1>5 DEF MigrationInv, MigrationTypeOK
<1>8. \A line \in PlanRows : (Exported(line)' <=> Exported(line)) /\ (Reviewed(line)' <=> Reviewed(line))
  BY <1>1 DEF Exported, Reviewed, OnOldLedger, Exists, Upgraded
<1>9. PlansAreRight'
  <2>1. \A plan \in plans : \A line \in plan.balances : line \in PlanRows
    BY DEF MigrationInv, MigrationTypeOK, Plans
  <2>2. \A line \in todo : line \in PlanRows
    BY DEF MigrationInv, MigrationTypeOK
  <2>3. New.balances = Lines /\ ~New.reviewed
    OBVIOUS
  <2> HIDE DEF New, Lines
  <2> QED BY <1>1, <1>4, <1>6, <1>8, <2>1, <2>2, <2>3 DEF MigrationInv, PlansAreRight
<1>10. MigrationKeepsSpending' /\ Untouched'
  BY <1>1 DEF MigrationInv, MigrationKeepsSpending, Untouched, OnOldLedger, Exists, Upgraded
<1> QED BY <1>7, <1>9, <1>10 DEF MigrationInv

LEMMA ReviewIsRight == MigrationInv /\ Review => MigrationInv'
<1> SUFFICES ASSUME MigrationInv, Review PROVE MigrationInv'
  OBVIOUS
<1>1. PICK plan \in plans :
        plans' = (plans \ {plan}) \cup {[reviewed |-> TRUE, balances |->
                {[line EXCEPT !.remaining = due[line.id]] : line \in plan.balances}]}
  BY DEF Review
<1> DEFINE Reconciled(line) == [line EXCEPT !.remaining = due[line.id]]
           Lines == {Reconciled(line) : line \in plan.balances}
           New == [reviewed |-> TRUE, balances |-> Lines]
<1>2. UNCHANGED <<doc, hot, todo, due>>
  BY DEF Review
<1>3. Paid \in Nat
  BY MigrationAssumption
<1>4. plan.balances \subseteq PlanRows
  BY DEF MigrationInv, MigrationTypeOK, Plans
<1>5. \A line \in PlanRows :
        /\ Reconciled(line) \in PlanRows
        /\ Reconciled(line).id = line.id /\ Reconciled(line).previous = line.previous
        /\ Reconciled(line).remaining = due[line.id] /\ due[line.id] \in Int
  BY DEF MigrationInv, MigrationTypeOK, PlanRows
<1>6. Lines \subseteq PlanRows
  BY <1>4, <1>5
<1>7. \A line \in plan.balances : Exported(Reconciled(line)) /\ Reviewed(Reconciled(line))
  <2> SUFFICES ASSUME NEW line \in plan.balances
               PROVE  Exported(Reconciled(line)) /\ Reviewed(Reconciled(line))
    OBVIOUS
  <2>1. line \in PlanRows /\ line.id \in Rows /\ Exported(line)
    BY <1>4 DEF MigrationInv, PlansAreRight, PlanRows
  <2> HIDE DEF Reconciled
  <2>2. Exported(Reconciled(line))
    BY <1>5, <2>1 DEF Exported
  <2>3. Reviewed(Reconciled(line))
    BY <1>3, <1>5, <2>1 DEF Reviewed, Exported, MigrationInv, Untouched, Stale, SetTo
  <2> QED BY <2>2, <2>3
<1>8. \A line \in Lines : Exported(line) /\ Reviewed(line) /\ line.remaining \in Int
  BY <1>4, <1>5, <1>7
<1>9. New \in Plans /\ New.balances = Lines
  BY <1>6 DEF Plans
<1>10. MigrationTypeOK'
  BY <1>1, <1>2, <1>9 DEF MigrationInv, MigrationTypeOK
<1>11. \A line \in PlanRows : (Exported(line)' <=> Exported(line)) /\ (Reviewed(line)' <=> Reviewed(line))
  BY <1>2 DEF Exported, Reviewed, OnOldLedger, Exists, Upgraded
<1>12. PlansAreRight'
  <2>1. \A p \in plans : \A line \in p.balances : line \in PlanRows
    BY DEF MigrationInv, MigrationTypeOK, Plans
  <2>2. \A line \in todo : line \in PlanRows
    BY DEF MigrationInv, MigrationTypeOK
  <2>3. plans' \subseteq plans \cup {New}
    BY <1>1
  <2> HIDE DEF New, Lines
  <2> QED BY <1>2, <1>6, <1>8, <1>9, <1>11, <2>1, <2>2, <2>3 DEF MigrationInv, PlansAreRight
<1>13. MigrationKeepsSpending' /\ Untouched'
  BY <1>2 DEF MigrationInv, MigrationKeepsSpending, Untouched, OnOldLedger, Exists, Upgraded
<1> QED BY <1>10, <1>12, <1>13 DEF MigrationInv

\* Beginning a run and dying in one leave the documents and plans alone.
LEMMA StartAndCrashAreRight == MigrationInv /\ (StartApply \/ Crash) => MigrationInv'
<1> SUFFICES ASSUME MigrationInv, StartApply \/ Crash PROVE MigrationInv'
  OBVIOUS
<1>1. UNCHANGED <<doc, hot, plans, due>>
  BY DEF StartApply, Crash
<1>2. todo' = {} \/ \E plan \in plans : plan.reviewed /\ todo' = plan.balances
  BY DEF StartApply, Crash
<1>3. todo' \subseteq PlanRows /\ \A line \in todo' : Reviewed(line) /\ line.remaining \in Int
  BY <1>2 DEF MigrationInv, MigrationTypeOK, Plans, PlansAreRight
<1>4. MigrationTypeOK'
  BY <1>1, <1>3 DEF MigrationInv, MigrationTypeOK
<1>5. PlansAreRight'
  BY <1>1, <1>3 DEF MigrationInv, PlansAreRight, Exported, Reviewed, OnOldLedger, Exists, Upgraded
<1>6. MigrationKeepsSpending' /\ Untouched'
  BY <1>1 DEF MigrationInv, MigrationKeepsSpending, Untouched, OnOldLedger, Exists, Upgraded
<1> QED BY <1>4, <1>5, <1>6 DEF MigrationInv

\* The row that is written was on the old ledger with the balance of the plan.
LEMMA ApplyIsRight == MigrationInv /\ ApplyRow => MigrationInv'
<1> SUFFICES ASSUME MigrationInv, ApplyRow PROVE MigrationInv'
  OBVIOUS
<1> UNCHANGED <<hot, plans, due>>
  BY DEF ApplyRow
<1>1. PICK line \in todo :
        \/ todo' = {} /\ UNCHANGED doc
        \/ todo' = todo \ {line} /\ UNCHANGED doc
        \/ /\ todo' = todo \ {line}
           /\ OnOldLedger(line.id) /\ Unchanged(line)
           /\ doc' = [doc EXCEPT ![line.id] =
                        [quota |-> line.remaining, version |-> QUOTA_LEDGER_VERSION]]
  BY DEF ApplyRow, Leaves, OnOldLedger
<1>2. Paid \in Nat
  BY MigrationAssumption
<1>3. line \in PlanRows /\ line.id \in Rows /\ Reviewed(line) /\ line.remaining \in Int
  BY DEF MigrationInv, MigrationTypeOK, PlansAreRight, PlanRows
<1>4. todo' \subseteq todo
  BY <1>1
<1>5. CASE UNCHANGED doc
  BY <1>4, <1>5 DEF MigrationInv, MigrationTypeOK, PlansAreRight, MigrationKeepsSpending, Untouched,
        Exported, Reviewed, OnOldLedger, Exists, Upgraded
<1>6. CASE /\ OnOldLedger(line.id) /\ Unchanged(line)
           /\ doc' = [doc EXCEPT ![line.id] =
                        [quota |-> line.remaining, version |-> QUOTA_LEDGER_VERSION]]
  <2>1. line.remaining = due[line.id]
    BY <1>2, <1>3, <1>6 DEF MigrationInv, Untouched, Reviewed, Unchanged, Stale, SetTo
  <2>2. doc' \in [Rows -> Docs \cup {Gone}] /\ Upgraded(line.id)' /\ doc'[line.id].quota = due[line.id]
    BY <1>3, <1>6, <2>1, GoneIsNoDocument
       DEF MigrationInv, MigrationTypeOK, Docs, Upgraded, Exists, QUOTA_LEDGER_VERSION
  <2>3. \A r \in Rows \ {line.id} : doc'[r] = doc[r]
    BY <1>3, <1>6 DEF MigrationInv, MigrationTypeOK
  <2>4. \A r \in Rows : OnOldLedger(r)' => OnOldLedger(r) /\ doc'[r] = doc[r]
    BY <2>2, <2>3 DEF OnOldLedger, Exists, Upgraded
  <2>5. \A other \in PlanRows : (Exported(other) => Exported(other)') /\ (Reviewed(other) => Reviewed(other)')
    BY <2>4 DEF Exported, Reviewed, PlanRows
  <2>6. MigrationTypeOK'
    BY <1>4, <2>2 DEF MigrationInv, MigrationTypeOK
  <2>7. PlansAreRight'
    <3>1. \A plan \in plans : \A other \in plan.balances : other \in PlanRows
      BY DEF MigrationInv, MigrationTypeOK, Plans
    <3>2. \A other \in todo' : other \in PlanRows /\ other \in todo
      BY <1>4 DEF MigrationInv, MigrationTypeOK
    <3> QED BY <2>5, <3>1, <3>2 DEF MigrationInv, PlansAreRight
  <2>8. Untouched'
    BY <2>4 DEF MigrationInv, Untouched
  <2>9. MigrationKeepsSpending'
    BY <2>2, <2>3 DEF MigrationInv, MigrationKeepsSpending, Upgraded, Exists
  <2> QED BY <2>6, <2>7, <2>8, <2>9 DEF MigrationInv
<1> QED BY <1>1, <1>5, <1>6

LEMMA SpendIsRight == MigrationInv /\ Spend => MigrationInv'
<1> SUFFICES ASSUME MigrationInv, Spend PROVE MigrationInv'
  OBVIOUS
<1>1. PICK r \in Rows : /\ Upgraded(r)
                        /\ doc' = [doc EXCEPT ![r].quota = @ - 1]
                        /\ due' = [due EXCEPT ![r] = @ - 1]
  BY DEF Spend
<1>2. UNCHANGED <<hot, plans, todo>>
  BY DEF Spend
<1>3. doc[r] \in Docs /\ doc[r].version = QUOTA_LEDGER_VERSION /\ doc[r].quota = due[r] /\ due[r] \in Int
  BY <1>1 DEF MigrationInv, MigrationTypeOK, MigrationKeepsSpending, Upgraded, Exists
<1>4. /\ doc'[r] \in Docs /\ doc'[r].version = QUOTA_LEDGER_VERSION
      /\ doc'[r].quota = due[r] - 1 /\ due'[r] = due[r] - 1
  BY <1>1, <1>3 DEF MigrationInv, MigrationTypeOK, Docs
<1>5. \A s \in Rows \ {r} : doc'[s] = doc[s] /\ due'[s] = due[s]
  BY <1>1 DEF MigrationInv, MigrationTypeOK
<1>6. MigrationTypeOK'
  <2>1. doc' \in [Rows -> Docs \cup {Gone}]
    BY <1>1, <1>4, <1>5 DEF MigrationInv, MigrationTypeOK
  <2>2. due' \in [Rows -> Int]
    BY <1>1, <1>3, <1>4, <1>5 DEF MigrationInv, MigrationTypeOK
  <2> QED BY <1>2, <2>1, <2>2 DEF MigrationInv, MigrationTypeOK
<1>7. MigrationKeepsSpending'
  BY <1>4, <1>5 DEF MigrationInv, MigrationKeepsSpending, Upgraded, Exists
<1>8. \A s \in Rows : OnOldLedger(s)' =>
        OnOldLedger(s) /\ doc'[s].quota = doc[s].quota /\ due'[s] = due[s]
  BY <1>4, <1>5, GoneIsNoDocument DEF OnOldLedger, Upgraded, Exists
<1>9. PlansAreRight' /\ Untouched'
  BY <1>2, <1>8, PlansStayRight
<1> QED BY <1>6, <1>7, <1>9 DEF MigrationInv

LEMMA SetBalanceIsRight == MigrationInv /\ SetBalance => MigrationInv'
<1> SUFFICES ASSUME MigrationInv, SetBalance PROVE MigrationInv'
  OBVIOUS
<1>1. PICK r \in Rows : /\ Exists(r)
                        /\ doc' = [doc EXCEPT ![r].quota = Paid + 4]
                        /\ due' = [due EXCEPT ![r] = Paid + 4]
  BY DEF SetBalance
<1>2. UNCHANGED <<hot, plans, todo>>
  BY DEF SetBalance
<1>3. doc[r] \in Docs /\ SetTo \in Int
  BY <1>1, MigrationAssumption DEF MigrationInv, MigrationTypeOK, Exists, SetTo
<1>4. /\ doc'[r] \in Docs /\ doc'[r].version = doc[r].version
      /\ doc'[r].quota = SetTo /\ due'[r] = SetTo
  BY <1>1, <1>3 DEF MigrationInv, MigrationTypeOK, Docs, SetTo
<1>5. \A s \in Rows \ {r} : doc'[s] = doc[s] /\ due'[s] = due[s]
  BY <1>1 DEF MigrationInv, MigrationTypeOK
<1>6. MigrationTypeOK'
  <2>1. doc' \in [Rows -> Docs \cup {Gone}]
    BY <1>1, <1>4, <1>5 DEF MigrationInv, MigrationTypeOK
  <2>2. due' \in [Rows -> Int]
    BY <1>1, <1>3, <1>4, <1>5 DEF MigrationInv, MigrationTypeOK
  <2> QED BY <1>2, <2>1, <2>2 DEF MigrationInv, MigrationTypeOK
<1>7. MigrationKeepsSpending'
  BY <1>4, <1>5 DEF MigrationInv, MigrationKeepsSpending, Upgraded, Exists
<1>8. \A s \in Rows : OnOldLedger(s)' =>
        /\ OnOldLedger(s)
        /\ \/ doc'[s].quota = doc[s].quota /\ due'[s] = due[s]
           \/ doc'[s].quota = SetTo /\ due'[s] = SetTo
  BY <1>1, <1>4, <1>5 DEF OnOldLedger, Upgraded, Exists
<1>9. PlansAreRight' /\ Untouched'
  BY <1>2, <1>8, PlansStayRight
<1> QED BY <1>6, <1>7, <1>9 DEF MigrationInv

LEMMA DeleteIsRight == MigrationInv /\ Delete => MigrationInv'
<1> SUFFICES ASSUME MigrationInv, Delete PROVE MigrationInv'
  OBVIOUS
<1>1. PICK r \in Rows : doc' = [doc EXCEPT ![r] = Gone]
  BY DEF Delete
<1>2. UNCHANGED <<hot, plans, todo, due>>
  BY DEF Delete
<1>3. doc'[r] = Gone /\ \A s \in Rows \ {r} : doc'[s] = doc[s]
  BY <1>1 DEF MigrationInv, MigrationTypeOK
<1>4. MigrationTypeOK'
  BY <1>1, <1>2 DEF MigrationInv, MigrationTypeOK
<1>5. MigrationKeepsSpending'
  BY <1>2, <1>3 DEF MigrationInv, MigrationKeepsSpending, Upgraded, Exists
<1>6. \A s \in Rows : OnOldLedger(s)' =>
        OnOldLedger(s) /\ doc'[s].quota = doc[s].quota /\ due'[s] = due[s]
  BY <1>2, <1>3 DEF OnOldLedger, Upgraded, Exists
<1>7. PlansAreRight' /\ Untouched'
  BY <1>2, <1>6, PlansStayRight
<1> QED BY <1>4, <1>5, <1>7 DEF MigrationInv

-----------------------------------------------------------------------------
LEMMA MigrationInvariant == MigrationSpec => []MigrationInv
<1>1. MigrationInv /\ [MigrationNext]_migrationVars => MigrationInv'
  <2> SUFFICES ASSUME MigrationInv, [MigrationNext]_migrationVars PROVE MigrationInv'
    OBVIOUS
  <2>1. CASE MigrationNext
    BY <2>1, ExportIsRight, ReviewIsRight, StartAndCrashAreRight, ApplyIsRight, SpendIsRight,
       SetBalanceIsRight, DeleteIsRight DEF MigrationNext
  <2>2. CASE UNCHANGED migrationVars
    BY <2>2 DEF migrationVars, MigrationInv, MigrationTypeOK, MigrationKeepsSpending, Untouched,
       PlansAreRight, Exported, Reviewed, OnOldLedger, Exists, Upgraded
  <2> QED BY <2>1, <2>2
<1> QED BY InitIsRight, <1>1, PTL DEF MigrationSpec

\* quota/migrate.ts: for any rows, plans, crashes, spendings and edits, an
\* upgraded row holds what was due when it was upgraded less what was spent.
THEOREM UpgradesKeepSpending == MigrationSpec => []MigrationKeepsSpending
BY MigrationInvariant, PTL DEF MigrationInv

(***************************************************************************)
(* SchedulerSetup.  A setup within its deadline owns the lease, because    *)
(* the calls give up before the lease can be taken over.  So while it      *)
(* saves, nobody else makes a job, and a route that its plan found without *)
(* a job has none until it makes one itself.                               *)
(***************************************************************************)

Creations == [id : Nat \ {0}, name : JobNames]
Jobs == [id : Nat, name : JobNames, ours : BOOLEAN, saved : BOOLEAN]
Leases == [owner : Setups, until : Nat]
Invocations == [at : {"idle", "listing", "saving", "releasing", "ended"}, deadline : Nat,
                plan : [JobNames -> Nat] \cup {NoLease}, recorded : SUBSET Creations]

SetupTypeOK ==
    /\ hour \in Nat
    /\ lease \in Leases \cup {NoLease}
    /\ jobs \subseteq Jobs
    /\ made \subseteq Creations /\ IsFiniteSet(made)
    /\ setups \in [Setups -> Invocations]

\* Our jobs are the ones that were made, and at most one for each route.
OurJobs ==
    /\ \A j \in jobs : j.ours => [id |-> j.id, name |-> j.name] \in made
    /\ \A j \in jobs : ~j.ours => ~j.saved
    /\ \A i, j \in jobs : i.ours /\ j.ours /\ i.name = j.name => i = j

Working(s) == setups[s].at \in {"listing", "saving"} /\ InTime(s)

LeaseIsOurs ==
    \A s \in Setups : Working(s) =>
        lease # NoLease /\ lease.owner = s /\ hour < lease.until /\ setups[s].deadline < lease.until

\* What a setup found, made and wrote down.
FoundBy(s) ==
    /\ setups[s].plan \in [JobNames -> Nat]
    /\ \A n \in JobNames : setups[s].plan[n] # 0 => [id |-> setups[s].plan[n], name |-> n] \in made
Free(s) ==
    \A n \in Unsaved(s), j \in jobs : setups[s].plan[n] = 0 /\ j.name = n => ~j.ours

PlanHolds ==
    \A s \in Setups :
        /\ setups[s].recorded \subseteq made
        /\ setups[s].at = "saving" => FoundBy(s) /\ (InTime(s) => Free(s))

SetupInv == SetupTypeOK /\ OurJobs /\ LeaseIsOurs /\ PlanHolds /\ RecordIsTrue

LEMMA SetupInvInit == SetupInit => SetupInv
<1> SUFFICES ASSUME SetupInit PROVE SetupInv
  OBVIOUS
<1> USE DEF SetupInit, NewSetup
<1>1. SetupTypeOK
  <2>1. jobs \subseteq Jobs
    <3>1. \A n \in JobNames : [id |-> 0, name |-> n, ours |-> FALSE, saved |-> FALSE] \in Jobs
      BY DEF Jobs
    <3> QED BY <3>1
  <2>2. setups \in [Setups -> Invocations]
    BY DEF Invocations
  <2> HIDE DEF NewSetup
  <2> QED BY <2>1, <2>2, FS_EmptySet DEF SetupTypeOK
<1>2. OurJobs /\ LeaseIsOurs /\ PlanHolds
  BY DEF OurJobs, LeaseIsOurs, Working, PlanHolds
<1>3. RecordIsTrue
  BY DEF RecordIsTrue
<1> QED BY <1>1, <1>2, <1>3 DEF SetupInv

LeaseLeft(s) == lease' = lease \/ (lease' = NoLease /\ Releases(s) /\ At(s, "releasing"))
RecordLeft(s) ==
    setupState' = setupState \/ (setupState' = setups[s].recorded /\ At(s, "saving") /\ Unsaved(s) = {})

\* An invocation on its way out touches nothing the invariant is about.
LEMMA SetupLeaves ==
    ASSUME SetupInv, NEW s \in Setups, NEW where \in {"releasing", "ended"},
           SetupGoes(s, where), hour' = hour, jobs' = jobs, made' = made,
           LeaseLeft(s), RecordLeft(s)
    PROVE  SetupInv'
<1> USE DEF SetupInv, SetupGoes, NewSetup, LeaseLeft, RecordLeft, At
<1>1. SetupTypeOK'
  BY DEF SetupTypeOK, Invocations, Leases
<1>2. OurJobs'
  BY DEF OurJobs
<1>3. \A t \in Setups : t # s => setups'[t] = setups[t]
  BY DEF SetupTypeOK
<1>4. setups'[s].at = where
  BY DEF SetupTypeOK
<1>5. LeaseIsOurs'
  BY <1>3, <1>4 DEF LeaseIsOurs, Working, InTime, Releases
<1>6. PlanHolds'
  BY <1>3, <1>4 DEF PlanHolds, InTime, Unsaved, FoundBy, Free
<1>7. RecordIsTrue'
  <2>1. CASE setupState' = setupState
    BY <2>1 DEF RecordIsTrue, ShownConfigured
  <2>2. CASE setupState' = setups[s].recorded /\ At(s, "saving") /\ Unsaved(s) = {}
    <3>1. setupState' \subseteq made
      BY <2>2 DEF PlanHolds, At
    <3>2. {r.name : r \in setupState'} = JobNames
      <4>1. setupState' \subseteq Creations
        BY <2>2 DEF SetupTypeOK, Invocations
      <4>2. JobNames \ {r.name : r \in setupState'} = {}
        BY <2>2 DEF Unsaved
      <4> QED BY <4>1, <4>2 DEF Creations
    <3> QED BY <3>1, <3>2 DEF RecordIsTrue, ShownConfigured
  <2> QED BY <2>1, <2>2
<1> QED BY <1>1, <1>2, <1>5, <1>6, <1>7

\* Any call answered about the job saved next.
LEMMA SetupSaves ==
    ASSUME SetupTypeOK, LeaseIsOurs, PlanHolds, RecordIsTrue, OurJobs',
           NEW s \in Setups, NEW id, At(s, "saving"), Unsaved(s) # {}, InTime(s),
           Recorded(s, id) \/ SetupGoes(s, "releasing"),
           UNCHANGED <<hour, lease, setupState>>,
           jobs' \subseteq Jobs, made \subseteq made',
           made' \subseteq Creations, IsFiniteSet(made'),
           [id |-> id, name |-> NextName(s)] \in made',
           \A t \in Setups : t # s => ~Working(t),
           \A m \in JobNames \ {NextName(s)} :
               (\A k \in jobs : k.name = m => ~k.ours) => (\A k \in jobs' : k.name = m => ~k.ours)
    PROVE  SetupInv'
<1> DEFINE n == NextName(s)
           creation == [name |-> n, id |-> id]
<1>1. creation \in made' /\ creation.name = n
  OBVIOUS
<1>2. n \in JobNames
  BY DEF NextName, PlanOrder, JobNames, Unsaved
<1> HIDE DEF creation
<1>3. RecordIsTrue'
  BY DEF RecordIsTrue, ShownConfigured
<1>4. CASE Recorded(s, id)
  <2>1. setups' = [setups EXCEPT ![s].recorded = @ \cup {creation}]
    BY <1>4 DEF Recorded, creation
  <2>2. setups' \in [Setups -> Invocations]
    <3>1. creation \in Creations
      BY <1>1
    <3> QED BY <2>1, <3>1 DEF SetupTypeOK, Invocations
  <2>3. SetupTypeOK'
    BY <2>2 DEF SetupTypeOK
  <2>4. /\ \A t \in Setups : t # s => setups'[t] = setups[t]
        /\ setups'[s] = [setups[s] EXCEPT !.recorded = setups[s].recorded \cup {creation}]
    BY <2>1 DEF SetupTypeOK
  <2>5. /\ setups'[s].at = setups[s].at /\ setups'[s].plan = setups[s].plan
        /\ setups'[s].deadline = setups[s].deadline
        /\ setups'[s].recorded = setups[s].recorded \cup {creation}
    BY <2>4 DEF SetupTypeOK, Invocations
  <2>6. LeaseIsOurs'
    BY <2>4, <2>5 DEF LeaseIsOurs, Working, InTime
  <2>7. \A t \in Setups : setups'[t].recorded \subseteq made'
    BY <1>1, <2>4, <2>5 DEF PlanHolds
  <2>8. \A t \in Setups : setups'[t].at = "saving" => FoundBy(t)'
    BY <2>4, <2>5 DEF PlanHolds, FoundBy
  <2>9. ASSUME NEW t \in Setups, setups'[t].at = "saving", InTime(t)' PROVE Free(t)'
    <3>1. t = s
      BY <2>4, <2>9 DEF Working, InTime
    <3>2. Unsaved(s)' = Unsaved(s) \ {n}
      BY <1>1, <2>5 DEF Unsaved
    <3>3. Free(s)
      BY DEF PlanHolds, At
    <3>4. ASSUME NEW m \in Unsaved(s) \ {n}, setups[s].plan[m] = 0
          PROVE  \A k \in jobs' : k.name = m => ~k.ours
      <4>1. m \in JobNames \ {n}
        BY DEF Unsaved
      <4>2. \A k \in jobs : k.name = m => ~k.ours
        BY <3>3, <3>4 DEF Free
      <4> QED BY <4>1, <4>2
    <3> QED BY <2>5, <3>1, <3>2, <3>4 DEF Free
  <2>10. PlanHolds'
    BY <2>7, <2>8, <2>9 DEF PlanHolds
  <2> QED BY <1>3, <2>3, <2>6, <2>10 DEF SetupInv
<1>5. CASE SetupGoes(s, "releasing")
  <2> USE <1>5 DEF SetupGoes, NewSetup
  <2>1. SetupTypeOK'
    BY DEF SetupTypeOK, Invocations
  <2>2. /\ \A t \in Setups : t # s => setups'[t] = setups[t]
        /\ setups'[s].at = "releasing" /\ setups'[s].recorded = {}
    BY DEF SetupTypeOK
  <2>3. LeaseIsOurs'
    BY <2>2 DEF LeaseIsOurs, Working, InTime
  <2>4. PlanHolds'
    BY <2>2 DEF PlanHolds, Working, InTime, FoundBy
  <2> QED BY <1>3, <2>1, <2>3, <2>4 DEF SetupInv
<1> QED BY <1>4, <1>5

LEMMA SetupInvStep == SetupInv /\ [SetupNext]_setupVars => SetupInv'
<1> SUFFICES ASSUME SetupInv, [SetupNext]_setupVars PROVE SetupInv'
  OBVIOUS
<1>0. SetupTypeOK /\ OurJobs /\ LeaseIsOurs /\ PlanHolds /\ RecordIsTrue
  BY DEF SetupInv
<1>1. ASSUME NEW s \in Setups, TakeLease(s) PROVE SetupInv'
  <2>0. /\ At(s, "idle") /\ UNCHANGED <<hour, setupState, jobs, made, ownerEdits>>
    BY <1>1 DEF TakeLease
  <2>1. ASSUME lease = NoLease \/ Reclaimable,
               lease' = [owner |-> s, until |-> hour + LeaseTime],
               setups' = [setups EXCEPT ![s] =
                     [NewSetup EXCEPT !.at = "listing", !.deadline = hour + CallTime]]
        PROVE  SetupInv'
    <3>1. SetupTypeOK'
      <4>1. lease' \in Leases
        BY <1>0, <2>1 DEF SetupTypeOK, Leases, LeaseTime
      <4>2. setups' \in [Setups -> Invocations]
        <5>1. [NewSetup EXCEPT !.at = "listing", !.deadline = hour + CallTime] \in Invocations
          <6>1. NewSetup \in Invocations
            BY DEF NewSetup, Invocations
          <6>2. hour + CallTime \in Nat
            BY <1>0 DEF SetupTypeOK, CallTime
          <6> QED BY <6>1, <6>2 DEF Invocations
        <5> QED BY <1>0, <2>1, <5>1 DEF SetupTypeOK
      <4> QED BY <1>0, <2>0, <4>1, <4>2 DEF SetupTypeOK
    <3>2. OurJobs' /\ RecordIsTrue'
      BY <1>0, <2>0 DEF OurJobs, RecordIsTrue, ShownConfigured
    <3>3. /\ \A t \in Setups : t # s => setups'[t] = setups[t]
          /\ setups'[s].at = "listing" /\ setups'[s].deadline = hour + 1
      BY <1>0, <2>1 DEF SetupTypeOK, NewSetup, CallTime
    <3>4. \A t \in Setups : t # s => ~Working(t)
      BY <1>0, <2>1 DEF LeaseIsOurs, Reclaimable, SetupTypeOK, Leases
    <3>5. lease' # NoLease /\ lease'.owner = s /\ lease'.until = hour + 2
      BY <1>0, <2>1, SetupAssumption DEF LeaseTime, SetupTypeOK, Leases
    <3>6. LeaseIsOurs'
      BY <1>0, <2>0, <3>3, <3>4, <3>5 DEF LeaseIsOurs, Working, InTime, SetupTypeOK
    <3>7. PlanHolds'
      <4>1. setups'[s].recorded = {}
        BY <1>0, <2>1 DEF SetupTypeOK, NewSetup
      <4>2. \A t \in Setups : setups'[t].recorded \subseteq made'
        BY <1>0, <2>0, <3>3, <4>1 DEF PlanHolds
      <4>3. ASSUME NEW t \in Setups, setups'[t].at = "saving"
            PROVE  FoundBy(t)' /\ (InTime(t)' => Free(t)')
        <5>1. t # s /\ setups'[t] = setups[t]
          BY <3>3, <4>3
        <5> QED BY <1>0, <2>0, <4>3, <5>1 DEF PlanHolds, InTime, Unsaved, FoundBy, Free
      <4> QED BY <4>2, <4>3 DEF PlanHolds
    <3> QED BY <3>1, <3>2, <3>6, <3>7 DEF SetupInv
  <2>2. CASE SetupGoes(s, "ended") /\ UNCHANGED lease
    BY <2>0, <2>2, SetupLeaves DEF LeaseLeft, RecordLeft
  <2> QED BY <1>1, <2>1, <2>2 DEF TakeLease
<1>2. ASSUME NEW s \in Setups, ListJobs(s) PROVE SetupInv'
  <2>0. /\ At(s, "listing") /\ InTime(s)
        /\ UNCHANGED <<hour, lease, setupState, jobs, made, ownerEdits>>
    BY <1>2 DEF ListJobs
  <2>1. CASE SetupGoes(s, "releasing")
    BY <2>0, <2>1, SetupLeaves DEF LeaseLeft, RecordLeft
  <2>2. ASSUME \A n \in JobNames : ~Conflict(n),
               setups' = [setups EXCEPT ![s].at = "saving", ![s].plan = Planned]
        PROVE  SetupInv'
    <3>1. \A n \in JobNames :
            /\ Planned[n] \in Nat
            /\ Planned[n] # 0 => [id |-> Planned[n], name |-> n] \in made
            /\ Planned[n] = 0 => \A j \in jobs : j.name = n => ~j.ours
      <4> SUFFICES ASSUME NEW n \in JobNames
                   PROVE  /\ Planned[n] \in Nat
                          /\ Planned[n] # 0 => [id |-> Planned[n], name |-> n] \in made
                          /\ Planned[n] = 0 => \A j \in jobs : j.name = n => ~j.ours
        OBVIOUS
      <4>1. CASE Matches(n) = {}
        BY <4>1 DEF Planned, Matches
      <4>2. CASE Matches(n) # {}
        <5>1. PICK j \in Matches(n) : Planned[n] = j.id
          BY <4>2 DEF Planned
        <5>2. j \in jobs /\ j.name = n /\ j.ours
          BY <2>2, <5>1 DEF Matches, Conflict
        <5>3. [id |-> j.id, name |-> n] \in made
          BY <1>0, <5>2 DEF OurJobs
        <5>4. j.id \in Nat \ {0}
          BY <1>0, <5>3 DEF SetupTypeOK, Creations
        <5> QED BY <5>1, <5>3, <5>4
      <4> QED BY <4>1, <4>2
    <3>2. Planned \in [JobNames -> Nat]
      BY <1>0, <3>1 DEF Planned
    <3>3. /\ \A t \in Setups : t # s => setups'[t] = setups[t]
          /\ setups'[s] = [setups[s] EXCEPT !.at = "saving", !.plan = Planned]
      BY <1>0, <2>2 DEF SetupTypeOK
    <3>4. /\ setups'[s].at = "saving" /\ setups'[s].plan = Planned
          /\ setups'[s].deadline = setups[s].deadline /\ setups'[s].recorded = setups[s].recorded
      BY <1>0, <3>3 DEF SetupTypeOK, Invocations
    <3> HIDE DEF Planned
    <3>5. SetupTypeOK'
      BY <1>0, <2>0, <2>2, <3>2 DEF SetupTypeOK, Invocations
    <3>6. OurJobs' /\ RecordIsTrue'
      BY <1>0, <2>0 DEF OurJobs, RecordIsTrue, ShownConfigured
    <3>7. LeaseIsOurs'
      BY <1>0, <2>0, <3>3, <3>4 DEF LeaseIsOurs, Working, InTime, At
    <3>8. FoundBy(s)' /\ Free(s)'
      BY <2>0, <3>1, <3>2, <3>4 DEF FoundBy, Free, Unsaved
    <3>9. setups'[s].recorded \subseteq made'
      BY <1>0, <2>0, <3>4 DEF PlanHolds
    <3>10. PlanHolds'
      <4>1. \A t \in Setups : setups'[t].recorded \subseteq made'
        BY <1>0, <2>0, <3>3, <3>9 DEF PlanHolds
      <4>2. ASSUME NEW t \in Setups, setups'[t].at = "saving", t # s
            PROVE  FoundBy(t)' /\ (InTime(t)' => Free(t)')
        <5>1. setups'[t] = setups[t]
          BY <3>3, <4>2
        <5> QED BY <1>0, <2>0, <4>2, <5>1 DEF PlanHolds, InTime, Unsaved, FoundBy, Free
      <4> QED BY <3>8, <4>1, <4>2 DEF PlanHolds
    <3> QED BY <3>5, <3>6, <3>7, <3>10 DEF SetupInv
  <2> QED BY <1>2, <2>1, <2>2 DEF ListJobs
<1>3. ASSUME NEW s \in Setups, UpdateJob(s) PROVE SetupInv'
  <2> DEFINE n == NextName(s)
             id == setups[s].plan[n]
  <2>0. /\ At(s, "saving") /\ Unsaved(s) # {} /\ InTime(s) /\ id # 0
        /\ UNCHANGED <<hour, lease, setupState, made, ownerEdits>>
    BY <1>3 DEF UpdateJob
  <2>1. CASE SetupGoes(s, "releasing") /\ UNCHANGED jobs
    BY <2>0, <2>1, SetupLeaves DEF LeaseLeft, RecordLeft
  <2>2. ASSUME NEW j \in jobs, j.id = id, j.ours,
               jobs' = (jobs \ {j}) \cup {[j EXCEPT !.saved = TRUE]},
               Recorded(s, id) \/ SetupGoes(s, "releasing")
        PROVE  SetupInv'
    <3> DEFINE new == [j EXCEPT !.saved = TRUE]
    <3>1. new \in Jobs /\ new.id = j.id /\ new.name = j.name /\ new.ours
      BY <1>0, <2>2 DEF SetupTypeOK, Jobs
    <3> HIDE DEF new
    <3>2. jobs' = (jobs \ {j}) \cup {new}
      BY <2>2 DEF new
    <3>3. jobs' \subseteq Jobs
      BY <1>0, <3>1, <3>2 DEF SetupTypeOK
    <3>4. OurJobs'
      BY <1>0, <2>0, <2>2, <3>1, <3>2 DEF OurJobs
    <3>5. \A t \in Setups : t # s => ~Working(t)
      BY <1>0, <2>0 DEF LeaseIsOurs, Working, At
    <3>6. n \in JobNames
      BY <2>0 DEF NextName, PlanOrder, JobNames, Unsaved
    <3>7. [id |-> id, name |-> n] \in made
      BY <1>0, <2>0, <3>6 DEF PlanHolds, FoundBy, At
    <3>8. \A m \in JobNames : (\A k \in jobs : k.name = m => ~k.ours)
                               => (\A k \in jobs' : k.name = m => ~k.ours)
      BY <2>2, <3>1, <3>2
    <3>9. made' \subseteq Creations /\ IsFiniteSet(made') /\ made \subseteq made' /\ made' = made
      BY <1>0, <2>0 DEF SetupTypeOK
    <3>10. [id |-> id, name |-> n] \in made'
      BY <3>7, <3>9
    <3> QED BY <1>0, <2>0, <2>2, <3>3, <3>4, <3>5, <3>8, <3>9, <3>10, SetupSaves
  <2> QED BY <1>3, <2>1, <2>2 DEF UpdateJob
<1>4. ASSUME NEW s \in Setups, CreateJob(s) PROVE SetupInv'
  <2> DEFINE n == NextName(s)
             id == Cardinality(made) + 1
             job == [id |-> id, name |-> n, ours |-> TRUE, saved |-> TRUE]
             creation == [id |-> id, name |-> n]
  <2>0. /\ At(s, "saving") /\ Unsaved(s) # {} /\ InTime(s) /\ setups[s].plan[n] = 0
        /\ UNCHANGED <<hour, lease, setupState, ownerEdits>>
    BY <1>4 DEF CreateJob
  <2>1. CASE SetupGoes(s, "releasing") /\ UNCHANGED <<jobs, made>>
    BY <2>0, <2>1, SetupLeaves DEF LeaseLeft, RecordLeft
  <2>2. ASSUME jobs' = jobs \cup {job}, made' = made \cup {creation},
               Recorded(s, id) \/ SetupGoes(s, "releasing")
        PROVE  SetupInv'
    <3>1. n \in Unsaved(s) /\ n \in JobNames
      BY <2>0 DEF NextName, PlanOrder, JobNames, Unsaved
    <3>2. id \in Nat \ {0}
      BY <1>0, FS_CardinalityType DEF SetupTypeOK
    <3>3. job \in Jobs /\ creation \in Creations
      BY <3>1, <3>2 DEF Jobs, Creations
    <3>4. /\ job.ours /\ job.name = n /\ job.id = id
          /\ creation = [id |-> job.id, name |-> job.name]
      OBVIOUS
    <3>5. \A k \in jobs : k.name = n => ~k.ours
      BY <1>0, <2>0, <3>1 DEF PlanHolds, Free, At
    <3> HIDE DEF job, creation
    <3>6. jobs' \subseteq Jobs
      BY <1>0, <2>2, <3>3 DEF SetupTypeOK
    <3>7. OurJobs'
      BY <1>0, <2>2, <3>4, <3>5 DEF OurJobs
    <3>8. \A t \in Setups : t # s => ~Working(t)
      BY <1>0, <2>0 DEF LeaseIsOurs, Working, At
    <3>9. [id |-> id, name |-> n] \in made'
      BY <2>2 DEF creation
    <3>10. \A m \in JobNames \ {n} : (\A k \in jobs : k.name = m => ~k.ours)
                               => (\A k \in jobs' : k.name = m => ~k.ours)
      BY <2>2, <3>4
    <3>11. made' \subseteq Creations /\ IsFiniteSet(made') /\ made \subseteq made'
      BY <1>0, <2>2, <3>3, FS_AddElement DEF SetupTypeOK
    <3> QED BY <1>0, <2>0, <2>2, <3>6, <3>7, <3>8, <3>9, <3>10, <3>11, SetupSaves
  <2> QED BY <1>4, <2>1, <2>2 DEF CreateJob
<1>5. ASSUME NEW s \in Setups, RunOutOfTime(s) PROVE SetupInv'
  <2>1. LeaseLeft(s) /\ RecordLeft(s)
    BY <1>5 DEF RunOutOfTime, LeaseLeft, RecordLeft
  <2>2. hour' = hour /\ jobs' = jobs /\ made' = made
    BY <1>5 DEF RunOutOfTime
  <2>3. SetupGoes(s, "releasing") \/ SetupGoes(s, "ended")
    BY <1>5 DEF RunOutOfTime
  <2> QED BY <2>1, <2>2, <2>3, SetupLeaves
<1>6. ASSUME NEW s \in Setups, RecordState(s) PROVE SetupInv'
  <2>1. LeaseLeft(s) /\ RecordLeft(s)
    BY <1>6 DEF RecordState, LeaseLeft, RecordLeft
  <2>2. hour' = hour /\ jobs' = jobs /\ made' = made
    BY <1>6 DEF RecordState
  <2>3. SetupGoes(s, "releasing") \/ SetupGoes(s, "ended")
    BY <1>6 DEF RecordState
  <2> QED BY <2>1, <2>2, <2>3, SetupLeaves
<1>7. ASSUME NEW s \in Setups, ReleaseLease(s) PROVE SetupInv'
  <2>1. LeaseLeft(s) /\ RecordLeft(s)
    BY <1>7 DEF ReleaseLease, LeaseLeft, RecordLeft
  <2>2. hour' = hour /\ jobs' = jobs /\ made' = made
    BY <1>7 DEF ReleaseLease
  <2>3. SetupGoes(s, "releasing") \/ SetupGoes(s, "ended")
    BY <1>7 DEF ReleaseLease
  <2> QED BY <2>1, <2>2, <2>3, SetupLeaves
<1>8. ASSUME NEW s \in Setups, InstanceDies(s) PROVE SetupInv'
  <2>1. LeaseLeft(s) /\ RecordLeft(s)
    BY <1>8 DEF InstanceDies, LeaseLeft, RecordLeft
  <2>2. hour' = hour /\ jobs' = jobs /\ made' = made
    BY <1>8 DEF InstanceDies
  <2>3. SetupGoes(s, "releasing") \/ SetupGoes(s, "ended")
    BY <1>8 DEF InstanceDies
  <2> QED BY <2>1, <2>2, <2>3, SetupLeaves
<1>9. CASE HourPasses
  <2> USE <1>0, <1>9 DEF HourPasses
  <2>1. SetupTypeOK'
    BY DEF SetupTypeOK, Jobs
  <2>2. OurJobs' /\ RecordIsTrue'
    BY DEF OurJobs, RecordIsTrue, ShownConfigured
  <2>3. LeaseIsOurs'
    BY DEF LeaseIsOurs, Working, InTime, SetupTypeOK, Leases, Invocations
  <2>4. PlanHolds'
    BY DEF PlanHolds, InTime, Unsaved, FoundBy, Free, SetupTypeOK, Invocations
  <2> QED BY <2>1, <2>2, <2>3, <2>4 DEF SetupInv
<1>10. CASE OwnerEdits
  <2> USE <1>0, <1>10 DEF OwnerEdits
  <2>1. SetupTypeOK'
    <3>1. \A n \in JobNames : [id |-> 0, name |-> n, ours |-> FALSE, saved |-> FALSE] \in Jobs
      BY DEF Jobs
    <3>2. jobs' \subseteq Jobs
      BY <3>1 DEF SetupTypeOK
    <3> QED BY <3>2 DEF SetupTypeOK
  <2>2. OurJobs' /\ RecordIsTrue'
    BY DEF OurJobs, RecordIsTrue, ShownConfigured
  <2>3. LeaseIsOurs'
    BY DEF LeaseIsOurs, Working, InTime, SetupTypeOK, Leases, Invocations
  <2>4. PlanHolds'
    BY DEF PlanHolds, InTime, Unsaved, FoundBy, Free, SetupTypeOK, Invocations
  <2> QED BY <2>1, <2>2, <2>3, <2>4 DEF SetupInv
<1>11. CASE UNCHANGED setupVars
  <2> USE <1>0, <1>11 DEF setupVars
  <2>1. SetupTypeOK'
    BY DEF SetupTypeOK, Jobs
  <2>2. OurJobs' /\ RecordIsTrue'
    BY DEF OurJobs, RecordIsTrue, ShownConfigured
  <2>3. LeaseIsOurs'
    BY DEF LeaseIsOurs, Working, InTime, SetupTypeOK, Leases, Invocations
  <2>4. PlanHolds'
    BY DEF PlanHolds, InTime, Unsaved, FoundBy, Free, SetupTypeOK, Invocations
  <2> QED BY <2>1, <2>2, <2>3, <2>4 DEF SetupInv
<1> QED BY <1>1, <1>2, <1>3, <1>4, <1>5, <1>6, <1>7, <1>8, <1>9, <1>10, <1>11 DEF SetupNext

LEMMA SetupIsSound == SetupInv => SetupIsSafe
<1> SUFFICES ASSUME SetupInv PROVE SetupIsSafe
  OBVIOUS
<1>1. \A n \in JobNames : Cardinality({j \in Matches(n) : j.ours}) <= 1
  <2> SUFFICES ASSUME NEW n \in JobNames PROVE Cardinality({j \in Matches(n) : j.ours}) <= 1
    OBVIOUS
  <2> DEFINE Found1 == {j \in Matches(n) : j.ours}
  <2>1. \A i, j \in Found1 : i = j
    BY DEF SetupInv, OurJobs, Matches
  <2> HIDE DEF Found1
  <2>2. CASE Found1 = {}
    BY <2>2, FS_EmptySet DEF Found1
  <2>3. ASSUME NEW j \in Found1 PROVE Cardinality(Found1) <= 1
    <3>1. Found1 = {j}
      BY <2>1
    <3> QED BY <3>1, FS_Singleton
  <2> QED BY <2>2, <2>3 DEF Found1
<1> QED BY <1>1 DEF SetupInv, OurJobs, SetupIsSafe, NoDuplicateJobs

\* However setups, lapsed leases, lost answers and the owner's edits interleave:
\* no route is called by two jobs of ours, a job that is not ours is never
\* written, and the record names jobs that were made (setupScheduledJobs).
THEOREM SetupStaysSafe == SetupSpec => []SetupIsSafe
BY SetupInvInit, SetupInvStep, SetupIsSound, PTL DEF SetupSpec

(***************************************************************************)
(* ConsoleSessions.  A session signed out whose revocation is gone is one  *)
(* that has ended, so a request the revocations let through has seen its   *)
(* session in force or at its end.  What the later checks find of the      *)
(* actor and of the target they find on the row as it is at that moment.   *)
(***************************************************************************)

Roles == {"none", "user", "admin", "root"}
Accounts == [name : Names \cup {""}, github : {"", Profile.id}, role : Roles, enabled : BOOLEAN]
Cookies == [sub : 0..4, alive : BOOLEAN]
Witnesses == [session : BOOLEAN, actor : BOOLEAN, member : BOOLEAN]
Consoled == [at : {"idle", "issue", "insert", "profile", "logout", "patch", "revoke",
                   "actor", "check", "write"},
             sid : 0..MaxSessions, id : 0..4, role : Roles, name : Names \cup {""},
             github : {"", Profile.id}, target : 0..4, nextRole : {"user", "admin"}]

TablesTypeOK ==
    /\ account \in [Ids -> Accounts]
    /\ session \in [Sids -> Cookies]
    /\ revoked \subseteq signedOut /\ signedOut \subseteq Sids
    /\ oauthState \in {"none", "open", "consumed"}
    /\ call \in [Calls -> Consoled]
    /\ witnessed \in [Calls -> Witnesses]

\* A session that was issued, an account that was created.
Issued(sid) == session[sid].sub # 0
Created(id) == account[id].name # ""

PurgedAreOver ==
    /\ \A sid \in Sids : session[sid].alive => Issued(sid)
    /\ \A sid \in signedOut : Issued(sid) /\ (sid \notin revoked => ~session[sid].alive)

SignUps ==
    /\ claims = IF oauthState = "consumed" THEN 1 ELSE 0
    /\ \A id \in Ids : ~Created(id) => account[id] = NoAccount
    /\ \A i, j \in Ids : i # j /\ Created(i) /\ Created(j) =>
          /\ account[i].name # account[j].name
          /\ account[i].github = "" \/ account[i].github # account[j].github

InForce(k) == k.at \in {"actor", "check", "write"}
Acting(k) == k.at \in {"check", "write"}

\* What a request carries at its place, and what it has witnessed.
Carries(c) ==
    /\ call[c].at \in {"logout", "patch", "revoke"} => call[c].sid \in Sids /\ Issued(call[c].sid)
    /\ call[c].at \in {"issue", "actor"} => call[c].id \in Ids
    /\ call[c].at = "insert" => call[c].name # ""
    /\ call[c].at = "write" => call[c].target \in Ids /\ Created(call[c].target)
Watched(c) ==
    /\ InForce(call[c]) /\ call[c].sid # 0 => witnessed[c].session
    /\ Acting(call[c]) => witnessed[c].actor /\ call[c].role \in {"admin", "root"}
    /\ call[c].at = "write" =>
         call[c].role = "root" \/ (witnessed[c].member /\ call[c].nextRole = "user")

SessionInv ==
    /\ TablesTypeOK /\ PurgedAreOver /\ SignUps
    /\ \A c \in Calls : Carries(c) /\ Watched(c)

\* No table forgets a session issued or an account created.
TablesGrow ==
    /\ \A sid \in Sids : Issued(sid) => Issued(sid)'
    /\ \A id \in Ids : Created(id) => Created(id)'

LEMMA Numbers == /\ \A id \in Ids : id \in 0..4 /\ id # 0
                 /\ \A id \in 0..4 : id # 0 => id \in Ids
                 /\ \A sid \in Sids : sid \in 0..MaxSessions /\ sid # 0
BY SessionAssumption DEF Ids, Sids

LEMMA RankOrder ==
    /\ \A role \in Roles : RoleRank(role) >= RoleRank("admin") <=> role \in {"admin", "root"}
    /\ \A role \in {"admin", "root"} : RoleRank(role) >= 1
BY DEF RoleRank, Roles

\* What Watch makes of a request that is not over.
LEMMA WatchSees ==
    ASSUME Watch, TablesTypeOK, NEW c \in Calls, call'[c].at # "idle"
    PROVE  /\ witnessed[c].session \/ (call'[c].sid # 0 /\
                 (call'[c].sid \notin signedOut' \/ ~session'[call'[c].sid].alive)) => witnessed'[c].session
           /\ witnessed[c].actor \/ (call'[c].id # 0 /\ account'[call'[c].id].enabled
                 /\ account'[call'[c].id].role = call'[c].role) => witnessed'[c].actor
           /\ witnessed[c].member \/ (call'[c].target # 0
                 /\ account'[call'[c].target].role = "user") => witnessed'[c].member
BY DEF Watch

LEMMA WatchType == ASSUME Watch, TablesTypeOK PROVE witnessed' \in [Calls -> Witnesses]
BY DEF Watch, TablesTypeOK, Witnesses, Unseen

\* Everybody whose request is not this step's.
LEMMA OthersStand ==
    ASSUME Watch, TablesTypeOK, TablesGrow, NEW c \in Calls, call'[c] = call[c],
           Carries(c), Watched(c)
    PROVE  Carries(c)' /\ Watched(c)'
<1>1. Carries(c)'
  BY DEF Carries, TablesGrow
<1>2. Watched(c)'
  <2>1. CASE call[c].at = "idle"
    BY <2>1 DEF Watched, InForce, Acting
  <2>2. CASE call[c].at # "idle"
    BY <2>2, WatchSees DEF Watched, InForce, Acting
  <2> QED BY <2>1, <2>2
<1> QED BY <1>1, <1>2

LEMMA NothingThere == NoSession \in Cookies /\ NoSession.sub = 0 /\ NoAccount.name = ""
<1>1. 0 \in 0..4 /\ FALSE \in BOOLEAN
  OBVIOUS
<1>2. NoSession \in Cookies
  BY <1>1, Zenon DEF Cookies, NoSession
<1>3. NoSession.sub = 0
  BY DEF NoSession
<1>4. NoAccount.name = ""
  BY DEF NoAccount
<1> QED BY <1>2, <1>3, <1>4

LEMMA IdleType == Idle \in Consoled
BY SessionAssumption DEF Idle, Consoled, Roles, Profile

LEMMA SessionInvInit == SessionInit => SessionInv
<1> SUFFICES ASSUME SessionInit PROVE SessionInv
  OBVIOUS
<1> USE DEF SessionInit
<1>1. account \in [Ids -> Accounts]
  BY DEF Accounts, Names, Profile, Roles, NoAccount, Ids
<1>2. session \in [Sids -> Cookies]
  BY NothingThere
<1>3. call \in [Calls -> Consoled]
  BY IdleType
<1>4. witnessed \in [Calls -> Witnesses]
  BY DEF Unseen, Witnesses
<1>5. TablesTypeOK
  BY <1>1, <1>2, <1>3, <1>4 DEF TablesTypeOK
<1>6. SignUps
  BY ZenonT(60) DEF SignUps, Created, NoAccount, Ids
<1>7. PurgedAreOver
  <2>1. ~NoSession.alive
    BY DEF NoSession
  <2> QED BY <2>1 DEF PurgedAreOver
<1>8. \A c \in Calls : Carries(c) /\ Watched(c)
  BY DEF Carries, Watched, InForce, Acting, Idle
<1> QED BY <1>5, <1>6, <1>7, <1>8 DEF SessionInv

LEMMA AllStand ==
    ASSUME SessionInv, Watch, TablesTypeOK', PurgedAreOver', SignUps', TablesGrow,
           \A d \in Calls : call'[d] = call[d] \/ (Carries(d)' /\ Watched(d)')
    PROVE  SessionInv'
BY OthersStand DEF SessionInv

\* A step of one request that leaves the tables alone.
LEMMA CallMoves ==
    ASSUME SessionInv, Watch, UNCHANGED tables, NEW c \in Calls, NEW k \in Consoled,
           call' = [call EXCEPT ![c] = k], Carries(c)', Watched(c)'
    PROVE  SessionInv'
<1> USE DEF SessionInv, tables
<1>1. TablesTypeOK'
  BY WatchType DEF TablesTypeOK
<1>2. PurgedAreOver' /\ SignUps'
  BY DEF PurgedAreOver, SignUps, Issued, Created
<1>3. TablesGrow
  BY DEF TablesGrow, Issued, Created
<1>4. \A d \in Calls : call'[d] = call[d] \/ (Carries(d)' /\ Watched(d)')
  BY DEF TablesTypeOK
<1> HIDE DEF SessionInv
<1> QED BY <1>1, <1>2, <1>3, <1>4, AllStand

LEMMA RequestEnds ==
    ASSUME TablesTypeOK, NEW c \in Calls, Ends(c)
    PROVE  Carries(c)' /\ Watched(c)'
BY DEF Ends, Carries, Watched, InForce, Acting, Idle, TablesTypeOK

LEMMA MoveEnds ==
    ASSUME SessionInv, Watch, UNCHANGED tables, NEW c \in Calls, Ends(c)
    PROVE  SessionInv'
<1>1. Carries(c)' /\ Watched(c)'
  BY RequestEnds DEF SessionInv
<1> QED BY <1>1, IdleType, CallMoves DEF Ends

\* The steps of the sign-in routes.
LEMMA SignInStep ==
    ASSUME SessionInv, NEW c \in Calls,
           Login(c) \/ Register(c) \/ ClaimState(c) \/ FindProfile(c) \/ CreateUser(c) \/ CreateSession(c)
    PROVE  SessionInv'
<1>0. TablesTypeOK /\ PurgedAreOver /\ SignUps /\ Carries(c) /\ Watched(c)
  BY DEF SessionInv
<1>1. CASE Login(c)
  <2>1. PICK id \in Ids : call' = [call EXCEPT ![c] = [Idle EXCEPT !.at = "issue", !.id = id]]
    BY <1>1 DEF Login
  <2> DEFINE k == [Idle EXCEPT !.at = "issue", !.id = id]
  <2>2. k \in Consoled /\ k.at = "issue" /\ k.id = id
    <3>1. id \in 0..4
      BY DEF Ids
    <3> QED BY <3>1, IdleType DEF Consoled
  <2> HIDE DEF k
  <2>3. call'[c] = k
    BY <1>0, <2>1 DEF k, TablesTypeOK
  <2>4. Carries(c)' /\ Watched(c)'
    BY <2>2, <2>3 DEF Carries, Watched, InForce, Acting
  <2> QED BY <1>1, <2>1, <2>2, <2>4, CallMoves DEF Login, k
<1>2. CASE Register(c)
  <2>1. PICK name \in {"bob", "cy"} :
           call' = [call EXCEPT ![c] = [Idle EXCEPT !.at = "insert", !.name = name]]
    BY <1>2 DEF Register
  <2> DEFINE k == [Idle EXCEPT !.at = "insert", !.name = name]
  <2>2. k \in Consoled /\ k.at = "insert" /\ k.name # ""
    BY IdleType DEF Consoled, Names
  <2> HIDE DEF k
  <2>3. call'[c] = k
    BY <1>0, <2>1 DEF k, TablesTypeOK
  <2>4. Carries(c)' /\ Watched(c)'
    BY <2>2, <2>3 DEF Carries, Watched, InForce, Acting
  <2> QED BY <1>2, <2>1, <2>2, <2>4, CallMoves DEF Register, k
<1>3. CASE ClaimState(c)
  <2> DEFINE k == [Idle EXCEPT !.at = "profile", !.github = Profile.id]
  <2>1. /\ oauthState = "open" /\ oauthState' = "consumed" /\ claims' = claims + 1
        /\ UNCHANGED <<account, session, revoked, signedOut, patches>> /\ Watch
        /\ call' = [call EXCEPT ![c] = k]
    BY <1>3 DEF ClaimState
  <2>2. k \in Consoled /\ k.at = "profile"
    BY IdleType DEF Consoled, Profile
  <2> HIDE DEF k
  <2>3. call'[c] = k /\ \A d \in Calls : d # c => call'[d] = call[d]
    BY <1>0, <2>1 DEF TablesTypeOK
  <2>4. Carries(c)' /\ Watched(c)'
    BY <2>2, <2>3 DEF Carries, Watched, InForce, Acting
  <2>5. TablesTypeOK'
    BY <1>0, <2>1, <2>2, WatchType DEF TablesTypeOK
  <2>6. PurgedAreOver'
    BY <1>0, <2>1 DEF PurgedAreOver, Issued
  <2>8. SignUps'
    <3>1. claims' = 1
      <4>1. claims = 0
        BY <1>0, <2>1 DEF SignUps
      <4> QED BY <2>1, <4>1
    <3> QED BY <1>0, <2>1, <3>1 DEF SignUps, Created
  <2>7. TablesGrow
    BY <2>1 DEF TablesGrow, Issued, Created
  <2> QED BY <2>1, <2>3, <2>4, <2>5, <2>6, <2>7, <2>8, AllStand
<1>4. CASE FindProfile(c)
  <2>0. call[c].at = "profile" /\ UNCHANGED tables /\ Watch
    BY <1>4 DEF FindProfile
  <2>1. ASSUME NEW id \in Ids, call' = [call EXCEPT ![c].at = "issue", ![c].id = id]
        PROVE  SessionInv'
    <3> DEFINE k == [call[c] EXCEPT !.at = "issue", !.id = id]
    <3>1. k \in Consoled /\ k.at = "issue" /\ k.id = id
      <4>1. id \in 0..4
        BY DEF Ids
      <4> QED BY <1>0, <4>1 DEF Consoled, TablesTypeOK
    <3>2. call' = [call EXCEPT ![c] = k]
      BY <1>0, <2>1 DEF TablesTypeOK
    <3> HIDE DEF k
    <3>3. call'[c] = k
      BY <1>0, <3>2 DEF TablesTypeOK
    <3>4. Carries(c)' /\ Watched(c)'
      BY <3>1, <3>3 DEF Carries, Watched, InForce, Acting
    <3> QED BY <2>0, <3>1, <3>2, <3>4, CallMoves
  <2>2. ASSUME NEW name \in {"cy", "cy-random"},
               call' = [call EXCEPT ![c].at = "insert", ![c].name = name]
        PROVE  SessionInv'
    <3> DEFINE k == [call[c] EXCEPT !.at = "insert", !.name = name]
    <3>1. k \in Consoled /\ k.at = "insert" /\ k.name # ""
      BY <1>0, ZenonT(60) DEF Consoled, Names, TablesTypeOK
    <3>2. call' = [call EXCEPT ![c] = k]
      BY <1>0, <2>2 DEF TablesTypeOK
    <3> HIDE DEF k
    <3>3. call'[c] = k
      BY <1>0, <3>2 DEF TablesTypeOK
    <3>4. Carries(c)' /\ Watched(c)'
      BY <3>1, <3>3 DEF Carries, Watched, InForce, Acting
    <3> QED BY <2>0, <3>1, <3>2, <3>4, CallMoves
  <2>3. CASE Ends(c)
    BY <2>0, <2>3, MoveEnds
  <2> QED BY <1>4, <2>1, <2>2, <2>3 DEF FindProfile, Profile
<1>5. CASE CreateUser(c)
  <2>0. /\ call[c].at = "insert"
        /\ UNCHANGED <<session, revoked, signedOut, oauthState, claims, patches>> /\ Watch
    BY <1>5 DEF CreateUser
  <2>1. CASE Ends(c) /\ UNCHANGED account
    BY <2>0, <2>1, MoveEnds DEF tables
  <2>2. ASSUME IsUnique(c), NEW id \in Ids, account[id] = NoAccount,
               account' = [account EXCEPT ![id] =
                      [name |-> call[c].name, github |-> call[c].github, role |-> "user", enabled |-> TRUE]],
               call' = [call EXCEPT ![c].at = "issue", ![c].id = id]
        PROVE  SessionInv'
    <3> DEFINE k == [call[c] EXCEPT !.at = "issue", !.id = id]
               new == [name |-> call[c].name, github |-> call[c].github, role |-> "user", enabled |-> TRUE]
    <3>1. k \in Consoled /\ k.at = "issue" /\ k.id = id
      <4>1. id \in 0..4
        BY DEF Ids
      <4> QED BY <1>0, <4>1 DEF Consoled, TablesTypeOK
    <3>2. call' = [call EXCEPT ![c] = k]
      BY <1>0, <2>2 DEF TablesTypeOK
    <3>3. /\ new \in Accounts /\ new.name = call[c].name /\ new.github = call[c].github
          /\ new.name # ""
      BY <1>0, <2>0 DEF Accounts, Roles, TablesTypeOK, Consoled, Carries
    <3> HIDE DEF k, new
    <3>4. call'[c] = k /\ \A d \in Calls : d # c => call'[d] = call[d]
      BY <1>0, <3>2 DEF TablesTypeOK
    <3>5. Carries(c)' /\ Watched(c)'
      BY <3>1, <3>4 DEF Carries, Watched, InForce, Acting
    <3>6. account' = [account EXCEPT ![id] = new]
      BY <2>2 DEF new
    <3>7. TablesTypeOK'
      BY <1>0, <2>0, <3>1, <3>2, <3>3, <3>6, WatchType DEF TablesTypeOK
    <3>8. account'[id] = new /\ \A i \in Ids : i # id => account'[i] = account[i]
      BY <1>0, <3>6 DEF TablesTypeOK
    <3>9. ~Created(id)
      BY <2>2, NothingThere DEF Created
    <3>10. PurgedAreOver' /\ TablesGrow
      BY <1>0, <2>0, <3>8, <3>9 DEF PurgedAreOver, TablesGrow, Issued, Created
    <3>11. \A i \in Ids : ~Created(i)' => account'[i] = NoAccount
      BY <1>0, <3>3, <3>8 DEF SignUps, Created
    <3>12. ASSUME NEW i \in Ids, NEW j \in Ids, i # j, Created(i)', Created(j)'
           PROVE  /\ account'[i].name # account'[j].name
                  /\ account'[i].github = "" \/ account'[i].github # account'[j].github
      <4>1. CASE i # id /\ j # id
        BY <1>0, <3>8, <3>12, <4>1 DEF SignUps, Created
      <4>2. CASE i = id
        BY <2>2, <3>3, <3>8, <3>12, <4>2 DEF IsUnique
      <4>3. CASE j = id
        BY <2>2, <3>3, <3>8, <3>12, <4>3, ZenonT(60) DEF IsUnique
      <4> QED BY <4>1, <4>2, <4>3
    <3>13. SignUps'
      BY <1>0, <2>0, <3>11, <3>12 DEF SignUps
    <3> QED BY <2>0, <3>4, <3>5, <3>7, <3>10, <3>13, AllStand
  <2> QED BY <1>5, <2>1, <2>2 DEF CreateUser
<1>6. CASE CreateSession(c)
  <2>1. PICK sid \in Sids : /\ session[sid] = NoSession
                            /\ session' = [session EXCEPT ![sid] = [sub |-> call[c].id, alive |-> TRUE]]
    BY <1>6 DEF CreateSession
  <2>2. /\ call[c].at = "issue" /\ Ends(c) /\ Watch
        /\ UNCHANGED <<account, revoked, signedOut, oauthState, claims, patches>>
    BY <1>6 DEF CreateSession
  <2>3. Carries(c)' /\ Watched(c)'
    BY <1>0, <2>2, RequestEnds
  <2>4. \A d \in Calls : d # c => call'[d] = call[d]
    BY <1>0, <2>2 DEF Ends, TablesTypeOK
  <2>5. TablesTypeOK'
    <3>1. session' \in [Sids -> Cookies]
      BY <1>0, <2>1, <2>2 DEF TablesTypeOK, Cookies, Carries, Ids
    <3>2. call' \in [Calls -> Consoled]
      BY <1>0, <2>2, IdleType DEF TablesTypeOK, Ends
    <3> QED BY <1>0, <2>2, <3>1, <3>2, WatchType DEF TablesTypeOK
  <2>6. ~Issued(sid) /\ \A other \in Sids : other # sid => session'[other] = session[other]
    BY <1>0, <2>1, NothingThere DEF Issued, TablesTypeOK
  <2>7. PurgedAreOver'
    <3>1. session'[sid].sub = call[c].id /\ call[c].id # 0
      BY <1>0, <2>1, <2>2, Numbers DEF TablesTypeOK, Carries
    <3> QED BY <1>0, <2>2, <2>6, <3>1 DEF PurgedAreOver, Issued, TablesTypeOK
  <2>8. SignUps' /\ TablesGrow
    BY <1>0, <2>2, <2>6 DEF SignUps, TablesGrow, Issued, Created
  <2> QED BY <2>2, <2>3, <2>4, <2>5, <2>7, <2>8, AllStand
<1> QED BY <1>1, <1>2, <1>3, <1>4, <1>5, <1>6

\* The steps of a request that has a session or a key.
LEMMA GuardStep ==
    ASSUME SessionInv, NEW c \in Calls,
           VerifyToken(c) \/ FindRevocation(c) \/ RevokeSession(c) \/ AuthenticateByKey(c)
             \/ RequireAdmin(c) \/ AssertCanManageUser(c) \/ UpdateUser(c)
    PROVE  SessionInv'
<1>0. TablesTypeOK /\ PurgedAreOver /\ SignUps /\ Carries(c) /\ Watched(c)
  BY DEF SessionInv
<1>c. call[c] \in Consoled
  BY <1>0 DEF TablesTypeOK
<1>1. CASE VerifyToken(c)
  <2>1. PICK sid \in Sids, route \in {"logout", "patch"} :
           session[sid].alive /\ call' = [call EXCEPT ![c] = [Idle EXCEPT !.at = route, !.sid = sid]]
    BY <1>1 DEF VerifyToken
  <2> DEFINE k == [Idle EXCEPT !.at = route, !.sid = sid]
  <2>2. k \in Consoled /\ k.at = route /\ k.sid = sid
    <3>1. sid \in 0..MaxSessions
      BY SessionAssumption DEF Sids
    <3> QED BY <3>1, IdleType DEF Consoled
  <2> HIDE DEF k
  <2>3. call'[c] = k
    BY <1>0, <2>1 DEF k, TablesTypeOK
  <2>4. session' = session
    BY <1>1 DEF VerifyToken, tables
  <2>5. Issued(sid)
    BY <1>0, <2>1 DEF PurgedAreOver
  <2>6. Carries(c)' /\ Watched(c)'
    BY <2>1, <2>2, <2>3, <2>4, <2>5 DEF Carries, Watched, InForce, Acting, Issued
  <2> QED BY <1>1, <2>1, <2>2, <2>6, CallMoves DEF VerifyToken, k
<1>2. CASE FindRevocation(c)
  <2>0. call[c].at \in {"logout", "patch"} /\ UNCHANGED tables /\ Watch
    BY <1>2 DEF FindRevocation
  <2>1. CASE Ends(c)
    BY <2>0, <2>1, MoveEnds
  <2>2. CASE call[c].at = "logout" /\ Goes(c, "revoke")
    <3> DEFINE k == [call[c] EXCEPT !.at = "revoke"]
    <3>1. k \in Consoled /\ k.at = "revoke" /\ k.sid = call[c].sid
      BY <1>c DEF Consoled
    <3>2. call' = [call EXCEPT ![c] = k]
      BY <1>0, <2>2 DEF Goes, TablesTypeOK
    <3> HIDE DEF k
    <3>3. call'[c] = k /\ session' = session
      BY <1>0, <2>0, <3>2 DEF TablesTypeOK, tables
    <3>4. Carries(c)' /\ Watched(c)'
      BY <1>0, <2>0, <3>1, <3>3 DEF Carries, Watched, InForce, Acting, Issued
    <3> QED BY <2>0, <3>1, <3>2, <3>4, CallMoves
  <2>3. ASSUME call[c].sid \notin revoked,
               call' = [call EXCEPT ![c].at = "actor", ![c].id = session[call[c].sid].sub]
        PROVE  SessionInv'
    <3> DEFINE sid == call[c].sid
               k == [call[c] EXCEPT !.at = "actor", !.id = session[sid].sub]
    <3>0. sid \in Sids /\ Issued(sid) /\ session[sid].sub \in 0..4 /\ sid # 0
      <4>1. sid \in Sids /\ Issued(sid)
        BY <1>0, <2>0 DEF Carries
      <4> QED BY <1>0, <4>1, Numbers DEF TablesTypeOK, Cookies
    <3>1. k \in Consoled /\ k.at = "actor" /\ k.sid = sid /\ k.id = session[sid].sub
      BY <1>c, <3>0 DEF Consoled
    <3>2. call' = [call EXCEPT ![c] = k]
      BY <1>0, <2>3 DEF TablesTypeOK
    <3> HIDE DEF k
    <3>3. call'[c] = k
      BY <1>0, <3>2 DEF TablesTypeOK
    <3>4. sid \notin signedOut' \/ ~session'[sid].alive
      BY <1>0, <2>0, <2>3 DEF PurgedAreOver, tables
    <3>5. witnessed'[c].session
      BY <1>0, <2>0, <3>0, <3>1, <3>3, <3>4, WatchSees
    <3>6. Carries(c)' /\ Watched(c)'
      BY <3>0, <3>1, <3>3, <3>5, Numbers DEF Carries, Watched, InForce, Acting, Issued
    <3> QED BY <2>0, <3>1, <3>2, <3>6, CallMoves
  <2> QED BY <1>2, <2>0, <2>1, <2>2, <2>3 DEF FindRevocation
<1>3. CASE RevokeSession(c)
  <2>0. /\ call[c].at = "revoke" /\ Ends(c) /\ Watch
        /\ revoked' = revoked \cup {call[c].sid} /\ signedOut' = signedOut \cup {call[c].sid}
        /\ UNCHANGED <<account, session, oauthState, claims, patches>>
    BY <1>3 DEF RevokeSession
  <2>1. Carries(c)' /\ Watched(c)'
    BY <1>0, <2>0, RequestEnds
  <2>2. call' \in [Calls -> Consoled] /\ \A d \in Calls : d # c => call'[d] = call[d]
    BY <1>0, <2>0, IdleType DEF Ends, TablesTypeOK
  <2>3. call[c].sid \in Sids /\ Issued(call[c].sid)
    BY <1>0, <2>0 DEF Carries
  <2>4. TablesTypeOK'
    BY <1>0, <2>0, <2>2, <2>3, WatchType DEF TablesTypeOK
  <2>5. PurgedAreOver'
    BY <1>0, <2>0, <2>3 DEF PurgedAreOver, Issued
  <2>6. SignUps' /\ TablesGrow
    BY <1>0, <2>0 DEF SignUps, TablesGrow, Issued, Created
  <2> QED BY <2>0, <2>1, <2>2, <2>4, <2>5, <2>6, AllStand
<1>4. CASE AuthenticateByKey(c)
  <2>1. PICK id \in Ids : call' = [call EXCEPT ![c] = [Idle EXCEPT !.at = "actor", !.id = id]]
    BY <1>4 DEF AuthenticateByKey
  <2> DEFINE k == [Idle EXCEPT !.at = "actor", !.id = id]
  <2>2. k \in Consoled /\ k.at = "actor" /\ k.id = id /\ k.sid = 0
    <3>1. id \in 0..4 /\ Idle.sid = 0
      BY DEF Ids, Idle
    <3> QED BY <3>1, IdleType DEF Consoled
  <2> HIDE DEF k
  <2>3. call'[c] = k
    BY <1>0, <2>1 DEF k, TablesTypeOK
  <2>4. Carries(c)' /\ Watched(c)'
    BY <2>2, <2>3 DEF Carries, Watched, InForce, Acting
  <2> QED BY <1>4, <2>1, <2>2, <2>4, CallMoves DEF AuthenticateByKey, k
<1>5. CASE RequireAdmin(c)
  <2> DEFINE actor == account[call[c].id]
  <2>0. call[c].at = "actor" /\ UNCHANGED tables /\ Watch
    BY <1>5 DEF RequireAdmin
  <2>1. CASE Ends(c)
    BY <2>0, <2>1, MoveEnds
  <2>2. ASSUME actor.enabled, RoleRank(actor.role) >= RoleRank("admin"),
               call' = [call EXCEPT ![c].at = "check", ![c].role = actor.role]
        PROVE  SessionInv'
    <3> DEFINE k == [call[c] EXCEPT !.at = "check", !.role = actor.role]
    <3>0. call[c].id \in Ids /\ actor.role \in Roles /\ call[c].id # 0
      <4>1. call[c].id \in Ids
        BY <1>0, <2>0 DEF Carries
      <4> QED BY <1>0, <4>1, Numbers DEF TablesTypeOK, Accounts
    <3>1. /\ k \in Consoled /\ k.at = "check" /\ k.sid = call[c].sid /\ k.id = call[c].id
          /\ k.role = actor.role
      BY <1>c, <3>0 DEF Consoled
    <3>2. call' = [call EXCEPT ![c] = k]
      BY <1>0, <2>2 DEF TablesTypeOK
    <3> HIDE DEF k
    <3>3. call'[c] = k /\ account' = account
      BY <1>0, <2>0, <3>2 DEF TablesTypeOK, tables
    <3>4. actor.role \in {"admin", "root"}
      BY <2>2, <3>0, RankOrder
    <3>5. witnessed'[c].actor /\ (witnessed[c].session => witnessed'[c].session)
      BY <1>0, <2>0, <2>2, <3>0, <3>1, <3>3, WatchSees
    <3>6. Carries(c)' /\ Watched(c)'
      BY <1>0, <2>0, <3>1, <3>3, <3>4, <3>5 DEF Carries, Watched, InForce, Acting
    <3> QED BY <2>0, <3>1, <3>2, <3>6, CallMoves
  <2> QED BY <1>5, <2>1, <2>2 DEF RequireAdmin
<1>6. CASE AssertCanManageUser(c)
  <2>0. call[c].at = "check" /\ UNCHANGED tables /\ Watch
    BY <1>6 DEF AssertCanManageUser
  <2>1. CASE Ends(c)
    BY <2>0, <2>1, MoveEnds
  <2>2. ASSUME NEW target \in Ids, NEW nextRole \in {"user", "admin"}, account[target] # NoAccount,
               call[c].role = "root" \/ (account[target].role = "user" /\ nextRole = "user"),
               call' = [call EXCEPT ![c].at = "write", ![c].target = target, ![c].nextRole = nextRole]
        PROVE  SessionInv'
    <3> DEFINE k == [call[c] EXCEPT !.at = "write", !.target = target, !.nextRole = nextRole]
    <3>0. target \in 0..4 /\ target # 0 /\ Created(target)
      BY <1>0, <2>2, Numbers DEF SignUps
    <3>1. /\ k \in Consoled /\ k.at = "write" /\ k.sid = call[c].sid /\ k.target = target
          /\ k.role = call[c].role /\ k.nextRole = nextRole
      BY <1>c, <3>0 DEF Consoled
    <3>2. call' = [call EXCEPT ![c] = k]
      BY <1>0, <2>2 DEF TablesTypeOK
    <3> HIDE DEF k
    <3>3. call'[c] = k /\ account' = account
      BY <1>0, <2>0, <3>2 DEF TablesTypeOK, tables
    <3>5. /\ witnessed[c].actor => witnessed'[c].actor
          /\ witnessed[c].session => witnessed'[c].session
          /\ account[target].role = "user" => witnessed'[c].member
      BY <1>0, <2>0, <3>0, <3>1, <3>3, WatchSees
    <3>6. Carries(c)'
      BY <3>0, <3>1, <3>3 DEF Carries, Created
    <3>7. Watched(c)'
      BY <1>0, <2>0, <2>2, <3>1, <3>3, <3>5 DEF Watched, InForce, Acting
    <3> QED BY <2>0, <3>1, <3>2, <3>6, <3>7, CallMoves
  <2> QED BY <1>6, <2>1, <2>2 DEF AssertCanManageUser
<1>7. CASE UpdateUser(c)
  <2>0. /\ call[c].at = "write" /\ Ends(c) /\ Watch
        /\ UNCHANGED <<session, revoked, signedOut, oauthState, claims>>
    BY <1>7 DEF UpdateUser
  <2> DEFINE target == call[c].target
             edited(enabled) == [account[target] EXCEPT !.role = call[c].nextRole, !.enabled = enabled]
  <2>1. PICK enabled \in BOOLEAN :
           account' = [account EXCEPT ![target].role = call[c].nextRole, ![target].enabled = enabled]
    BY <1>7 DEF UpdateUser
  <2>2. target \in Ids /\ Created(target) /\ account[target] \in Accounts /\ call[c].nextRole \in Roles
    BY <1>0, <1>c, <2>0 DEF Carries, TablesTypeOK, Consoled, Roles
  <2>3. account' = [account EXCEPT ![target] = edited(enabled)]
    BY <1>0, <2>1, <2>2 DEF TablesTypeOK
  <2>4. /\ edited(enabled) \in Accounts /\ edited(enabled).name = account[target].name
        /\ edited(enabled).github = account[target].github
    BY <2>2 DEF Accounts
  <2> HIDE DEF edited
  <2>5. /\ account' \in [Ids -> Accounts]
        /\ \A i \in Ids : account'[i].name = account[i].name /\ account'[i].github = account[i].github
        /\ \A i \in Ids : i # target => account'[i] = account[i]
    BY <1>0, <2>2, <2>3, <2>4 DEF TablesTypeOK
  <2>6. Carries(c)' /\ Watched(c)'
    BY <1>0, <2>0, RequestEnds
  <2>7. call' \in [Calls -> Consoled] /\ \A d \in Calls : d # c => call'[d] = call[d]
    BY <1>0, <2>0, IdleType DEF Ends, TablesTypeOK
  <2>8. TablesTypeOK'
    BY <1>0, <2>0, <2>5, <2>7, WatchType DEF TablesTypeOK
  <2>9. PurgedAreOver' /\ TablesGrow
    BY <1>0, <2>0, <2>5 DEF PurgedAreOver, TablesGrow, Issued, Created
  <2>10. SignUps'
    <3>1. \A i \in Ids : Created(i)' <=> Created(i)
      BY <2>5 DEF Created
    <3>2. \A i \in Ids : ~Created(i)' => account'[i] = NoAccount
      BY <1>0, <2>2, <2>5, <3>1 DEF SignUps
    <3>3. \A i, j \in Ids : i # j /\ Created(i)' /\ Created(j)' =>
            /\ account'[i].name # account'[j].name
            /\ account'[i].github = "" \/ account'[i].github # account'[j].github
      <4>1. \A i, j \in Ids : i # j /\ Created(i) /\ Created(j) =>
              /\ account[i].name # account[j].name
              /\ account[i].github = "" \/ account[i].github # account[j].github
        BY <1>0 DEF SignUps
      <4> QED BY <2>5, <3>1, <4>1, ZenonT(60)
    <3>4. claims' = IF oauthState' = "consumed" THEN 1 ELSE 0
      BY <1>0, <2>0 DEF SignUps
    <3> QED BY <3>2, <3>3, <3>4 DEF SignUps
  <2> QED BY <2>0, <2>6, <2>7, <2>8, <2>9, <2>10, AllStand
<1> QED BY <1>1, <1>2, <1>3, <1>4, <1>5, <1>6, <1>7

\* Attempts that start or expire, sessions that end and revocations that go.
LEMMA TablesStep ==
    ASSUME SessionInv,
           \/ GithubStart \/ StateExpires
           \/ \E sid \in Sids : SessionEnds(sid) \/ PurgeRevocation(sid)
    PROVE  SessionInv'
<1>0. TablesTypeOK /\ PurgedAreOver /\ SignUps
  BY DEF SessionInv
<1>1. CASE GithubStart \/ StateExpires
  <2>0. /\ oauthState # "consumed" => claims = 0
        /\ UNCHANGED <<account, session, revoked, signedOut, call>> /\ Watch
        /\ oauthState' \in {"none", "open"}
    BY <1>0, <1>1 DEF SignUps, GithubStart, StateExpires
  <2>1. claims' = 0
    BY <1>1, <2>0 DEF GithubStart, StateExpires
  <2>2. TablesTypeOK'
    BY <1>0, <2>0, WatchType DEF TablesTypeOK
  <2>3. SignUps'
    BY <1>0, <2>0, <2>1 DEF SignUps, Created
  <2>4. PurgedAreOver' /\ TablesGrow
    BY <1>0, <2>0 DEF PurgedAreOver, TablesGrow, Issued, Created
  <2> QED BY <2>0, <2>2, <2>3, <2>4, AllStand
<1>2. ASSUME NEW sid \in Sids, SessionEnds(sid) PROVE SessionInv'
  <2>0. /\ session' = [session EXCEPT ![sid].alive = FALSE]
        /\ UNCHANGED <<account, revoked, signedOut, oauthState, claims, call>> /\ Watch
    BY <1>2 DEF SessionEnds
  <2>1. session[sid] \in Cookies /\ session' = [session EXCEPT ![sid] = [session[sid] EXCEPT !.alive = FALSE]]
    BY <1>0, <2>0 DEF TablesTypeOK
  <2>2. session' \in [Sids -> Cookies]
    BY <1>0, <2>1 DEF TablesTypeOK, Cookies
  <2>3. \A other \in Sids : /\ session'[other].sub = session[other].sub
                            /\ ~session[other].alive => ~session'[other].alive
    BY <1>0, <2>1 DEF TablesTypeOK, Cookies
  <2>4. TablesTypeOK'
    BY <1>0, <2>0, <2>2, WatchType DEF TablesTypeOK
  <2>5. PurgedAreOver' /\ TablesGrow
    BY <1>0, <2>0, <2>3 DEF PurgedAreOver, TablesGrow, Issued, Created, TablesTypeOK
  <2>6. SignUps'
    BY <1>0, <2>0 DEF SignUps, Created
  <2> QED BY <2>0, <2>4, <2>5, <2>6, AllStand
<1>3. ASSUME NEW sid \in Sids, PurgeRevocation(sid) PROVE SessionInv'
  <2>0. /\ revoked' = revoked \ {sid} /\ ~session[sid].alive
        /\ UNCHANGED <<account, session, signedOut, oauthState, claims, call>> /\ Watch
    BY <1>3 DEF PurgeRevocation, PurgeDue
  <2>1. TablesTypeOK'
    BY <1>0, <2>0, WatchType DEF TablesTypeOK
  <2>2. PurgedAreOver' /\ TablesGrow
    BY <1>0, <2>0 DEF PurgedAreOver, TablesGrow, Issued, Created
  <2>3. SignUps'
    BY <1>0, <2>0 DEF SignUps, Created
  <2> QED BY <2>0, <2>1, <2>2, <2>3, AllStand
<1> QED BY <1>1, <1>2, <1>3

LEMMA SessionInvStep == SessionInv /\ [SessionNext]_sessionVars => SessionInv'
<1> SUFFICES ASSUME SessionInv, [SessionNext]_sessionVars PROVE SessionInv'
  OBVIOUS
<1>1. CASE SessionNext
  BY <1>1, SignInStep, GuardStep, TablesStep DEF SessionNext
<1>2. CASE UNCHANGED sessionVars
  BY <1>2 DEF sessionVars, SessionInv, TablesTypeOK, PurgedAreOver, SignUps, Carries, Watched,
     InForce, Acting, Issued, Created
<1> QED BY <1>1, <1>2

LEMMA SessionIsSound == SessionInv => ConsoleIsGuarded
<1> SUFFICES ASSUME SessionInv PROVE ConsoleIsGuarded
  OBVIOUS
<1>1. WritesAreAuthorised
  BY RankOrder DEF WritesAreAuthorised, SessionInv, Watched, InForce, Acting
<1>2. SignInsAreUnique
  <2>0. claims = 0 \/ claims = 1
    BY DEF SessionInv, SignUps
  <2>1. claims <= 1
    BY <2>0
  <2> QED BY <2>1 DEF SignInsAreUnique, SessionInv, SignUps, Created
<1> QED BY <1>1, <1>2 DEF ConsoleIsGuarded

\* However sign-ins, sign-outs, expiries, purges and edits interleave: a console
\* write is authorised, and names and identities are unique.
THEOREM ConsoleStaysGuarded == SessionSpec => []ConsoleIsGuarded
BY SessionInvInit, SessionInvStep, SessionIsSound, PTL DEF SessionSpec

(***************************************************************************)
(* ConsolePages.  Every change acknowledged marks the listing stale, and   *)
(* the load that ends that is the only one still heard: it started after   *)
(* the acknowledgement, so the row it brings is at least as new.  A page   *)
(* that reveals secrets begins no change while one is on the screen.       *)
(***************************************************************************)

ListedRows == [writes : Nat, balance : Balances]
LoadsOf == [n : Nat, path : Paths, live : BOOLEAN, answer : ListedRows \cup {Blank}]
Views == [path : Paths \cup {Blank}, data : ListedRows \cup {Blank},
          error : BOOLEAN, loading : BOOLEAN]
Sent == [op : DOMAIN Changes, stage : {"sent", "applied", "refused"}, made : Nat \cup {Blank}]
Pages == {"channels", "tokens", "users", "pricing", "redemption"}

PagesTypeOK ==
    /\ page \in Pages
    /\ row \in ListedRows /\ query \in Paths /\ stale \in BOOLEAN
    /\ view \in Views
    /\ loads \subseteq LoadsOf /\ started \in Nat
    /\ dialog \in DOMAIN Changes \cup {Blank}
    /\ change \in Sent \cup {Blank}
    /\ received \subseteq Nat
    /\ known \in 0..row.writes
    /\ Busy /\ change.stage = "applied" => change.made \in 0..row.writes

UpToDate(data) == data # Blank /\ data.writes >= known

\* What is heard from now on, and what is shown once it is heard, is new enough.
NewEnough ==
    ~stale => /\ \A l \in loads : l.live /\ l.answer # Blank => UpToDate(l.answer)
              /\ view.loading \/ view.error \/ UpToDate(view.data)

Revealing == page \in {"tokens", "redemption"}

\* A change that may bring a secret finds none on the screen.
RoomForASecret ==
    /\ editing # Blank => page = "users"
    /\ Busy => dialog = Blank \/ ~Revealing
    /\ Revealing /\ (Busy \/ dialog # Blank) => secret = Blank

PagesInv == PagesTypeOK /\ NewEnough /\ RoomForASecret /\ NoSecretIsLost

\* Which pages have changes that reveal.
LEMMA WhatReveals ==
    ASSUME page \in Pages, NEW op \in DOMAIN Changes, Changes[op].reveals
    PROVE  Revealing
BY DEF Pages, Changes, OperationsOf, ChannelChanges, TokenChanges, UserChanges, PricingChanges,
   RedemptionChanges, Operation, Revealing

LEMMA PagesInvInit == PagesInit => PagesInv
<1> SUFFICES ASSUME PagesInit PROVE PagesInv
  OBVIOUS
<1> USE DEF PagesInit
<1>1. page \in Pages
  BY DEF OperationsOf, Pages
<1>2. row \in ListedRows /\ row.writes = 0
  BY DEF ListedRows, Balances
<1>3. view \in Views
  BY DEF Views
<1>4. PagesTypeOK
  <2> HIDE DEF Changes
  <2> QED BY <1>1, <1>2, <1>3 DEF PagesTypeOK, Busy, Paths
<1>5. NewEnough /\ RoomForASecret /\ NoSecretIsLost
  BY DEF NewEnough, RoomForASecret, NoSecretIsLost, Busy
<1> QED BY <1>4, <1>5 DEF PagesInv

LEMMA PagesInvStep == PagesInv /\ [PagesNext]_pageVars => PagesInv'
<1> SUFFICES ASSUME PagesInv, [PagesNext]_pageVars PROVE PagesInv'
  OBVIOUS
<1>0. PagesTypeOK /\ NewEnough /\ RoomForASecret /\ NoSecretIsLost
  BY DEF PagesInv
<1>p. page' = page
  BY DEF PagesNext, pageVars, StartLoad, AnswerLoad, ReceiveLoad, Browse, Click, AnswerDialog,
     OpenBalance, LeaveBalance, Apply, Acknowledge, Fail, SaveSecret, OtherWrites
<1>c. Changes' = Changes /\ Sent' = Sent /\ Revealing' = Revealing
  BY <1>p DEF Changes, Sent, Revealing, OperationsOf
<1>1. CASE StartLoad
  <2> USE <1>0, <1>c, <1>1 DEF StartLoad
  <2>1. PagesTypeOK'
    <3>1. view' \in Views
      BY DEF PagesTypeOK, Views
    <3>2. loads' \subseteq LoadsOf
      <4> DEFINE aborted == {[l EXCEPT !.live = FALSE] : l \in loads}
                 begun == [n |-> started + 1, path |-> query, live |-> TRUE, answer |-> Blank]
      <4>1. begun \in LoadsOf
        BY DEF PagesTypeOK, LoadsOf
      <4>2. \A l \in loads : [l EXCEPT !.live = FALSE] \in LoadsOf
        BY DEF PagesTypeOK, LoadsOf
      <4>3. aborted \subseteq LoadsOf
        BY <4>2
      <4>4. loads' = aborted \cup {begun}
        OBVIOUS
      <4> HIDE DEF aborted, begun
      <4> QED BY <4>1, <4>3, <4>4
    <3>3. /\ row' = row /\ query' = query /\ dialog' = dialog /\ change' = change
          /\ received' = received /\ known' = known
      OBVIOUS
    <3>4. stale' \in BOOLEAN
      OBVIOUS
    <3>5. started' \in Nat
      BY DEF PagesTypeOK
    <3> HIDE <1>1 DEF StartLoad
    <3> QED BY <1>p, <3>1, <3>2, <3>3, <3>4, <3>5 DEF PagesTypeOK, Busy
  <2>2. NewEnough'
    BY DEF NewEnough, UpToDate, PagesTypeOK, LoadsOf
  <2>3. RoomForASecret' /\ NoSecretIsLost'
    BY DEF RoomForASecret, NoSecretIsLost, Busy, Offered, Send, Reload, PagesTypeOK
  <2> QED BY <2>1, <2>2, <2>3 DEF PagesInv
<1>2. CASE AnswerLoad
  <2> USE <1>0, <1>c, <1>2 DEF AnswerLoad
  <2>1. PagesTypeOK'
    BY DEF PagesTypeOK, Busy, LoadsOf
  <2>2. NewEnough'
    BY DEF NewEnough, UpToDate, PagesTypeOK, LoadsOf
  <2>3. RoomForASecret' /\ NoSecretIsLost'
    BY DEF RoomForASecret, NoSecretIsLost, Busy, Offered, Send, Reload, PagesTypeOK
  <2> QED BY <2>1, <2>2, <2>3 DEF PagesInv
<1>3. CASE ReceiveLoad
  <2> USE <1>0, <1>c, <1>3 DEF ReceiveLoad
  <2>1. PagesTypeOK'
    <3>1. view' \in Views
      <4>1. PICK l \in loads :
               view' = IF ~Hears(l) THEN view
                       ELSE IF l.answer = Blank
                         THEN [view EXCEPT !.path = l.path, !.error = TRUE, !.loading = FALSE]
                       ELSE [path |-> l.path, data |-> l.answer, error |-> FALSE,
                             loading |-> FALSE]
        OBVIOUS
      <4>2. l \in LoadsOf /\ view \in Views
        BY DEF PagesTypeOK
      <4> HIDE <1>0, <1>c, <1>3 DEF ReceiveLoad
      <4>3. CASE ~Hears(l)
        BY <4>1, <4>2, <4>3
      <4>4. CASE Hears(l) /\ l.answer = Blank
        BY <4>1, <4>2, <4>4 DEF Views, LoadsOf
      <4>5. CASE Hears(l) /\ l.answer # Blank
        BY <4>1, <4>2, <4>5 DEF Views, LoadsOf
      <4> QED BY <4>3, <4>4, <4>5
    <3>2. loads' \subseteq LoadsOf
      BY DEF PagesTypeOK
    <3> QED BY <3>1, <3>2 DEF PagesTypeOK, Busy
  <2>2. NewEnough'
    BY DEF NewEnough, UpToDate, PagesTypeOK, Hears, Views, LoadsOf
  <2>3. RoomForASecret' /\ NoSecretIsLost'
    BY DEF RoomForASecret, NoSecretIsLost, Busy, Offered, Send, Reload, PagesTypeOK
  <2> QED BY <2>1, <2>2, <2>3 DEF PagesInv
<1>4. CASE Browse
  <2> USE <1>0, <1>c, <1>4 DEF Browse
  <2>1. PagesTypeOK'
    BY DEF PagesTypeOK, Busy, Reload, Paths
  <2>2. NewEnough'
    BY DEF NewEnough, UpToDate, PagesTypeOK, Reload
  <2>3. RoomForASecret' /\ NoSecretIsLost'
    BY DEF RoomForASecret, NoSecretIsLost, Busy, Offered, Send, Reload, PagesTypeOK
  <2> QED BY <2>1, <2>2, <2>3 DEF PagesInv
<1>5. CASE Click
  <2> USE <1>0, <1>c, <1>5 DEF Click
  <2>1. PagesTypeOK'
    BY DEF PagesTypeOK, Busy, Send, Sent
  <2>2. NewEnough'
    BY DEF NewEnough, UpToDate, PagesTypeOK, Send
  <2>3. RoomForASecret' /\ NoSecretIsLost'
    BY DEF RoomForASecret, NoSecretIsLost, Busy, Offered, Send, Revealing
  <2> QED BY <2>1, <2>2, <2>3 DEF PagesInv
<1>6. CASE AnswerDialog
  <2> USE <1>0, <1>c, <1>6 DEF AnswerDialog
  <2>1. PagesTypeOK'
    <3>1. change' \in Sent \cup {Blank} /\ (change' = change \/ change'.stage = "sent")
      BY DEF PagesTypeOK, Send, Sent
    <3> QED BY <3>1 DEF PagesTypeOK, Busy
  <2>2. NewEnough'
    BY DEF NewEnough, UpToDate, PagesTypeOK, Send
  <2>3. RoomForASecret' /\ NoSecretIsLost'
    BY DEF RoomForASecret, NoSecretIsLost, Busy, Offered, Send, Reload, PagesTypeOK
  <2> QED BY <2>1, <2>2, <2>3 DEF PagesInv
<1>7. CASE OpenBalance
  <2> USE <1>0, <1>c, <1>7 DEF OpenBalance
  <2>1. PagesTypeOK'
    BY DEF PagesTypeOK, Busy
  <2>2. NewEnough'
    BY DEF NewEnough, UpToDate, PagesTypeOK
  <2>3. RoomForASecret' /\ NoSecretIsLost'
    BY DEF RoomForASecret, NoSecretIsLost, Busy, Offered, Send, Reload, PagesTypeOK
  <2> QED BY <2>1, <2>2, <2>3 DEF PagesInv
<1>8. CASE LeaveBalance
  <2> USE <1>0, <1>c, <1>8 DEF LeaveBalance
  <2>1. PagesTypeOK'
    <3>1. "balance" \in DOMAIN Changes
      BY DEF RoomForASecret, Changes, OperationsOf, UserChanges
    <3>2. change' \in Sent \cup {Blank} /\ (change' = change \/ change'.stage = "sent")
      BY <3>1 DEF PagesTypeOK, Send, Sent
    <3> QED BY <3>2 DEF PagesTypeOK, Busy
  <2>2. NewEnough'
    BY DEF NewEnough, UpToDate, PagesTypeOK, Send
  <2>3. RoomForASecret' /\ NoSecretIsLost'
    BY DEF RoomForASecret, NoSecretIsLost, Busy, Send, Revealing
  <2> QED BY <2>1, <2>2, <2>3 DEF PagesInv
<1>9. CASE Apply
  <2> USE <1>0, <1>c, <1>9 DEF Apply
  <2>1. PagesTypeOK'
    <3>1. row' \in ListedRows /\ row.writes \in Nat /\ row'.writes \in Nat /\ row'.writes >= row.writes
      BY DEF PagesTypeOK, ListedRows
    <3>2. change' \in Sent /\ (change'.stage = "applied" => change'.made = row'.writes)
      BY <3>1 DEF PagesTypeOK, Busy, Sent
    <3> QED BY <3>1, <3>2 DEF PagesTypeOK, Busy
  <2>2. NewEnough'
    BY DEF NewEnough, UpToDate, PagesTypeOK, ListedRows
  <2>3. RoomForASecret' /\ NoSecretIsLost'
    BY DEF RoomForASecret, NoSecretIsLost, Busy, Offered, Send, Reload, PagesTypeOK
  <2> QED BY <2>1, <2>2, <2>3 DEF PagesInv
<1>10. CASE Acknowledge
  <2> USE <1>0, <1>c, <1>10 DEF Acknowledge
  <2>1. PagesTypeOK'
    <3>1. row.writes \in Nat /\ known' \in 0..row.writes /\ change.made \in Nat
      BY DEF PagesTypeOK, ListedRows
    <3>2. received' \subseteq Nat
      BY <3>1 DEF PagesTypeOK
    <3>3. query' = query /\ stale' = TRUE
      BY DEF Reload
    <3> QED BY <3>1, <3>2, <3>3 DEF PagesTypeOK, Busy
  <2>2. NewEnough'
    BY DEF NewEnough, UpToDate, PagesTypeOK, Reload
  <2>3. RoomForASecret' /\ NoSecretIsLost'
    <3>1. CASE Changes[change.op].reveals
      <4>1. change.op \in DOMAIN Changes /\ page \in Pages
        BY DEF PagesTypeOK, Sent, Busy
      <4>2. Revealing
        BY <3>1, <4>1, WhatReveals
      <4>3. secret = Blank /\ dialog = Blank
        BY <4>2 DEF RoomForASecret
      <4>4. received \subseteq saved
        BY <4>3, PagesAssumption DEF NoSecretIsLost, PagesTypeOK
      <4> QED BY <3>1, <4>3, <4>4 DEF RoomForASecret, NoSecretIsLost, Busy
    <3>2. CASE ~Changes[change.op].reveals
      BY <3>2 DEF RoomForASecret, NoSecretIsLost, Busy
    <3> QED BY <3>1, <3>2
  <2> QED BY <2>1, <2>2, <2>3 DEF PagesInv
<1>11. CASE Fail
  <2> USE <1>0, <1>c, <1>11 DEF Fail
  <2>1. PagesTypeOK'
    BY DEF PagesTypeOK, Busy, Reload
  <2>2. NewEnough'
    BY DEF NewEnough, UpToDate, PagesTypeOK, Reload
  <2>3. RoomForASecret' /\ NoSecretIsLost'
    BY DEF RoomForASecret, NoSecretIsLost, Busy, Offered, Send, Reload, PagesTypeOK
  <2> QED BY <2>1, <2>2, <2>3 DEF PagesInv
<1>12. CASE SaveSecret
  <2> USE <1>0, <1>c, <1>12 DEF SaveSecret
  <2>1. PagesTypeOK'
    BY DEF PagesTypeOK, Busy
  <2>2. NewEnough'
    BY DEF NewEnough, UpToDate, PagesTypeOK
  <2>3. RoomForASecret' /\ NoSecretIsLost'
    BY DEF RoomForASecret, NoSecretIsLost, Busy, Offered, Send, Reload, PagesTypeOK
  <2> QED BY <2>1, <2>2, <2>3 DEF PagesInv
<1>13. CASE OtherWrites
  <2> USE <1>0, <1>c, <1>13 DEF OtherWrites
  <2>1. PagesTypeOK'
    BY DEF PagesTypeOK, Busy, ListedRows
  <2>2. NewEnough'
    BY DEF NewEnough, UpToDate, PagesTypeOK, ListedRows
  <2>3. RoomForASecret' /\ NoSecretIsLost'
    BY DEF RoomForASecret, NoSecretIsLost, Busy, Offered, Send, Reload, PagesTypeOK
  <2> QED BY <2>1, <2>2, <2>3 DEF PagesInv
<1>14. CASE UNCHANGED pageVars
  <2> USE <1>0, <1>c, <1>14 DEF pageVars
  <2>1. PagesTypeOK'
    BY DEF PagesTypeOK, Busy
  <2>2. NewEnough'
    BY DEF NewEnough, UpToDate
  <2>3. RoomForASecret' /\ NoSecretIsLost'
    BY DEF RoomForASecret, NoSecretIsLost, Busy
  <2> QED BY <2>1, <2>2, <2>3 DEF PagesInv
<1> QED BY <1>1, <1>2, <1>3, <1>4, <1>5, <1>6, <1>7, <1>8, <1>9, <1>10, <1>11, <1>12, <1>13, <1>14 DEF PagesNext

\* However loads, changes and the writes of others interleave, and whatever
\* answers are lost: a page at rest shows its own acknowledged changes, and no
\* secret it received is lost (useApi, and the pages that show one).
THEOREM PagesStayCurrent == PagesSpec => []PagesAreCurrent
<1>1. PagesInv => PagesAreCurrent
  BY DEF PagesInv, PagesTypeOK, NewEnough, UpToDate, PagesAreCurrent, OwnChangesShow, Quiet, Shown
<1> QED BY PagesInvInit, PagesInvStep, <1>1, PTL DEF PagesSpec

(***************************************************************************)
(* DatabaseConnection.  There is an attempt only while no client is in     *)
(* use, a request has the database only while one is, and the months'      *)
(* promise is the only one whose indexes are being built.                  *)
(***************************************************************************)

Promises == 1..MaxBuilds
HasDatabase(c) == seeker[c].at \in {"connected", "ensuring", "serving"}

ConnectionTypeOK ==
    /\ second \in Nat \ {0} /\ failedAt \in Nat
    /\ attempt \in [stage : {"none", "connecting", "indexing", "closing"}, id : Nat]
    /\ tried \in Nat /\ published \in Nat /\ identity \in 0..Collections
    /\ seeker \in [Seekers -> [at : {"away", "importing", "waiting", "connected",
                                     "ensuring", "serving"}, awaits : Nat]]
    /\ months \in Nat
    /\ builds \in [Promises -> {"none", "building", "built", "failed"}]
    /\ usageIndexed \in BOOLEAN

\* The client in use, or the one an attempt has connected so far.
OpenClients ==
    /\ published # Nobody =>
         open = {published} /\ failedAt = 0 /\ identity = Collections /\ attempt = NoAttempt
    /\ published = Nobody => open \subseteq {attempt.id} \ {Nobody}
    /\ attempt.stage \in {"none", "connecting"} /\ published = Nobody => open = {}
    /\ attempt.stage # "none" => attempt.id # Nobody
    /\ attempt.stage = "indexing" => open = {attempt.id}

Builds ==
    /\ \A b \in Promises : builds[b] = "building" => b = months
    /\ \A b \in Promises : builds[b] = "built" => usageIndexed

Seeking ==
    \A c \in Seekers :
        /\ HasDatabase(c) => published # Nobody
        /\ seeker[c].at = "ensuring" => seeker[c].awaits \in Promises
        /\ seeker[c].at = "serving" => usageIndexed

MonthsType == months = Nobody \/ months \in Promises

ConnectionInv == ConnectionTypeOK /\ OpenClients /\ Builds /\ Seeking /\ MonthsType

LEMMA ConnectionInvInit == ConnectionInit => ConnectionInv
<1> SUFFICES ASSUME ConnectionInit PROVE ConnectionInv
  OBVIOUS
<1> USE DEF ConnectionInit, NoAttempt, Nobody, Away, Promises, HasDatabase, Collections
<1>1. ConnectionTypeOK
  <2>1. seeker \in [Seekers -> [at : {"away", "importing", "waiting", "connected",
                                     "ensuring", "serving"}, awaits : Nat]]
    OBVIOUS
  <2>2. builds \in [Promises -> {"none", "building", "built", "failed"}]
    OBVIOUS
  <2>3. attempt \in [stage : {"none", "connecting", "indexing", "closing"}, id : Nat]
    OBVIOUS
  <2>4. /\ second \in Nat \ {0} /\ failedAt \in Nat /\ tried \in Nat
        /\ published \in Nat /\ identity \in 0..Collections
        /\ months \in Nat
    OBVIOUS
  <2>5. usageIndexed \in BOOLEAN
    OBVIOUS
  <2> HIDE DEF ConnectionInit
  <2> QED BY <2>1, <2>2, <2>3, <2>4, <2>5 DEF ConnectionTypeOK
<1>2. OpenClients /\ Builds /\ MonthsType
  BY DEF OpenClients, Builds, MonthsType
<1>3. Seeking
  BY DEF Seeking
<1> QED BY <1>1, <1>2, <1>3 DEF ConnectionInv

LEMMA ConnectionInvStep == ConnectionInv /\ [ConnectionNext]_connectionVars => ConnectionInv'
<1> SUFFICES ASSUME ConnectionInv, [ConnectionNext]_connectionVars PROVE ConnectionInv'
  OBVIOUS
<1> USE DEF ConnectionInv, ConnectionTypeOK, OpenClients, Builds, Seeking, MonthsType,
        NoAttempt, Nobody, Away, Promises, HasDatabase, Collections, Becomes, AllBecome
<1>1. ASSUME NEW c \in Seekers, GetDb(c) PROVE ConnectionInv'
  BY <1>1 DEF GetDb
<1>2. ASSUME NEW c \in Seekers, Connect(c) PROVE ConnectionInv'
  <2>1. ConnectionTypeOK'
    BY <1>2 DEF Connect
  <2>2. OpenClients'
    BY <1>2 DEF Connect
  <2>3. Builds'
    BY <1>2 DEF Connect
  <2>4. Seeking'
    BY <1>2 DEF Connect
  <2>5. MonthsType'
    BY <1>2 DEF Connect
  <2> QED BY <2>1, <2>2, <2>3, <2>4, <2>5
<1>3. ASSUME NEW c \in Seekers, AskMonth(c) PROVE ConnectionInv'
  <2>1. /\ seeker[c].at = "connected"
        /\ UNCHANGED <<second, failedAt, attempt, tried, published, open, identity, usageIndexed>>
    BY <1>3 DEF AskMonth
  <2>2. CASE months # Nobody /\ Becomes(c, "ensuring", months) /\ UNCHANGED <<months, builds>>
    BY <2>1, <2>2
  <2>3. ASSUME NEW b \in Promises, months = Nobody,
               months' = b, builds' = [builds EXCEPT ![b] = "building"],
               Becomes(c, "ensuring", b)
        PROVE  ConnectionInv'
    <3>0. b \in Nat
      BY ConnectionAssumption
    <3>1. ConnectionTypeOK'
      BY <2>1, <2>3, <3>0
    <3>2. OpenClients' /\ Builds' /\ MonthsType'
      BY <2>1, <2>3
    <3>3. Seeking'
      BY <2>1, <2>3
    <3> QED BY <3>1, <3>2, <3>3
  <2> QED BY <1>3, <2>2, <2>3 DEF AskMonth
<1>4. ASSUME NEW c \in Seekers, Resume(c) PROVE ConnectionInv'
  <2> DEFINE promise == seeker[c].awaits
  <2>1. /\ seeker[c].at = "ensuring" /\ promise \in Promises
        /\ UNCHANGED <<second, failedAt, attempt, tried, published, open, identity,
                       builds, usageIndexed>>
    BY <1>4 DEF Resume
  <2>2. CASE builds[promise] = "built" /\ Becomes(c, "serving", Nobody) /\ UNCHANGED months
    BY <2>1, <2>2
  <2>3. CASE /\ builds[promise] = "failed"
             /\ seeker' = [seeker EXCEPT ![c] = Away] /\ months' = Forget(promise)
    BY <2>1, <2>3 DEF Forget
  <2> QED BY <1>4, <2>2, <2>3 DEF Resume
<1>5. ASSUME NEW c \in Seekers, Depart(c) PROVE ConnectionInv'
  BY <1>5 DEF Depart
<1>6. CASE Connected
  BY <1>6 DEF Connected
<1>7. CASE Index
  BY <1>7 DEF Index
<1>8. CASE Publish
  BY <1>8 DEF Publish, Ready
<1>9. CASE Break
  BY <1>9 DEF Break
<1>10. CASE GiveUp
  BY <1>10 DEF GiveUp
<1>11. ASSUME NEW b \in Promises, Build(b) PROVE ConnectionInv'
  BY <1>11, ZenonT(60) DEF Build
<1>12. CASE Wait
  BY <1>12 DEF Wait
<1>13. CASE UNCHANGED connectionVars
  BY <1>13 DEF connectionVars
<1> HIDE DEF ConnectionInv, Promises
<1> QED BY <1>1, <1>2, <1>3, <1>4, <1>5, <1>6, <1>7, <1>8, <1>9, <1>10, <1>11, <1>12, <1>13
        DEF ConnectionNext, Promises

LEMMA ConnectionIsSound == ConnectionInv => DatabaseIsReady
<1> SUFFICES ASSUME ConnectionInv PROVE DatabaseIsReady
  OBVIOUS
<1> USE DEF ConnectionInv, ConnectionTypeOK, OpenClients, Builds, Seeking, MonthsType,
        NoAttempt, Nobody, Away, Promises, HasDatabase, Collections
<1>1. {b \in Promises : builds[b] = "building"} \subseteq {months}
  OBVIOUS
<1>2. Cardinality({b \in Promises : builds[b] = "building"}) <= 1
  <2> HIDE DEF ConnectionInv
  <2>1. IsFiniteSet({months}) /\ Cardinality({months}) = 1
    BY FS_Singleton
  <2> QED BY <1>1, <2>1, FS_Subset
<1> QED BY <1>2 DEF DatabaseIsReady

\* However connection attempts, failures and requests interleave: nobody is
\* handed a database without its indexes, and a container has one client open
\* at most (db/mongo.ts, db/indexes.ts).
THEOREM DatabaseBecomesReady == ConnectionSpec => []DatabaseIsReady
BY ConnectionInvInit, ConnectionInvStep, ConnectionIsSound, PTL DEF ConnectionSpec

(***************************************************************************)
(* DocumentStore.  Only the head of the chain works, so nobody but it      *)
(* changes a bound collection between its snapshot and its end; and the    *)
(* collections its work began nobody else has a handle on, because they    *)
(* were empty, and nobody's, when it bound them.                           *)
(***************************************************************************)
Contained == [Objects -> [DocIds -> Uniques \cup {NoDoc}]]
Tasks == [state : {"resting", "method", "transaction", "working"},
          handle : Objects \cup {NoObject}]
Snapshots == [names : SUBSET Books, contents : Contained]
Drafts == [steps : Nat, contents : Contained]

DocumentTypeOK ==
    /\ bound \in [Books -> Objects \cup {NoObject}]
    /\ contents \in Contained /\ agreed \in Contained
    /\ chain \in Seq(Callers)
    /\ work \in [Callers -> Tasks]
    /\ snapshot \in Snapshots /\ draft \in Drafts

Bound(o) == \E n \in Books : bound[n] = o
AtWork(c) == work[c].state = "working"
Distinct(book) ==
    \A i, j \in Present(book) : i # j /\ book[i] # Absent => book[i] # book[j]

\* Whoever works has the turn, and a handle on a collection that has a name; a
\* transaction begins without one.
WorkersHaveTurn ==
    \A c \in Callers :
        /\ work[c].state = "transaction" => work[c].handle = NoObject
        /\ AtWork(c) => MyTurn(c) /\ (work[c].handle # NoObject => Bound(work[c].handle))

\* Nobody works: the named collections are as the finished calls left them.
Settled == \A n \in Books : bound[n] # NoObject => contents[bound[n]] = agreed[bound[n]]

\* Somebody works: the named collections are as its commands left them, what it
\* would put back is as the finished calls left it, and a collection without a
\* name has had none of its commands.
InProgress ==
    /\ \A n \in Books : bound[n] # NoObject => contents[bound[n]] = draft.contents[bound[n]]
    /\ \A n \in snapshot.names :
          bound[n] # NoObject /\ snapshot.contents[bound[n]] = agreed[bound[n]]
    /\ \A o \in Objects : ~Bound(o) => draft.contents[o] = agreed[o]

AllDistinct ==
    \A o \in Objects : Distinct(contents[o]) /\ Distinct(snapshot.contents[o])

Anybody == \E c \in Callers : AtWork(c)

DocumentInv ==
    /\ DocumentTypeOK /\ WorkersHaveTurn /\ AllDistinct
    /\ ~Anybody => Settled
    /\ Anybody => InProgress

-----------------------------------------------------------------------------
(* Commands.                                                               *)

LEMMA CommandsKeepBooks ==
    ASSUME NEW book \in [DocIds -> Uniques \cup {NoDoc}], NEW command \in Commands, Distinct(book)
    PROVE  After(book, command) \in [DocIds -> Uniques \cup {NoDoc}] /\ Distinct(After(book, command))
<1> DEFINE id == command.id
           new == Written(book, command)
           next == After(book, command)
<1>1. /\ id \in DocIds /\ command.value \in Uniques
      /\ command.op \in {"insert", "set", "upsert", "delete"}
  BY DEF Commands
<1>2. CASE Throws(book, command)
  BY <1>2 DEF After
<1>3. CASE ~Throws(book, command)
  <2>1. next = [book EXCEPT ![id] = new]
    BY <1>3 DEF After
  <2>2. new \in Uniques \cup {NoDoc}
    BY <1>1, DocumentAssumption DEF Written
  <2>3. \/ new = NoDoc \/ new = Absent \/ new = book[id]
        \/ \A j \in Present(book) \ {id} : book[j] # new
    BY <1>1, <1>3 DEF Written, Throws, UniqueGuard
  <2> HIDE DEF id, new, next
  <2>4. next \in [DocIds -> Uniques \cup {NoDoc}] /\ next[id] = new
        /\ \A j \in DocIds \ {id} : next[j] = book[j]
    BY <1>1, <2>1, <2>2
  <2>5. ASSUME NEW i \in Present(next), NEW j \in Present(next), i # j, next[i] # Absent
        PROVE  next[i] # next[j]
    <3>1. /\ i # id => i \in Present(book) /\ next[i] = book[i]
          /\ j # id => j \in Present(book) /\ next[j] = book[j]
          /\ next[i] # NoDoc /\ next[j] # NoDoc /\ i \in DocIds /\ j \in DocIds
      BY <2>4, <2>5 DEF Present
    <3>2. CASE i # id /\ j # id
      BY <2>5, <3>1, <3>2 DEF Distinct
    <3>3. CASE i = id
      <4>1. j # id /\ next[i] = new
        BY <2>4, <2>5, <3>3
      <4>2. new = book[id] => id \in Present(book)
        BY <1>1, <3>1, <4>1 DEF Present
      <4> QED BY <2>3, <2>5, <3>1, <3>3, <4>1, <4>2 DEF Distinct
    <3>4. CASE j = id
      <4>1. i # id /\ next[j] = new
        BY <2>4, <2>5, <3>4
      <4>2. new = book[id] => id \in Present(book)
        BY <1>1, <3>1, <4>1 DEF Present
      <4> QED BY <2>3, <2>5, <3>1, <3>4, <4>1, <4>2 DEF Distinct
    <3> QED BY <3>2, <3>3, <3>4
  <2> QED BY <2>4, <2>5 DEF Distinct, next
<1> QED BY <1>2, <1>3

-----------------------------------------------------------------------------
(* Steps.                                                                  *)

\* There is one head of the chain.
LEMMA OneWorks ==
    ASSUME DocumentInv, NEW c \in Callers, MyTurn(c), ~AtWork(c)
    PROVE  ~Anybody
BY DEF DocumentInv, WorkersHaveTurn, MyTurn, Anybody

LEMMA LeaveKeeps ==
    ASSUME DocumentInv, NEW c \in Callers, MyTurn(c), Leave(c)
    PROVE  /\ chain' \in Seq(Callers) /\ work' \in [Callers -> Tasks]
           /\ ~Anybody' /\ WorkersHaveTurn'
<1>1. chain \in Seq(Callers) /\ chain # <<>> /\ work \in [Callers -> Tasks]
  BY DEF DocumentInv, DocumentTypeOK, MyTurn
<1>2. chain' \in Seq(Callers)
  BY <1>1 DEF Leave
<1>3. work' = [work EXCEPT ![c] = Resting] /\ Resting \in Tasks /\ Resting.state # "working"
  BY DEF Leave, Resting, Tasks
<1>4. work' \in [Callers -> Tasks] /\ work'[c] = Resting /\ \A d \in Callers \ {c} : work'[d] = work[d]
  BY <1>1, <1>3
<1>5. ASSUME NEW d \in Callers, AtWork(d)' PROVE FALSE
  <2>1. d # c
    BY <1>3, <1>4, <1>5 DEF AtWork
  <2>2. work[d].state = "working"
    BY <1>4, <1>5, <2>1 DEF AtWork
  <2> QED BY <2>1, <2>2 DEF DocumentInv, WorkersHaveTurn, AtWork, MyTurn
<1>6. \A d \in Callers : work'[d].state = "transaction" => work'[d].handle = NoObject
  BY <1>4 DEF Resting, DocumentInv, WorkersHaveTurn
<1> QED BY <1>2, <1>4, <1>5, <1>6 DEF Anybody, WorkersHaveTurn, AtWork

LEMMA OpenKeeps ==
    ASSUME DocumentInv, NEW c \in Callers, NEW n \in Books, Open(c, n)
    PROVE  DocumentInv'
<1>1. PICK o \in Objects :
         /\ IF bound[n] # NoObject THEN o = bound[n] ELSE o \in Fresh
         /\ bound' = [bound EXCEPT ![n] = o]
         /\ work' = [work EXCEPT ![c].handle = o]
  BY DEF Open
<1>2. UNCHANGED <<contents, chain, snapshot, draft, agreed>>
  BY DEF Open
<1>0. /\ DocumentTypeOK /\ WorkersHaveTurn /\ AllDistinct
      /\ (~Anybody => Settled) /\ (Anybody => InProgress)
  BY DEF DocumentInv
<1>3. bound \in [Books -> Objects \cup {NoObject}] /\ work \in [Callers -> Tasks]
      /\ snapshot.names \subseteq Books
  BY <1>0 DEF DocumentTypeOK, Snapshots
<1>4. /\ bound' \in [Books -> Objects \cup {NoObject}]
      /\ bound'[n] = o /\ \A p \in Books \ {n} : bound'[p] = bound[p]
  BY <1>1, <1>3
<1>5. /\ work' \in [Callers -> Tasks]
      /\ work'[c].handle = o /\ work'[c].state = work[c].state
      /\ \A d \in Callers \ {c} : work'[d] = work[d]
  BY <1>1, <1>3 DEF Tasks
<1>6. o # NoObject /\ NoObject \notin Objects
  BY DEF NoObject, Objects
<1>7. \A q \in Objects : Bound(q) => Bound(q)'
  BY <1>1, <1>4, <1>6 DEF Bound
<1>8. Bound(o)'
  BY <1>4 DEF Bound
<1>9. Anybody' <=> Anybody
  BY <1>5 DEF Anybody, AtWork
<1>10. bound[n] # NoObject \/ (~Bound(o) /\ contents[o] = EmptyBook /\ agreed[o] = EmptyBook)
  BY <1>1 DEF Fresh, Bound
<1>11. DocumentTypeOK'
  BY <1>0, <1>2, <1>4, <1>5 DEF DocumentTypeOK, Contained, Objects, Tasks, Snapshots, Drafts
<1>12. WorkersHaveTurn'
  <2>0. work[c].state \in {"resting", "working"}
    BY DEF Open
  <2>1. ASSUME NEW d \in Callers, work'[d].state = "transaction" PROVE work'[d].handle = NoObject
    <3>1. d # c
      BY <1>5, <2>0, <2>1
    <3> QED BY <1>0, <1>5, <2>1, <3>1 DEF WorkersHaveTurn
  <2>2. ASSUME NEW d \in Callers, work'[d].state = "working", work'[d].handle # NoObject
        PROVE  \E p \in Books : bound'[p] = work'[d].handle
    <3>1. CASE d = c
      BY <1>4, <1>5, <3>1
    <3>2. CASE d # c
      <4>1. work'[d] = work[d]
        BY <1>5, <3>2
      <4>2. work[d].state = "working" /\ work[d].handle \in Objects
        BY <1>3, <2>2, <4>1 DEF Tasks
      <4>3. Bound(work[d].handle)
        BY <1>0, <2>2, <4>1, <4>2 DEF WorkersHaveTurn, AtWork
      <4>4. Bound(work[d].handle)'
        BY <1>1, <1>4, <1>6, <4>1, <4>2, <4>3 DEF Bound
      <4> QED BY <4>1, <4>4 DEF Bound
    <3> QED BY <3>1, <3>2
  <2>3. ASSUME NEW d \in Callers, work'[d].state = "working"
        PROVE  MyTurn(d)'
    <3>1. AtWork(d)
      BY <1>5, <2>3 DEF AtWork
    <3> QED BY <1>0, <1>2, <3>1 DEF WorkersHaveTurn, MyTurn
  <2> QED BY <2>1, <2>2, <2>3 DEF WorkersHaveTurn, AtWork, Bound
<1>13. AllDistinct'
  BY <1>0, <1>2 DEF AllDistinct, Distinct, Present
<1>14. ASSUME ~Anybody' PROVE Settled'
  <2>1. Settled
    BY <1>0, <1>9, <1>14
  <2>2. contents[o] = agreed[o]
    BY <1>1, <1>6, <1>10, <2>1 DEF Settled
  <2> QED BY <1>2, <1>4, <2>1, <2>2 DEF Settled
<1>15. ASSUME Anybody' PROVE InProgress'
  <2>1. InProgress
    BY <1>0, <1>9, <1>15
  <2>2. contents[o] = draft.contents[o]
    <3>1. CASE bound[n] # NoObject
      BY <1>1, <2>1, <3>1 DEF InProgress
    <3>2. CASE bound[n] = NoObject
      BY <1>10, <2>1, <3>2 DEF InProgress
    <3> QED BY <3>1, <3>2
  <2>3. \A p \in Books : bound'[p] # NoObject => contents[bound'[p]] = draft.contents[bound'[p]]
    BY <1>4, <2>1, <2>2 DEF InProgress
  <2>4. ASSUME NEW p \in snapshot.names
        PROVE  bound'[p] # NoObject /\ snapshot.contents[bound'[p]] = agreed[bound'[p]]
    <3>1. bound[p] # NoObject /\ snapshot.contents[bound[p]] = agreed[bound[p]]
      BY <2>1 DEF InProgress
    <3>2. bound'[p] = bound[p]
      BY <1>1, <1>3, <1>4, <3>1
    <3> QED BY <3>1, <3>2
  <2>5. \A q \in Objects : ~Bound(q)' => draft.contents[q] = agreed[q]
    BY <1>7, <2>1 DEF InProgress
  <2> QED BY <1>2, <2>3, <2>4, <2>5 DEF InProgress, Objects, Bound
<1> QED BY <1>11, <1>12, <1>13, <1>14, <1>15 DEF DocumentInv

LEMMA EnqueueKeeps ==
    ASSUME DocumentInv, NEW c \in Callers, Enqueue(c)
    PROVE  DocumentInv'
<1>0. /\ DocumentTypeOK /\ WorkersHaveTurn /\ AllDistinct
      /\ (~Anybody => Settled) /\ (Anybody => InProgress)
  BY DEF DocumentInv
<1>1. UNCHANGED <<bound, contents, snapshot, draft, agreed>> /\ chain' = Append(chain, c)
  BY DEF Enqueue
<1>2. PICK state \in {"method", "transaction"} : work' = [work EXCEPT ![c].state = state]
  BY DEF Enqueue
<1>3. work[c].state = "resting" /\ work \in [Callers -> Tasks] /\ chain \in Seq(Callers)
  BY <1>0 DEF Enqueue, DocumentTypeOK
<1>4. work' \in [Callers -> Tasks] /\ ~AtWork(c)' /\ ~AtWork(c)
      /\ \A d \in Callers \ {c} : work'[d] = work[d]
  BY <1>2, <1>3 DEF Tasks, AtWork
<1>5. \A d \in Callers : (AtWork(d)' <=> AtWork(d)) /\ (AtWork(d) => work'[d] = work[d])
  BY <1>4 DEF AtWork
<1>6. chain' \in Seq(Callers) /\ \A d \in Callers : MyTurn(d) => MyTurn(d)'
  BY <1>1, <1>3 DEF MyTurn
<1>7. DocumentTypeOK'
  BY <1>0, <1>1, <1>4, <1>6 DEF DocumentTypeOK, Contained, Objects, Tasks, Snapshots, Drafts
<1>8. WorkersHaveTurn'
  <2>1. work'[c].state = "transaction" => work'[c].handle = NoObject
    BY <1>3 DEF Enqueue, Tasks
  <2>2. \A d \in Callers : work'[d].state = "transaction" => work'[d].handle = NoObject
    BY <1>0, <1>4, <2>1 DEF WorkersHaveTurn
  <2> QED BY <1>0, <1>1, <1>5, <1>6, <2>2 DEF WorkersHaveTurn, Bound
<1>9. Anybody' <=> Anybody
  BY <1>5 DEF Anybody
<1>10. AllDistinct' /\ (Settled' <=> Settled) /\ (InProgress' <=> InProgress)
  BY <1>0, <1>1 DEF AllDistinct, Distinct, Present, Settled, InProgress, Bound
<1> QED BY <1>0, <1>7, <1>8, <1>9, <1>10 DEF DocumentInv

LEMMA RunMethodKeeps ==
    ASSUME DocumentInv, NEW c \in Callers, RunMethod(c)
    PROVE  DocumentInv'
<1> DEFINE o == work[c].handle
<1>0. /\ DocumentTypeOK /\ WorkersHaveTurn /\ AllDistinct
      /\ (~Anybody => Settled) /\ (Anybody => InProgress)
  BY DEF DocumentInv
<1>1. UNCHANGED <<bound, snapshot, draft>> /\ Leave(c) /\ MyTurn(c) /\ ~AtWork(c)
  BY DEF RunMethod, AtWork
<1>2. PICK command \in Commands :
         /\ contents' = [contents EXCEPT ![o] = After(@, command)]
         /\ agreed' = [agreed EXCEPT ![o] = After(@, command)]
  BY DEF RunMethod
<1>3. ~Anybody /\ Settled
  BY <1>0, <1>1, OneWorks
<1>4. chain' \in Seq(Callers) /\ work' \in [Callers -> Tasks] /\ ~Anybody' /\ WorkersHaveTurn'
  BY <1>1, LeaveKeeps
<1> HIDE DEF o
<1>5. contents \in Contained /\ agreed \in Contained
  BY <1>0 DEF DocumentTypeOK
<1>6. \A q \in Objects : contents[q] \in [DocIds -> Uniques \cup {NoDoc}] /\ Distinct(contents[q])
        /\ agreed[q] \in [DocIds -> Uniques \cup {NoDoc}] /\ Distinct(snapshot.contents[q])
  BY <1>0, <1>5 DEF Contained, AllDistinct
<1>7. contents' \in Contained /\ \A q \in Objects : Distinct(contents'[q])
  BY <1>2, <1>5, <1>6, CommandsKeepBooks DEF Contained
<1>8. agreed' \in Contained
  <2>1. ASSUME NEW book \in [DocIds -> Uniques \cup {NoDoc}]
        PROVE  After(book, command) \in [DocIds -> Uniques \cup {NoDoc}]
    BY DocumentAssumption DEF After, Written, Commands
  <2> QED BY <1>2, <1>5, <1>6, <2>1 DEF Contained
<1>9. DocumentTypeOK'
  BY <1>0, <1>1, <1>4, <1>7, <1>8 DEF DocumentTypeOK, Contained, Objects, Tasks, Snapshots, Drafts
<1>10. AllDistinct'
  BY <1>1, <1>6, <1>7 DEF AllDistinct, Distinct, Present, Objects
<1>11. Settled'
  <2>1. ASSUME NEW n \in Books, bound[n] # NoObject PROVE contents'[bound[n]] = agreed'[bound[n]]
    <3>1. bound[n] \in Objects /\ contents[bound[n]] = agreed[bound[n]]
      BY <1>0, <1>3, <2>1 DEF DocumentTypeOK, Settled
    <3> QED BY <1>2, <1>5, <3>1 DEF Contained
  <2> QED BY <1>1, <2>1 DEF Settled
<1> QED BY <1>4, <1>9, <1>10, <1>11 DEF DocumentInv

LEMMA BeginKeeps ==
    ASSUME DocumentInv, NEW c \in Callers, Begin(c)
    PROVE  DocumentInv'
<1>0. /\ DocumentTypeOK /\ WorkersHaveTurn /\ AllDistinct
      /\ (~Anybody => Settled) /\ (Anybody => InProgress)
  BY DEF DocumentInv
<1>1. /\ UNCHANGED <<bound, contents, chain, agreed>> /\ MyTurn(c) /\ ~AtWork(c)
      /\ work' = [work EXCEPT ![c].state = "working"]
      /\ snapshot' = [names |-> {n \in Books : bound[n] # NoObject}, contents |-> contents]
      /\ draft' = [steps |-> 0, contents |-> agreed]
  BY DEF Begin, AtWork
<1>2. ~Anybody /\ Settled
  BY <1>0, <1>1, OneWorks
<1>3. work \in [Callers -> Tasks] /\ contents \in Contained /\ agreed \in Contained
  BY <1>0 DEF DocumentTypeOK
<1>4. snapshot' \in Snapshots /\ draft' \in Drafts
  BY <1>1, <1>3 DEF Snapshots, Drafts
<1>5. work' \in [Callers -> Tasks] /\ work'[c].handle = work[c].handle
      /\ \A d \in Callers : AtWork(d)' => d = c
  BY <1>1, <1>2, <1>3 DEF Tasks, AtWork, Anybody
<1>6. DocumentTypeOK'
  BY <1>0, <1>1, <1>4, <1>5 DEF DocumentTypeOK, Contained, Objects, Tasks, Snapshots, Drafts
<1>7. WorkersHaveTurn'
  <2>1. work[c].state = "transaction" /\ work'[c].state = "working"
    BY <1>1, <1>3 DEF Begin, Tasks
  <2>2. work'[c].handle = NoObject
    BY <1>0, <1>5, <2>1 DEF WorkersHaveTurn
  <2>3. MyTurn(c)'
    BY <1>1 DEF MyTurn
  <2>4. ASSUME NEW d \in Callers, work'[d].state = "transaction" PROVE work'[d].handle = NoObject
    <3>1. d # c
      BY <2>1, <2>4
    <3>2. work'[d] = work[d]
      BY <1>1, <1>3, <3>1
    <3> QED BY <1>0, <2>4, <3>2 DEF WorkersHaveTurn
  <2> QED BY <1>5, <2>2, <2>3, <2>4 DEF WorkersHaveTurn
<1>8. AllDistinct'
  <2>1. snapshot'.contents = contents
    BY <1>1
  <2> QED BY <1>0, <1>1, <2>1 DEF AllDistinct, Distinct, Present, Objects
<1>9. Anybody'
  BY <1>1, <1>3 DEF Anybody, AtWork, Tasks
<1>10. InProgress'
  <2>1. snapshot'.contents = contents /\ draft'.contents = agreed
        /\ snapshot'.names = {n \in Books : bound[n] # NoObject}
    BY <1>1
  <2> QED BY <1>1, <1>2, <2>1 DEF InProgress, Settled, Objects
<1> QED BY <1>6, <1>7, <1>8, <1>9, <1>10 DEF DocumentInv

LEMMA RunInsideKeeps ==
    ASSUME DocumentInv, NEW c \in Callers, RunInside(c)
    PROVE  DocumentInv'
<1> DEFINE o == work[c].handle
<1>0. /\ DocumentTypeOK /\ WorkersHaveTurn /\ AllDistinct
      /\ (~Anybody => Settled) /\ (Anybody => InProgress)
  BY DEF DocumentInv
<1>1. UNCHANGED <<bound, chain, work, snapshot, agreed>> /\ AtWork(c) /\ o # NoObject
  BY DEF RunInside, AtWork
<1>2. PICK command \in Commands :
         /\ contents' = [contents EXCEPT ![o] = After(@, command)]
         /\ draft' = [steps |-> draft.steps + 1,
                       contents |-> [draft.contents EXCEPT ![o] = After(@, command)]]
  BY DEF RunInside
<1>3. Anybody /\ InProgress /\ Bound(o)
  BY <1>0, <1>1 DEF Anybody, WorkersHaveTurn
<1> HIDE DEF o
<1>4. contents \in Contained /\ draft.contents \in Contained /\ draft.steps \in Nat
  BY <1>0 DEF DocumentTypeOK, Drafts
<1>5. \A q \in Objects : contents[q] \in [DocIds -> Uniques \cup {NoDoc}] /\ Distinct(contents[q])
        /\ draft.contents[q] \in [DocIds -> Uniques \cup {NoDoc}] /\ Distinct(snapshot.contents[q])
  BY <1>0, <1>4 DEF Contained, AllDistinct
<1>6. contents' \in Contained /\ \A q \in Objects : Distinct(contents'[q])
  BY <1>2, <1>4, <1>5, CommandsKeepBooks DEF Contained
<1>7. draft' \in Drafts
  <2>1. ASSUME NEW book \in [DocIds -> Uniques \cup {NoDoc}]
        PROVE  After(book, command) \in [DocIds -> Uniques \cup {NoDoc}]
    BY DocumentAssumption DEF After, Written, Commands
  <2>2. [draft.contents EXCEPT ![o] = After(@, command)] \in Contained
    BY <1>4, <1>5, <2>1 DEF Contained
  <2> QED BY <1>2, <1>4, <2>2 DEF Drafts
<1>8. DocumentTypeOK'
  BY <1>0, <1>1, <1>6, <1>7 DEF DocumentTypeOK, Contained, Objects, Tasks, Snapshots, Drafts
<1>9. WorkersHaveTurn' /\ Anybody'
  BY <1>0, <1>1, <1>3 DEF WorkersHaveTurn, Anybody, AtWork, MyTurn, Bound
<1>10. AllDistinct'
  BY <1>1, <1>5, <1>6 DEF AllDistinct, Distinct, Present, Objects
<1>11. InProgress'
  <2>1. draft'.contents = [draft.contents EXCEPT ![o] = After(@, command)]
    BY <1>2
  <2>2. ASSUME NEW n \in Books, bound[n] # NoObject
        PROVE  contents'[bound[n]] = draft'.contents[bound[n]]
    <3>1. bound[n] \in Objects /\ contents[bound[n]] = draft.contents[bound[n]]
      BY <1>0, <1>3, <2>2 DEF DocumentTypeOK, InProgress
    <3> QED BY <1>2, <1>4, <2>1, <3>1 DEF Contained
  <2>3. ASSUME NEW q \in Objects, ~Bound(q)
        PROVE  draft'.contents[q] = agreed[q]
    <3>1. q # o /\ draft.contents[q] = agreed[q]
      BY <1>3, <2>3 DEF InProgress
    <3> QED BY <1>4, <2>1, <3>1 DEF Contained
  <2>4. \A n \in snapshot.names :
          bound[n] # NoObject /\ snapshot.contents[bound[n]] = agreed[bound[n]]
    BY <1>3 DEF InProgress
  <2> QED BY <1>1, <2>2, <2>3, <2>4 DEF InProgress, Objects, Bound
<1> QED BY <1>8, <1>9, <1>10, <1>11 DEF DocumentInv

LEMMA NothingHeld ==
    /\ NoSnapshot \in Snapshots /\ NoDraft \in Drafts /\ EmptyBooks \in Contained
    /\ \A o \in Objects : Distinct(EmptyBooks[o]) /\ NoSnapshot.contents[o] = EmptyBooks[o]
<1>1. EmptyBooks \in Contained
  BY DEF EmptyBooks, EmptyBook, Contained
<1>2. NoSnapshot \in Snapshots
  BY <1>1 DEF NoSnapshot, Snapshots
<1>3. NoDraft \in Drafts
  BY <1>1 DEF NoDraft, Drafts
<1>4. \A o \in Objects : Distinct(EmptyBooks[o])
  BY DEF EmptyBooks, EmptyBook, Distinct, Present
<1>5. NoSnapshot.contents = EmptyBooks
  BY DEF NoSnapshot
<1> QED BY <1>1, <1>2, <1>3, <1>4, <1>5

LEMMA CommitKeeps ==
    ASSUME DocumentInv, NEW c \in Callers, Commit(c)
    PROVE  DocumentInv'
<1>0. /\ DocumentTypeOK /\ WorkersHaveTurn /\ AllDistinct
      /\ (~Anybody => Settled) /\ (Anybody => InProgress)
  BY DEF DocumentInv
<1>1. /\ UNCHANGED <<bound, contents>> /\ Leave(c) /\ AtWork(c)
      /\ agreed' = draft.contents /\ snapshot' = NoSnapshot /\ draft' = NoDraft
  BY DEF Commit, AtWork
<1>2. MyTurn(c) /\ InProgress
  BY <1>0, <1>1 DEF WorkersHaveTurn, Anybody
<1>3. chain' \in Seq(Callers) /\ work' \in [Callers -> Tasks] /\ ~Anybody' /\ WorkersHaveTurn'
  BY <1>1, <1>2, LeaveKeeps
<1>4. DocumentTypeOK'
  <2>1. agreed' \in Contained
    BY <1>0, <1>1 DEF DocumentTypeOK, Drafts
  <2> QED BY <1>0, <1>1, <1>3, <2>1, NothingHeld
          DEF DocumentTypeOK, Contained, Objects, Tasks, Snapshots, Drafts
<1>5. AllDistinct'
  BY <1>0, <1>1, NothingHeld DEF AllDistinct, Distinct, Present, Objects
<1>6. Settled'
  BY <1>1, <1>2 DEF Settled, InProgress
<1> QED BY <1>3, <1>4, <1>5, <1>6 DEF DocumentInv

LEMMA AbortKeeps ==
    ASSUME DocumentInv, NEW c \in Callers, Abort(c)
    PROVE  DocumentInv'
<1> DEFINE restored(o) == IF \E n \in snapshot.names : bound[n] = o
                          THEN snapshot.contents[o] ELSE contents[o]
<1>0. /\ DocumentTypeOK /\ WorkersHaveTurn /\ AllDistinct
      /\ (~Anybody => Settled) /\ (Anybody => InProgress)
  BY DEF DocumentInv
<1>1. /\ UNCHANGED agreed /\ Leave(c) /\ AtWork(c)
      /\ snapshot' = NoSnapshot /\ draft' = NoDraft
      /\ bound' = [n \in Books |-> Restored(n)]
      /\ contents' = [o \in Objects |-> restored(o)]
  BY DEF Abort, AtWork
<1>2. MyTurn(c) /\ InProgress
  BY <1>0, <1>1 DEF WorkersHaveTurn, Anybody
<1>3. chain' \in Seq(Callers) /\ work' \in [Callers -> Tasks] /\ ~Anybody' /\ WorkersHaveTurn'
  BY <1>1, <1>2, LeaveKeeps
<1>4. /\ contents \in Contained /\ snapshot.contents \in Contained
      /\ bound \in [Books -> Objects \cup {NoObject}]
  BY <1>0 DEF DocumentTypeOK, Snapshots
<1>5. \A o \in Objects : restored(o) \in {snapshot.contents[o], contents[o]}
  OBVIOUS
<1>6. contents' \in Contained /\ \A o \in Objects : contents'[o] \in {snapshot.contents[o], contents[o]}
  BY <1>1, <1>4, <1>5 DEF Contained
<1>7. bound' \in [Books -> Objects \cup {NoObject}]
  BY <1>1, <1>4 DEF Restored
<1>8. DocumentTypeOK'
  BY <1>0, <1>1, <1>3, <1>6, <1>7, NothingHeld
     DEF DocumentTypeOK, Contained, Objects, Tasks, Snapshots, Drafts
<1>9. AllDistinct'
  <2>1. ASSUME NEW o \in Objects PROVE Distinct(contents'[o]) /\ Distinct(snapshot'.contents[o])
    BY <1>0, <1>1, <1>6, NothingHeld DEF AllDistinct
  <2> QED BY <2>1 DEF AllDistinct, Distinct, Present, Objects
<1>10. Settled'
  <2>1. ASSUME NEW n \in Books, bound'[n] # NoObject
        PROVE  contents'[bound'[n]] = agreed[bound'[n]]
    <3>1. n \in snapshot.names /\ bound'[n] = bound[n] /\ bound[n] \in Objects
      BY <1>1, <1>4, <2>1 DEF Restored
    <3>2. contents'[bound[n]] = snapshot.contents[bound[n]]
      BY <1>1, <3>1
    <3> QED BY <1>2, <3>1, <3>2 DEF InProgress
  <2> QED BY <1>1, <2>1 DEF Settled
<1> QED BY <1>3, <1>8, <1>9, <1>10 DEF DocumentInv

LEMMA DocumentsBegin == DocumentInit => DocumentInv
<1> SUFFICES ASSUME DocumentInit PROVE DocumentInv
  OBVIOUS
<1>1. \A c \in Callers : work[c] = Resting
  BY DEF DocumentInit
<1>2. Resting \in Tasks /\ Resting.state = "resting"
  BY DEF Resting, Tasks
<1>3. ~Anybody /\ WorkersHaveTurn
  BY <1>1, <1>2 DEF Anybody, AtWork, WorkersHaveTurn
<1>4. DocumentTypeOK
  BY <1>2, NothingHeld DEF DocumentInit, DocumentTypeOK
<1>5. AllDistinct
  BY NothingHeld DEF DocumentInit, AllDistinct
<1>6. Settled
  BY DEF DocumentInit, Settled
<1> QED BY <1>3, <1>4, <1>5, <1>6 DEF DocumentInv

LEMMA DocumentStep == DocumentInv /\ [DocumentNext]_documentVars => DocumentInv'
<1> SUFFICES ASSUME DocumentInv, [DocumentNext]_documentVars PROVE DocumentInv'
  OBVIOUS
<1>1. ASSUME NEW c \in Callers, NEW n \in Books, Open(c, n) PROVE DocumentInv'
  BY <1>1, OpenKeeps
<1>2. ASSUME NEW c \in Callers, Enqueue(c) PROVE DocumentInv'
  BY <1>2, EnqueueKeeps
<1>3. ASSUME NEW c \in Callers, RunMethod(c) PROVE DocumentInv'
  BY <1>3, RunMethodKeeps
<1>4. ASSUME NEW c \in Callers, Begin(c) PROVE DocumentInv'
  BY <1>4, BeginKeeps
<1>5. ASSUME NEW c \in Callers, RunInside(c) PROVE DocumentInv'
  BY <1>5, RunInsideKeeps
<1>6. ASSUME NEW c \in Callers, Commit(c) PROVE DocumentInv'
  BY <1>6, CommitKeeps
<1>7. ASSUME NEW c \in Callers, Abort(c) PROVE DocumentInv'
  BY <1>7, AbortKeeps
<1>8. CASE UNCHANGED documentVars
  BY <1>8 DEF documentVars, DocumentInv, DocumentTypeOK, WorkersHaveTurn, AllDistinct,
              Settled, InProgress, Anybody, AtWork, Bound, MyTurn, Distinct, Present,
              Contained, Objects, Tasks, Snapshots, Drafts
<1> QED BY <1>1, <1>2, <1>3, <1>4, <1>5, <1>6, <1>7, <1>8 DEF DocumentNext

\* However methods and transactions of many callers interleave, commit and abort:
\* the named collections hold what the finished calls, one after the other, make
\* of them, and no two documents share a unique value (MemoryDatabase).
THEOREM FinishedCallsStand == DocumentSpec => []FinishedCallsOnly
<1>1. DocumentInit => DocumentInv
  BY DocumentsBegin
<1>2. DocumentInv /\ [DocumentNext]_documentVars => DocumentInv'
  BY DocumentStep
<1>3. DocumentInv => FinishedCallsOnly
  BY DEF DocumentInv, FinishedCallsOnly, AllDistinct, Distinct, Settled, Anybody, AtWork
<1> QED BY <1>1, <1>2, <1>3, PTL DEF DocumentSpec


(***************************************************************************)
(* DocumentQueries.  A filter of the program asks for null only where it   *)
(* asks for a missing field too, so the store takes the documents MongoDB  *)
(* would.  A sort, with the order of the Map where it does not tell, puts  *)
(* any two documents one before the other, so as many are ahead of each as *)
(* its place in the listing says.                                          *)
(***************************************************************************)

Tables == [DocumentIds -> Documents \cup {NoRow}]

\* The order of the Map puts any two documents one before the other.
MapOrder(pairs, ids) ==
    /\ pairs \subseteq ids \X ids
    /\ \A a \in ids : <<a, a>> \notin pairs
    /\ \A a \in ids : \A b \in ids : a # b => <<a, b>> \in pairs \/ <<b, a>> \in pairs
    /\ \A a \in ids : \A b \in ids : \A c \in ids :
          <<a, b>> \in pairs /\ <<b, c>> \in pairs => <<a, c>> \in pairs

QueryInv ==
    /\ rows \in Tables
    /\ MapOrder(before, Found(rows))
    /\ asMongo

Matching(filter) == {id \in Found(rows) : MongoMatches(rows, id, filter)}

-----------------------------------------------------------------------------
(* Filters.                                                                *)

Operators == {"eq", "ne", "nin", "missing", "gt", "gte", "lt", "lte"}
Plain(filter) ==
    \A alternative \in filter : \A condition \in alternative :
        condition.op \in Operators /\ Missing \notin condition.values /\ Null \notin condition.values

LEMMA OneCondition ==
    ASSUME NEW actual, NEW op \in Operators, NEW values, Missing \notin values, Null \notin values
    PROVE  Satisfies(actual, op, values) <=>
              IF op = "missing" THEN actual = Missing ELSE Satisfies(AsNull(actual), op, values)
<1>1. CASE actual # Missing
  BY <1>1 DEF AsNull, Satisfies
<1>2. CASE actual = Missing
  <2>1. AsNull(actual) = Null
    BY <1>2 DEF AsNull
  <2>2. CASE op = "missing"
    BY <1>2, <2>2 DEF Satisfies
  <2>3. CASE op = "eq"
    BY <1>2, <2>1, <2>3 DEF Satisfies
  <2>4. CASE op \in {"ne", "nin"}
    BY <1>2, <2>1, <2>4 DEF Satisfies
  <2>5. CASE op \in {"gt", "gte", "lt", "lte"}
    BY <1>2, <2>1, <2>5 DEF Satisfies, Comparable
  <2> QED BY <2>2, <2>3, <2>4, <2>5 DEF Operators
<1> QED BY <1>1, <1>2

LEMMA PlainFilters ==
    ASSUME NEW table, NEW id, NEW filter, Plain(filter)
    PROVE  MatchesFilter(table, id, filter) <=> MongoMatches(table, id, filter)
<1>1. ASSUME NEW alternative \in filter, NEW condition \in alternative
      PROVE  Satisfies(Read(table, id, condition.field), condition.op, condition.values) <=>
               LET actual == Read(table, id, condition.field) IN
               IF condition.op = "missing" THEN actual = Missing
               ELSE Satisfies(AsNull(actual), condition.op, condition.values)
  BY OneCondition DEF Plain
<1> QED BY <1>1 DEF MatchesFilter, MongoMatches

\* The program asks for null only where it asks for a missing field too.
LEMMA FiltersAgree ==
    ASSUME NEW table, NEW id, NEW filter \in Filters
    PROVE  MatchesFilter(table, id, filter) <=> MongoMatches(table, id, filter)
<1>0. /\ \A n \in Int : n # Missing /\ n # Null
      /\ \A d \in DocumentIds : d # Missing /\ d # Null
      /\ Missing # Null
  BY QueryAssumption
<1>1. Marks \subseteq Int /\ Ranks \subseteq Int
  BY DEF Marks, Ranks
<1>2. CASE filter \in {Everything} \cup {ById(d) : d \in DocumentIds} \cup {Unlike(v) : v \in Marks}
                        \cup {Enough(d, v) : d \in DocumentIds, v \in Ranks}
                        \cup {Expected(d, v) : d \in DocumentIds, v \in Ranks}
                        \cup {Stretch(a, b) : a \in Ranks, b \in Ranks}
                        \cup {Outside(a, b) : a \in Ranks, b \in Ranks}
  <2>1. Plain(Everything)
    BY DEF Plain, Everything
  <2>2. ASSUME NEW d \in DocumentIds PROVE Plain(ById(d))
    BY <1>0 DEF Plain, ById, Cond, Operators
  <2>3. ASSUME NEW v \in Marks PROVE Plain(Unlike(v))
    BY <1>0, <1>1 DEF Plain, Unlike, Cond, Operators
  <2>4. ASSUME NEW d \in DocumentIds, NEW v \in Ranks PROVE Plain(Enough(d, v)) /\ Plain(Expected(d, v))
    BY <1>0, <1>1 DEF Plain, Enough, Expected, Cond, Operators
  <2>5. ASSUME NEW a \in Ranks, NEW b \in Ranks PROVE Plain(Stretch(a, b)) /\ Plain(Outside(a, b))
    BY <1>0, <1>1 DEF Plain, Stretch, Outside, Cond, Operators
  <2>6. Plain(filter)
    BY <1>2, <2>1, <2>2, <2>3, <2>4, <2>5
  <2> QED BY <2>6, PlainFilters
<1>3. ASSUME NEW v \in Marks, filter = Unexpired(v)
      PROVE  MatchesFilter(table, id, filter) <=> MongoMatches(table, id, filter)
  <2> DEFINE actual == Read(table, id, "mark")
  <2>1. MatchesFilter(table, id, filter) <=>
          \/ Satisfies(actual, "missing", {}) \/ Satisfies(actual, "eq", {Null})
          \/ Satisfies(actual, "gt", {v})
    BY <1>3 DEF MatchesFilter, Unexpired, Cond
  <2>2. MongoMatches(table, id, filter) <=>
          \/ actual = Missing \/ Satisfies(AsNull(actual), "eq", {Null})
          \/ Satisfies(AsNull(actual), "gt", {v})
    BY <1>3 DEF MongoMatches, Unexpired, Cond
  <2>3. Satisfies(actual, "missing", {}) <=> actual = Missing
    BY DEF Satisfies
  <2>4. actual # Missing => AsNull(actual) = actual
    BY DEF AsNull
  <2> QED BY <2>1, <2>2, <2>3, <2>4
<1>4. ASSUME NEW v \in Ranks, NEW over \in {{}, {1}}, filter = Due(v, over)
      PROVE  MatchesFilter(table, id, filter) <=> MongoMatches(table, id, filter)
  <2> DEFINE actual == Read(table, id, "rank")
             mark == Read(table, id, "mark")
             first == Cond("mark", "nin", over)
             paired(c) == {first, c}
  <2>1. filter = {paired(c) : c \in {Cond("rank", "missing", {}), Cond("rank", "eq", {Null}),
                                     Cond("rank", "lte", {v})}}
    BY <1>4 DEF Due
  <2>2. filter = {paired(Cond("rank", "missing", {})), paired(Cond("rank", "eq", {Null})),
                  paired(Cond("rank", "lte", {v}))}
    BY <2>1
  <2>3. MatchesFilter(table, id, filter) <=>
          /\ Satisfies(mark, "nin", over)
          /\ \/ Satisfies(actual, "missing", {}) \/ Satisfies(actual, "eq", {Null})
             \/ Satisfies(actual, "lte", {v})
    BY <2>2 DEF MatchesFilter, Cond
  <2>4. MongoMatches(table, id, filter) <=>
          /\ Satisfies(AsNull(mark), "nin", over)
          /\ \/ actual = Missing \/ Satisfies(AsNull(actual), "eq", {Null})
             \/ Satisfies(AsNull(actual), "lte", {v})
    BY <2>2 DEF MongoMatches, Cond
  <2>5. Satisfies(actual, "missing", {}) <=> actual = Missing
    BY DEF Satisfies
  <2>6. actual # Missing => AsNull(actual) = actual
    BY DEF AsNull
  <2>7. Satisfies(mark, "nin", over) <=> Satisfies(AsNull(mark), "nin", over)
    <3>1. "nin" \in Operators /\ Missing \notin over /\ Null \notin over
      BY <1>0 DEF Operators
    <3> QED BY <3>1, OneCondition
  <2> QED BY <2>3, <2>4, <2>5, <2>6, <2>7
<1> QED BY <1>2, <1>3, <1>4 DEF Filters

LEMMA MatchingAgrees ==
    ASSUME NEW filter \in Filters
    PROVE  {id \in Found(rows) : MatchesFilter(rows, id, filter)} = Matching(filter)
BY FiltersAgree DEF Matching

-----------------------------------------------------------------------------
(* The order of an answer.                                                 *)

LEMMA RanksAreNumbers ==
    ASSUME rows \in Tables, NEW a \in Found(rows), NEW b \in Found(rows)
    PROVE  /\ MongoRank(a) \in Nat
           /\ Less(rows, a, b) <=> MongoRank(a) < MongoRank(b)
<1>1. rows[a] \in Documents /\ rows[b] \in Documents
  BY DEF Found, Tables
<1>2. /\ rows[a].rank = Missing \/ rows[a].rank \in Nat \ {0}
      /\ rows[b].rank = Missing \/ rows[b].rank \in Nat \ {0}
  BY <1>1 DEF Documents, Ranks
<1>3. \A n \in Nat : n # Missing /\ n # Null
  BY QueryAssumption
<1>4. Missing # Null
  BY QueryAssumption
<1> QED BY <1>2, <1>3, <1>4 DEF MongoRank, Less, Comparable

\* One before the other, and never round in a circle.
InLine(direction, ids) ==
    /\ \A a \in ids : ~Ahead(direction, a, a)
    /\ \A a \in ids : \A b \in ids : a # b => Ahead(direction, a, b) \/ Ahead(direction, b, a)
    /\ \A a \in ids : \A b \in ids : \A c \in ids :
          Ahead(direction, a, b) /\ Ahead(direction, b, c) => Ahead(direction, a, c)

LEMMA AheadIsOrder ==
    ASSUME QueryInv, NEW direction \in Directions
    PROVE  InLine(direction, Found(rows))
<1> DEFINE F == Found(rows)
<1>1. rows \in Tables /\ MapOrder(before, F)
  BY DEF QueryInv
<1>2. \A a \in F : MongoRank(a) \in Nat
  BY <1>1, RanksAreNumbers
<1>3. \A a \in F : \A b \in F : Less(rows, a, b) <=> MongoRank(a) < MongoRank(b)
  BY <1>1, RanksAreNumbers
<1> HIDE DEF F
<1>4. CASE direction = "none"
  <2>1. \A a \in F : \A b \in F : Ahead(direction, a, b) <=> <<a, b>> \in before
    BY <1>4 DEF Ahead, Precedes
  <2> QED BY <1>1, <2>1 DEF InLine, MapOrder, F
<1>5. CASE direction = "up"
  <2>1. \A a \in F : \A b \in F : Ahead(direction, a, b) <=>
           \/ MongoRank(a) < MongoRank(b)
           \/ ~(MongoRank(b) < MongoRank(a)) /\ <<a, b>> \in before
    BY <1>3, <1>5 DEF Ahead, Precedes
  <2>2. ASSUME NEW a \in F PROVE ~Ahead(direction, a, a)
    <3>1. <<a, a>> \notin before
      BY <1>1 DEF MapOrder
    <3>2. ~(MongoRank(a) < MongoRank(a))
      BY <1>2
    <3> QED BY <2>1, <3>1, <3>2
  <2>3. ASSUME NEW a \in F, NEW b \in F, a # b
        PROVE  Ahead(direction, a, b) \/ Ahead(direction, b, a)
    BY <1>1, <1>2, <2>1, <2>3 DEF MapOrder
  <2>4. ASSUME NEW a \in F, NEW b \in F, NEW c \in F, Ahead(direction, a, b), Ahead(direction, b, c)
        PROVE  Ahead(direction, a, c)
    <3>1. MongoRank(a) \in Nat /\ MongoRank(b) \in Nat /\ MongoRank(c) \in Nat
      BY <1>2
    <3>2. <<a, b>> \in before /\ <<b, c>> \in before => <<a, c>> \in before
      BY <1>1 DEF MapOrder
    <3> QED BY <2>1, <2>4, <3>1, <3>2
  <2> QED BY <2>2, <2>3, <2>4 DEF InLine, F
<1>6. CASE direction = "down"
  <2>1. \A a \in F : \A b \in F : Ahead(direction, a, b) <=>
           \/ MongoRank(b) < MongoRank(a)
           \/ ~(MongoRank(a) < MongoRank(b)) /\ <<a, b>> \in before
    BY <1>3, <1>6 DEF Ahead, Precedes
  <2>2. ASSUME NEW a \in F PROVE ~Ahead(direction, a, a)
    <3>1. <<a, a>> \notin before
      BY <1>1 DEF MapOrder
    <3>2. ~(MongoRank(a) < MongoRank(a))
      BY <1>2
    <3> QED BY <2>1, <3>1, <3>2
  <2>3. ASSUME NEW a \in F, NEW b \in F, a # b
        PROVE  Ahead(direction, a, b) \/ Ahead(direction, b, a)
    BY <1>1, <1>2, <2>1, <2>3 DEF MapOrder
  <2>4. ASSUME NEW a \in F, NEW b \in F, NEW c \in F, Ahead(direction, a, b), Ahead(direction, b, c)
        PROVE  Ahead(direction, a, c)
    <3>1. MongoRank(a) \in Nat /\ MongoRank(b) \in Nat /\ MongoRank(c) \in Nat
      BY <1>2
    <3>2. <<a, b>> \in before /\ <<b, c>> \in before => <<a, c>> \in before
      BY <1>1 DEF MapOrder
    <3> QED BY <2>1, <2>4, <3>1, <3>2
  <2> QED BY <2>2, <2>3, <2>4 DEF InLine, F
<1> QED BY <1>4, <1>5, <1>6 DEF Directions

\* All of them, each once, in line.
Lists(s, ids, direction) ==
    /\ s \in [1..Cardinality(ids) -> ids]
    /\ \A i, j \in 1..Cardinality(ids) : i # j => s[i] # s[j]
    /\ \A id \in ids : \E i \in 1..Cardinality(ids) : s[i] = id
    /\ \A i, j \in 1..Cardinality(ids) : i < j => Ahead(direction, s[i], s[j])

LEMMA ListedLists ==
    ASSUME NEW direction, NEW ids, IsFiniteSet(ids), InLine(direction, ids)
    PROVE  Lists(Listed(ids, direction), ids, direction) /\ Cardinality(ids) \in Nat
<1> DEFINE n == Cardinality(ids)
           Preceding(id) == {other \in ids : Ahead(direction, other, id)}
           at == [id \in ids |-> Cardinality(Preceding(id)) + 1]
           s == Listed(ids, direction)
<1>1. n \in Nat
  BY FS_CardinalityType
<1>2. ASSUME NEW id \in ids
      PROVE  /\ IsFiniteSet(Preceding(id)) /\ Cardinality(Preceding(id)) \in Nat
             /\ IsFiniteSet(Preceding(id) \cup {id})
             /\ Cardinality(Preceding(id) \cup {id}) = at[id]
  <2>1. Preceding(id) \subseteq ids /\ id \notin Preceding(id)
    BY DEF InLine
  <2>2. IsFiniteSet(Preceding(id))
    BY <2>1, FS_Subset
  <2> DEFINE P == Preceding(id)
  <2>3. IsFiniteSet(P) /\ id \notin P /\ at[id] = Cardinality(P) + 1
    BY <2>1, <2>2
  <2> HIDE DEF P, at
  <2>4. IsFiniteSet(P \cup {id}) /\ Cardinality(P \cup {id}) = Cardinality(P) + 1
    BY <2>3, FS_AddElement
  <2>5. Cardinality(P) \in Nat
    BY <2>3, FS_CardinalityType
  <2> QED BY <2>3, <2>4, <2>5 DEF P
<1>3. ASSUME NEW id \in ids PROVE at[id] \in 1..n
  <2>1. Preceding(id) \cup {id} \subseteq ids
    OBVIOUS
  <2>2. Cardinality(Preceding(id) \cup {id}) <= n
    BY <2>1, FS_Subset
  <2> QED BY <2>2, <1>1, <1>2
<1>4. ASSUME NEW a \in ids, NEW b \in ids, Ahead(direction, a, b) PROVE at[a] < at[b]
  <2>1. Preceding(a) \cup {a} \subseteq Preceding(b)
    BY <1>4 DEF InLine
  <2>2. IsFiniteSet(Preceding(b)) /\ Cardinality(Preceding(b)) \in Nat
        /\ Cardinality(Preceding(a) \cup {a}) = at[a] /\ at[b] = Cardinality(Preceding(b)) + 1
    BY <1>2
  <2> HIDE DEF Preceding, at
  <2>3. Cardinality(Preceding(a) \cup {a}) <= Cardinality(Preceding(b))
    BY <2>1, <2>2, FS_Subset
  <2>4. at[a] \in Nat
    <3>1. at[a] \in 1..n
      BY <1>3
    <3> QED BY <3>1, <1>1
  <2> QED BY <2>2, <2>3, <2>4
<1>5. ASSUME NEW a \in ids, NEW b \in ids, a # b PROVE at[a] # at[b]
  <2>1. at[a] < at[b] \/ at[b] < at[a]
    BY <1>4, <1>5 DEF InLine
  <2>2. at[a] \in Int /\ at[b] \in Int
    BY <1>3, <1>1
  <2> QED BY <2>1, <2>2
<1>6. s = [i \in 1..n |-> CHOOSE id \in ids : Cardinality(Preceding(id)) = i - 1]
  BY Zenon DEF Listed
<1>7. \A id \in ids : Cardinality(Preceding(id)) \in Nat /\ at[id] = Cardinality(Preceding(id)) + 1
  BY <1>2
<1> HIDE DEF at, n, s, Preceding
<1>8. at \in Surjection(ids, 1..n)
  <2>1. DOMAIN at = ids /\ at = [id \in ids |-> at[id]]
    BY DEF at
  <2>2. at \in [ids -> 1..n]
    BY <2>1, <1>3
  <2>3. at \in Injection(ids, 1..n)
    BY <2>2, <1>5 DEF Injection, IsInjective
  <2>4. IsFiniteSet(1..n) /\ Cardinality(1..n) = n
    <3>1. 1 \in Int /\ n \in Int /\ (1 > n => n = 0) /\ (n - 1) + 1 = n
      BY <1>1
    <3> QED BY <3>1, FS_Interval
  <2> QED BY <2>3, <2>4, FS_Injection DEF n
<1>9. ASSUME NEW i \in 1..n PROVE s[i] \in ids /\ at[s[i]] = i
  <2>1. \E id \in ids : at[id] = i
    BY <1>8 DEF Surjection
  <2>2. i \in Int
    BY <1>1
  <2>3. \E id \in ids : Cardinality(Preceding(id)) = i - 1
    BY <2>1, <2>2, <1>7
  <2>4. s[i] \in ids /\ Cardinality(Preceding(s[i])) = i - 1
    BY <1>6, <2>3
  <2> QED BY <2>2, <2>4, <1>7
<1>10. s \in [1..n -> ids]
  <2>1. s = [i \in 1..n |-> s[i]]
    BY <1>6
  <2> QED BY <2>1, <1>9
<1>11. \A i, j \in 1..n : i # j => s[i] # s[j]
  BY <1>9
<1>12. \A id \in ids : \E i \in 1..n : s[i] = id
  <2> SUFFICES ASSUME NEW id \in ids PROVE \E i \in 1..n : s[i] = id
    OBVIOUS
  <2>1. at[id] \in 1..n /\ s[at[id]] \in ids /\ at[s[at[id]]] = at[id]
    BY <1>3, <1>9
  <2> QED BY <2>1, <1>5
<1>13. \A i, j \in 1..n : i < j => Ahead(direction, s[i], s[j])
  <2> SUFFICES ASSUME NEW i \in 1..n, NEW j \in 1..n, i < j PROVE Ahead(direction, s[i], s[j])
    OBVIOUS
  <2>1. s[i] \in ids /\ s[j] \in ids /\ at[s[i]] = i /\ at[s[j]] = j
    BY <1>9
  <2>2. ~(j < i) /\ i # j
    BY <1>1
  <2>3. ~Ahead(direction, s[j], s[i])
    BY <2>1, <2>2, <1>4
  <2> QED BY <2>1, <2>2, <2>3 DEF InLine
<1> QED BY <1>1, <1>10, <1>11, <1>12, <1>13 DEF Lists, n, s

-----------------------------------------------------------------------------
(* What a query brings.                                                    *)

Upto(n, m) == IF n < m THEN n ELSE m

LEMMA QueryBrings ==
    ASSUME QueryInv, NEW filter \in Filters, NEW direction \in Directions, NEW skip, NEW limit
    PROVE  LET ids == Matching(filter)
               all == Listed(ids, direction)
           IN  /\ Lists(all, ids, direction) /\ Cardinality(ids) \in Nat /\ IsFiniteSet(ids)
               /\ Len(all) = Cardinality(ids) /\ all \in Seq(ids)
               /\ Query(filter, direction, skip, limit) =
                    SubSeq(all, skip + 1, Upto(Len(all), skip + limit))
<1> DEFINE ids == Matching(filter)
           all == Listed(ids, direction)
<1>1. ids \subseteq Found(rows) /\ ids \subseteq DocumentIds
  BY DEF Matching, Found
<1>2. IsFiniteSet(ids)
  BY <1>1, QueryAssumption, FS_Subset
<1>3. InLine(direction, ids)
  BY <1>1, AheadIsOrder DEF InLine
<1>4. Query(filter, direction, skip, limit) = SubSeq(all, skip + 1, Upto(Len(all), skip + limit))
  BY MatchingAgrees, Zenon DEF Query, Upto
<1> HIDE DEF ids
<1>5. Lists(all, ids, direction) /\ Cardinality(ids) \in Nat
  BY <1>2, <1>3, ListedLists
<1> HIDE DEF all
<1>6. Len(all) = Cardinality(ids) /\ all \in Seq(ids)
  BY <1>5 DEF Lists
<1> QED BY <1>2, <1>4, <1>5, <1>6 DEF ids, all

LEMMA FindsAsMongo ==
    ASSUME QueryInv, NEW filter \in Filters, NEW direction \in Directions, NEW skip, NEW limit
    PROVE  MongoMayFind(Query(filter, direction, skip, limit), filter, direction, skip, limit)
<1> DEFINE ids == Matching(filter)
           all == Listed(ids, direction)
           found == Query(filter, direction, skip, limit)
<1>1. /\ Lists(all, ids, direction) /\ Cardinality(ids) \in Nat
      /\ Len(all) = Cardinality(ids)
      /\ found = SubSeq(all, skip + 1, Upto(Len(all), skip + limit))
  BY QueryBrings
<1>2. \A a \in ids : \A b \in ids :
         /\ MongoRank(a) \in Nat /\ MongoRank(b) \in Nat
         /\ Less(rows, a, b) <=> MongoRank(a) < MongoRank(b)
         /\ Less(rows, b, a) <=> MongoRank(b) < MongoRank(a)
  BY RanksAreNumbers DEF QueryInv, Matching
<1> HIDE DEF ids, all, found
<1>3. all \in SetToSeqs(ids)
  BY <1>1 DEF SetToSeqs, Lists
<1>4. MongoSorted(all, direction)
  <2> SUFFICES ASSUME NEW i \in 1..Len(all), NEW j \in 1..Len(all), i < j
               PROVE  /\ direction = "up" => MongoRank(all[i]) <= MongoRank(all[j])
                      /\ direction = "down" => MongoRank(all[i]) >= MongoRank(all[j])
    BY DEF MongoSorted
  <2>1. all[i] \in ids /\ all[j] \in ids /\ Ahead(direction, all[i], all[j])
    BY <1>1 DEF Lists
  <2>2. /\ MongoRank(all[i]) \in Nat /\ MongoRank(all[j]) \in Nat
        /\ Less(rows, all[i], all[j]) <=> MongoRank(all[i]) < MongoRank(all[j])
        /\ Less(rows, all[j], all[i]) <=> MongoRank(all[j]) < MongoRank(all[i])
    BY <1>2, <2>1
  <2> QED BY <2>1, <2>2 DEF Ahead, Precedes
<1>5. found = SubSeq(all, skip + 1, IF Len(all) < skip + limit THEN Len(all) ELSE skip + limit)
  BY <1>1 DEF Upto
<1>6. \E s \in SetToSeqs(ids) :
         /\ MongoSorted(s, direction)
         /\ found = SubSeq(s, skip + 1, IF Len(s) < skip + limit THEN Len(s) ELSE skip + limit)
  BY <1>3, <1>4, <1>5
<1> QED BY <1>6 DEF MongoMayFind, Matching, ids, found

\* The first that is found.
LEMMA QueryFirst ==
    ASSUME QueryInv, NEW filter \in Filters
    PROVE  LET found == Query(filter, "none", 0, 1)
           IN  \/ found = <<>> /\ Matching(filter) = {}
               \/ found # <<>> /\ found[1] \in Matching(filter) /\ Range(found) = {found[1]}
<1> DEFINE ids == Matching(filter)
           all == Listed(ids, "none")
           found == Query(filter, "none", 0, 1)
<1>1. "none" \in Directions
  BY DEF Directions
<1>2. /\ Lists(all, ids, "none") /\ Cardinality(ids) \in Nat /\ IsFiniteSet(ids)
      /\ Len(all) = Cardinality(ids) /\ all \in Seq(ids)
      /\ found = SubSeq(all, 0 + 1, Upto(Len(all), 0 + 1))
  BY <1>1, QueryBrings
<1> HIDE DEF ids, all, found
<1>3. CASE Len(all) = 0
  <2>1. ids = {}
    BY <1>2, <1>3, FS_EmptySet
  <2>2. found = <<>>
    BY <1>2, <1>3 DEF Upto
  <2> QED BY <2>1, <2>2 DEF ids, found
<1>4. CASE Len(all) # 0
  <2>1. found = SubSeq(all, 1, 1) /\ 1 \in 1..Len(all)
    BY <1>2, <1>4 DEF Upto
  <2>2. all[1] \in ids
    BY <2>1, <1>2 DEF Lists
  <2>3. Len(found) = 1 /\ found \in Seq(ids) /\ found[1] = all[1]
    <3>1. \A i \in 1..1 : all[i] \in ids
      BY <2>2
    <3>2. /\ SubSeq(all, 1, 1) \in Seq(ids)
          /\ Len(SubSeq(all, 1, 1)) = (IF 1 <= 1 THEN 1 - 1 + 1 ELSE 0)
          /\ \A i \in 1..(1 - 1 + 1) : SubSeq(all, 1, 1)[i] = all[1 + i - 1]
      BY <3>1, SubSeqProperties
    <3> QED BY <3>2, <2>1
  <2>4. DOMAIN found = {1} /\ found # <<>>
    BY <2>3
  <2> QED BY <2>2, <2>3, <2>4 DEF ids, found, Range
<1> QED BY <1>3, <1>4

\* All of them.
LEMMA QueryAll ==
    ASSUME QueryInv, NEW filter \in Filters
    PROVE  LET found == Query(filter, "none", 0, Cardinality(DocumentIds))
           IN  Range(found) = Matching(filter) /\ Len(found) = Cardinality(Matching(filter))
<1> DEFINE ids == Matching(filter)
           all == Listed(ids, "none")
           n == Cardinality(DocumentIds)
           found == Query(filter, "none", 0, n)
<1>1. "none" \in Directions
  BY DEF Directions
<1>2. /\ Lists(all, ids, "none") /\ Cardinality(ids) \in Nat
      /\ Len(all) = Cardinality(ids) /\ all \in Seq(ids)
      /\ found = SubSeq(all, 0 + 1, Upto(Len(all), 0 + n))
  BY <1>1, QueryBrings
<1>3. Cardinality(ids) <= n /\ n \in Nat
  <2>1. ids \subseteq DocumentIds
    BY DEF Matching, Found
  <2> QED BY <2>1, QueryAssumption, FS_Subset, FS_CardinalityType
<1> HIDE DEF ids, all, found, n
<1>4. found = SubSeq(all, 1, Len(all))
  BY <1>2, <1>3 DEF Upto
<1>5. found = all
  BY <1>2, <1>4
<1>6. Range(all) = ids
  <2>1. DOMAIN all = 1..Cardinality(ids) /\ \A i \in 1..Cardinality(ids) : all[i] \in ids
    BY <1>2 DEF Lists
  <2>2. \A id \in ids : \E i \in 1..Cardinality(ids) : all[i] = id
    BY <1>2 DEF Lists
  <2> QED BY <2>1, <2>2 DEF Range
<1> QED BY <1>2, <1>5, <1>6 DEF ids, found, n

-----------------------------------------------------------------------------
(* Steps.                                                                  *)

LEMMA ClashesAgree ==
    ASSUME rows \in Tables, NEW id, NEW writing \in Documents
    PROVE  Clashes(id, writing) = MongoClashes(id, writing)
<1>1. \A other \in Found(rows) \ {id} : rows[other] \in Documents
  BY DEF Found, Tables
<1>2. \A d \in Documents : d.rank # Null /\ d.mark \in Marks \cup {Missing, Null}
  <2>1. \A n \in Int : n # Null
    BY QueryAssumption
  <2>2. Missing # Null
    BY QueryAssumption
  <2> QED BY <2>1, <2>2 DEF Documents, Ranks
<1>3. \A other \in Found(rows) \ {id} :
         AsNull(rows[other].rank) = AsNull(writing.rank) <=> rows[other].rank = writing.rank
  BY <1>1, <1>2 DEF AsNull
<1>4. Clashes(id, writing) <=> MongoClashes(id, writing)
  BY <1>3 DEF Clashes, MongoClashes
<1>5. Clashes(id, writing) \in BOOLEAN /\ MongoClashes(id, writing) \in BOOLEAN
  BY DEF Clashes, MongoClashes
<1> QED BY <1>4, <1>5

\* One document more, or any fewer.
LEMMA MapKeepsOrder ==
    ASSUME QueryInv, NEW table \in Tables, NEW id, Found(table) \subseteq Found(rows) \cup {id},
           Keeping(table)
    PROVE  rows' \in Tables /\ MapOrder(before', Found(rows'))
<1> DEFINE F == Found(rows)
           G == Found(table)
<1>1. MapOrder(before, F) /\ G \subseteq F \cup {id}
  BY DEF QueryInv
<1>2. rows' = table /\ before' = (before \cap (G \X G)) \cup ((F \cap G) \X (G \ F))
  BY DEF Keeping
<1> HIDE DEF F, G
<1>3. \A a, b : <<a, b>> \in before' <=>
          \/ <<a, b>> \in before /\ a \in G /\ b \in G
          \/ a \in F /\ a \in G /\ b \in G /\ b \notin F
  BY <1>2
<1>4. \A a, b : <<a, b>> \in before => a \in F /\ b \in F
  BY <1>1 DEF MapOrder
<1>5. before' \subseteq G \X G
  BY <1>2
<1>6. ASSUME NEW a \in G PROVE <<a, a>> \notin before'
  BY <1>1, <1>3, <1>4 DEF MapOrder
<1>7. ASSUME NEW a \in G, NEW b \in G, a # b PROVE <<a, b>> \in before' \/ <<b, a>> \in before'
  <2>1. a \in F \/ b \in F
    BY <1>1, <1>7
  <2>2. a \in F /\ b \in F => <<a, b>> \in before \/ <<b, a>> \in before
    BY <1>1, <1>7 DEF MapOrder
  <2> QED BY <2>1, <2>2, <1>3
<1>8. ASSUME NEW a \in G, NEW b \in G, NEW c \in G, <<a, b>> \in before', <<b, c>> \in before'
      PROVE  <<a, c>> \in before'
  <2>1. a \in F /\ b \in F
    BY <1>3, <1>4, <1>8
  <2>2. CASE c \in F
    <3>1. <<a, b>> \in before /\ <<b, c>> \in before
      BY <2>1, <2>2, <1>3, <1>8
    <3>2. <<a, c>> \in before
      BY <3>1, <2>1, <2>2, <1>1 DEF MapOrder
    <3> QED BY <3>2, <1>3
  <2>3. CASE c \notin F
    BY <2>1, <2>3, <1>3
  <2> QED BY <2>2, <2>3
<1>9. MapOrder(before', G)
  BY <1>5, <1>6, <1>7, <1>8 DEF MapOrder
<1> QED BY <1>2, <1>9 DEF G

LEMMA ChangedOrKept ==
    ASSUME QueryInv, NEW id \in DocumentIds, NEW writing \in Documents
    PROVE  /\ [rows EXCEPT ![id] = writing] \in Tables /\ rows \in Tables
           /\ Found([rows EXCEPT ![id] = writing]) \subseteq Found(rows) \cup {id}
           /\ Found(rows) \subseteq Found(rows) \cup {id}
BY DEF QueryInv, Tables, Found

LEMMA UpdatedDocuments ==
    ASSUME NEW writing \in Documents, NEW update \in Updates,
           Updated(writing, update).rank \in Ranks \cup {Missing}
    PROVE  Updated(writing, update) \in Documents
<1>1. Updated(writing, update).mark \in Marks \cup {Missing, Null}
  BY DEF Updated, Updates, Documents, Keep
<1> QED BY <1>1 DEF Updated, Documents

LEMMA QueryInvInit == QueryInit => QueryInv
<1> SUFFICES ASSUME QueryInit PROVE QueryInv
  OBVIOUS
<1>1. rows \in Tables
  BY DEF QueryInit, Tables
<1>2. Found(rows) = {}
  BY DEF QueryInit, Found
<1>3. MapOrder(before, Found(rows))
  BY <1>2 DEF QueryInit, MapOrder
<1> QED BY <1>1, <1>3 DEF QueryInit, QueryInv

LEMMA IdFilters == \A id \in DocumentIds : ById(id) \in Filters
BY DEF Filters

LEMMA QueryInvStep == QueryInv /\ [QueryNext]_queryVars => QueryInv'
<1> SUFFICES ASSUME QueryInv, [QueryNext]_queryVars PROVE QueryInv'
  OBVIOUS
<1>1. rows \in Tables /\ asMongo
  BY DEF QueryInv
<1>2. CASE UNCHANGED queryVars
  BY <1>2 DEF queryVars, QueryInv, MapOrder, Found
<1>3. CASE Find
  <2>1. \A filter \in Filters :
          /\ \A direction \in Directions, skip \in 0..1, limit \in 1..2 :
               MongoMayFind(Query(filter, direction, skip, limit), filter, direction, skip, limit)
          /\ Len(Query(filter, "none", 0, Cardinality(DocumentIds))) =
               Cardinality({id \in Found(rows) : MongoMatches(rows, id, filter)})
    BY FindsAsMongo, QueryAll DEF Matching
  <2>2. asMongo'
    BY <2>1, <1>3 DEF Find
  <2>3. UNCHANGED <<rows, before>>
    BY <1>3 DEF Find
  <2> QED BY <2>2, <2>3 DEF QueryInv, MapOrder, Found
<1>4. CASE Insert
  <2>1. PICK id \in DocumentIds, writing \in Documents :
          /\ asMongo' = (Clashes(id, writing) = MongoClashes(id, writing))
          /\ Keeping(IF rows[id] # NoRow \/ Clashes(id, writing) THEN rows ELSE [rows EXCEPT ![id] = writing])
    BY <1>4 DEF Insert
  <2>2. asMongo'
    BY <2>1, <1>1, ClashesAgree
  <2>3. rows' \in Tables /\ MapOrder(before', Found(rows'))
    BY <2>1, ChangedOrKept, MapKeepsOrder
  <2> QED BY <2>2, <2>3 DEF QueryInv
<1>5. CASE UpdateFirst
  <2>1. PICK filter \in Filters, update \in Updates :
          LET found == Query(filter, "none", 0, 1) IN
          IF found = <<>>
          THEN /\ asMongo' = \A id \in Found(rows) : ~MongoMatches(rows, id, filter)
               /\ UNCHANGED <<rows, before>>
          ELSE LET id == found[1]  writing == Updated(rows[id], update) IN
               /\ writing.rank \in Ranks \cup {Missing}
               /\ asMongo' = /\ MongoMatches(rows, id, filter)
                             /\ Clashes(id, writing) = MongoClashes(id, writing)
               /\ Keeping(IF Clashes(id, writing) THEN rows ELSE [rows EXCEPT ![id] = writing])
    BY <1>5 DEF UpdateFirst
  <2> DEFINE found == Query(filter, "none", 0, 1)
             id == found[1]
             writing == Updated(rows[id], update)
  <2>2. CASE found = <<>>
    <3>1. \A other \in Found(rows) : ~MongoMatches(rows, other, filter)
      <4>1. Matching(filter) = {}
        BY <2>2, QueryFirst
      <4> QED BY <4>1 DEF Matching
    <3>2. asMongo' /\ UNCHANGED <<rows, before>>
      BY <2>1, <2>2, <3>1
    <3> QED BY <3>2 DEF QueryInv, MapOrder, Found
  <2>3. CASE found # <<>>
    <3>1. id \in Matching(filter)
      BY <2>3, QueryFirst
    <3> HIDE DEF found, id
    <3>2. id \in Found(rows) /\ MongoMatches(rows, id, filter) /\ id \in DocumentIds
      BY <3>1 DEF Matching, Found
    <3>3. rows[id] \in Documents
      BY <3>2, <1>1 DEF Found, Tables
    <3>4. /\ writing.rank \in Ranks \cup {Missing}
          /\ asMongo' = /\ MongoMatches(rows, id, filter)
                        /\ Clashes(id, writing) = MongoClashes(id, writing)
          /\ Keeping(IF Clashes(id, writing) THEN rows ELSE [rows EXCEPT ![id] = writing])
      BY <2>1, <2>3 DEF found, id
    <3>5. writing \in Documents
      BY <3>3, <3>4, UpdatedDocuments
    <3> HIDE DEF writing
    <3>6. asMongo'
      BY <3>2, <3>4, <3>5, <1>1, ClashesAgree
    <3>7. rows' \in Tables /\ MapOrder(before', Found(rows'))
      BY <3>2, <3>4, <3>5, ChangedOrKept, MapKeepsOrder
    <3> QED BY <3>6, <3>7 DEF QueryInv
  <2> QED BY <2>2, <2>3
<1>6. CASE Upsert
  <2> DEFINE seed == [mark |-> Missing, rank |-> Missing]
  <2>1. PICK id \in DocumentIds, update \in Updates :
          LET found == Query(ById(id), "none", 0, 1)
              writing == Updated(IF found = <<>> THEN seed ELSE rows[id], update) IN
          /\ writing.rank \in Ranks \cup {Missing}
          /\ asMongo' = /\ (found = <<>>) = (rows[id] = NoRow)
                        /\ Clashes(id, writing) = MongoClashes(id, writing)
          /\ Keeping(IF Clashes(id, writing) THEN rows ELSE [rows EXCEPT ![id] = writing])
    BY <1>6 DEF Upsert
  <2> DEFINE found == Query(ById(id), "none", 0, 1)
             base == IF found = <<>> THEN seed ELSE rows[id]
             writing == Updated(base, update)
  <2>2. Matching(ById(id)) = Found(rows) \cap {id}
    <3>1. ASSUME NEW other \in DocumentIds
          PROVE  MongoMatches(rows, other, ById(id)) <=> other = id
      <4>1. AsNull(other) = other
        BY QueryAssumption DEF AsNull
      <4>2. MongoMatches(rows, other, ById(id)) <=> Satisfies(AsNull(other), "eq", {id})
        BY DEF MongoMatches, ById, Cond, Read
      <4> QED BY <4>1, <4>2 DEF Satisfies
    <3>2. Found(rows) \subseteq DocumentIds
      BY DEF Found
    <3> QED BY <3>1, <3>2 DEF Matching
  <2>3. (found = <<>>) <=> (rows[id] = NoRow)
    BY <2>2, IdFilters, QueryFirst DEF Found
  <2>4. base \in Documents
    <3>1. seed \in Documents
      BY DEF Documents
    <3> QED BY <3>1, <2>3, <1>1 DEF Tables
  <2> HIDE DEF found, base
  <2>5. /\ writing.rank \in Ranks \cup {Missing}
        /\ asMongo' = /\ (found = <<>>) = (rows[id] = NoRow)
                      /\ Clashes(id, writing) = MongoClashes(id, writing)
        /\ Keeping(IF Clashes(id, writing) THEN rows ELSE [rows EXCEPT ![id] = writing])
    BY <2>1 DEF found, base
  <2>6. writing \in Documents
    BY <2>4, <2>5, UpdatedDocuments
  <2> HIDE DEF writing
  <2>7. asMongo'
    BY <2>3, <2>5, <2>6, <1>1, ClashesAgree
  <2>8. rows' \in Tables /\ MapOrder(before', Found(rows'))
    BY <2>5, <2>6, ChangedOrKept, MapKeepsOrder
  <2> QED BY <2>7, <2>8 DEF QueryInv
<1>7. CASE UpdateAll
  <2>1. PICK filter \in Filters, mark \in Marks :
          LET matching == Range(Query(filter, "none", 0, Cardinality(DocumentIds))) IN
          /\ asMongo' = (matching = {id \in Found(rows) : MongoMatches(rows, id, filter)})
          /\ Keeping([id \in DocumentIds |->
                      IF id \in matching THEN [rows[id] EXCEPT !.mark = mark] ELSE rows[id]])
    BY <1>7 DEF UpdateAll
  <2> DEFINE found == Query(filter, "none", 0, Cardinality(DocumentIds))
             table == [id \in DocumentIds |->
                         IF id \in Matching(filter) THEN [rows[id] EXCEPT !.mark = mark] ELSE rows[id]]
  <2>2. Range(found) = Matching(filter)
    BY QueryAll
  <2>3. asMongo' /\ Keeping(table)
    BY <2>1, <2>2 DEF Matching
  <2>4. \A id \in Matching(filter) : rows[id] \in Documents /\ id \in Found(rows)
    BY <1>1 DEF Matching, Found, Tables
  <2>5. table \in Tables
    BY <2>4, <1>1 DEF Tables, Documents
  <2>6. Found(table) \subseteq Found(rows)
    BY <2>4 DEF Found
  <2>7. rows' \in Tables /\ MapOrder(before', Found(rows'))
    BY <2>3, <2>5, <2>6, MapKeepsOrder
  <2> QED BY <2>3, <2>7 DEF QueryInv
<1>8. CASE DeleteRows
  <2>1. PICK filter \in Filters, limit \in {1, Cardinality(DocumentIds)} :
          LET gone == Range(Query(filter, "none", 0, limit))
              matching == {id \in Found(rows) : MongoMatches(rows, id, filter)} IN
          /\ asMongo' = /\ gone \subseteq matching
                        /\ Cardinality(gone) = limit \/ gone = matching
          /\ Keeping([id \in DocumentIds |-> IF id \in gone THEN NoRow ELSE rows[id]])
    BY <1>8 DEF DeleteRows
  <2> DEFINE gone == Range(Query(filter, "none", 0, limit))
             table == [id \in DocumentIds |-> IF id \in gone THEN NoRow ELSE rows[id]]
  <2>2. gone \subseteq Matching(filter) /\ (Cardinality(gone) = limit \/ gone = Matching(filter))
    <3>1. CASE limit = Cardinality(DocumentIds)
      BY <3>1, QueryAll
    <3>2. CASE limit = 1
      <4>1. CASE Query(filter, "none", 0, 1) = <<>> /\ Matching(filter) = {}
        BY <3>2, <4>1 DEF Range
      <4>2. CASE Query(filter, "none", 0, 1)[1] \in Matching(filter)
                 /\ gone = {Query(filter, "none", 0, 1)[1]}
        BY <3>2, <4>2, FS_Singleton
      <4> QED BY <3>2, <4>1, <4>2, QueryFirst
    <3> QED BY <3>1, <3>2
  <2> HIDE DEF gone
  <2>3. asMongo' /\ Keeping(table)
    BY <2>1, <2>2 DEF Matching, gone
  <2>4. table \in Tables /\ Found(table) \subseteq Found(rows)
    BY <1>1 DEF Tables, Found
  <2>5. rows' \in Tables /\ MapOrder(before', Found(rows'))
    BY <2>3, <2>4, MapKeepsOrder
  <2> QED BY <2>3, <2>5 DEF QueryInv
<1> QED BY <1>2, <1>3, <1>4, <1>5, <1>6, <1>7, <1>8 DEF QueryNext

LEMMA QueriesAlwaysAgree == QuerySpec => []QueriesAgree
<1>1. QueryInv => QueriesAgree
  BY DEF QueryInv, QueriesAgree
<1> QED BY <1>1, QueryInvInit, QueryInvStep, PTL DEF QuerySpec

\* The database as a whole: nobody is handed one without its indexes
\* (db/index.ts, db/mongo.ts), and the one in memory (db/memory.ts) answers as
\* MongoDB does and shows whole transactions only, whatever is called in
\* whatever order.
THEOREM DatabaseAlwaysAgrees == ConnectionSpec /\ DocumentSpec /\ QuerySpec => []DatabaseAgrees
<1>1. DatabaseIsReady /\ QueriesAgree /\ FinishedCallsOnly => DatabaseAgrees
  BY DEF DatabaseAgrees
<1> QED BY <1>1, DatabaseBecomesReady, FinishedCallsStand, QueriesAlwaysAgree, PTL

(***************************************************************************)
(* Limiter.  Looked at over the k latest ticks, what a bucket let through  *)
(* and what it holds is no more than a full bucket and k - 1 ticks of      *)
(* refill; what passed a window is counted in it, and a minute touches two *)
(* fixed windows at the most.                                              *)
(***************************************************************************)

LEMMA WindowIsPositive == Window \in Nat /\ Window >= 1
BY LimiterAssumption DEF LimiterAssumption

(* Prefixes: what was counted in the k latest ticks.                       *)
Lately(counts, k) == SumFunctionOnSet(counts, 0..(k - 1))

LEMMA LatelyNone == ASSUME NEW f PROVE Lately(f, 0) = 0
<1>1. 0..(0 - 1) = {}
  OBVIOUS
<1> QED BY <1>1, SumOfNone DEF Lately

LEMMA LatelyNext ==
    ASSUME NEW f \in [Ages -> Nat], NEW k \in Ages
    PROVE  /\ Lately(f, k) \in Nat
           /\ Lately(f, k + 1) \in Nat
           /\ Lately(f, k + 1) = Lately(f, k) + f[k]
<1> USE WindowIsPositive
<1>1. IsFiniteSet(0..k) /\ IsFiniteSet(0..(k - 1))
  <2>1. k \in Int /\ k - 1 \in Int
    BY DEF Ages
  <2> QED BY <2>1, FiniteStretch
<1>2. (0..k) \ {k} = 0..(k - 1) /\ k \in 0..k
  BY DEF Ages
<1>3. /\ \A x \in 0..k : f[x] \in Nat
      /\ \A x \in 0..(k - 1) : f[x] \in Nat
  BY DEF Ages
<1>4. SumFunctionOnSet(f, 0..k) = f[k] + SumFunctionOnSet(f, 0..(k - 1))
  <2>1. SumFunctionOnSet(f, 0..k) = f[k] + SumFunctionOnSet(f, (0..k) \ {k})
    BY <1>1, <1>2, <1>3, SumSplits
  <2> QED BY <1>2, <2>1
<1>5. SumFunctionOnSet(f, 0..(k - 1)) \in Nat /\ SumFunctionOnSet(f, 0..k) \in Nat
  BY <1>1, <1>3, SumType
<1>6. (k + 1) - 1 = k /\ f[k] \in Nat
  BY DEF Ages
<1>7. Lately(f, k + 1) = SumFunctionOnSet(f, 0..k)
  <2>1. 0..((k + 1) - 1) = 0..k
    BY <1>6
  <2>2. Lately(f, k + 1) = SumFunctionOnSet(f, 0..((k + 1) - 1))
    BY DEF Lately
  <2> QED BY <2>1, <2>2
<1>8. Lately(f, k) = SumFunctionOnSet(f, 0..(k - 1))
  BY DEF Lately
<1> QED BY <1>4, <1>5, <1>6, <1>7, <1>8

LEMMA LatelyType ==
    ASSUME NEW f \in [Ages -> Nat], NEW k \in 0..Window
    PROVE  Lately(f, k) \in Nat
<1>1. CASE k = 0
  BY <1>1, LatelyNone
<1>2. CASE k # 0
  <2>1. k - 1 \in Ages /\ (k - 1) + 1 = k
    BY <1>2, WindowIsPositive DEF Ages
  <2> QED BY <2>1, LatelyNext
<1> QED BY <1>1, <1>2

LEMMA SumFromZero ==
    ASSUME NEW h, NEW S, 0 \in S /\ IsFiniteSet(S), \A x \in S : h[x] \in Nat
    PROVE  SumFunctionOnSet(h, S) = h[0] + SumFunctionOnSet(h, S \ {0})
BY SumSplits

\* One more of age 0.
LEMMA LatelyCounts ==
    ASSUME NEW f \in [Ages -> Nat], NEW k \in 1..Window
    PROVE  Lately([f EXCEPT ![0] = @ + 1], k) = Lately(f, k) + 1
<1> DEFINE g == [f EXCEPT ![0] = @ + 1]
           rest == (0..(k - 1)) \ {0}
<1> USE WindowIsPositive
<1>1. 0 \in 0..(k - 1) /\ 0..(k - 1) \subseteq Ages /\ 0 \in Ages
  BY DEF Ages
<1>2. IsFiniteSet(0..(k - 1)) /\ IsFiniteSet(rest)
  <2>1. k - 1 \in Int
    OBVIOUS
  <2>2. IsFiniteSet(0..(k - 1))
    BY <2>1, FiniteStretch
  <2> QED BY <2>2, FS_RemoveElement
<1>3. g \in [Ages -> Nat] /\ g[0] = f[0] + 1 /\ \A a \in Ages \ {0} : g[a] = f[a]
  BY <1>1
<1>4. SameOn(rest, f, g)
  BY <1>1, <1>3 DEF SameOn
<1>5. \A x \in 0..(k - 1) : f[x] \in Nat /\ g[x] \in Nat
  BY <1>1, <1>3
<1> HIDE DEF g
<1>6. \A h : (\A x \in 0..(k - 1) : h[x] \in Nat) =>
        SumFunctionOnSet(h, 0..(k - 1)) = h[0] + SumFunctionOnSet(h, rest)
  <2> DEFINE recent == 0..(k - 1)
  <2>1. rest = recent \ {0}
    BY Zenon
  <2>2. 0 \in recent /\ IsFiniteSet(recent)
    BY <1>1, <1>2, Zenon
  <2> HIDE DEF recent, rest
  <2>3. ASSUME NEW h, \A x \in recent : h[x] \in Nat
        PROVE  SumFunctionOnSet(h, recent) = h[0] + SumFunctionOnSet(h, rest)
    <3>1. SumFunctionOnSet(h, recent) = h[0] + SumFunctionOnSet(h, recent \ {0})
      BY <2>2, <2>3, SumFromZero, Zenon
    <3> QED BY <2>1, <3>1, Zenon
  <2> QED BY <2>3, Zenon DEF recent
<1> HIDE DEF rest
<1>7. /\ SumFunctionOnSet(f, 0..(k - 1)) = f[0] + SumFunctionOnSet(f, rest)
      /\ SumFunctionOnSet(g, 0..(k - 1)) = g[0] + SumFunctionOnSet(g, rest)
  BY <1>5, <1>6, Zenon
<1>8. SumFunctionOnSet(g, rest) = SumFunctionOnSet(f, rest)
  BY <1>2, <1>4, SumOfSame
<1>9. SumFunctionOnSet(f, rest) \in Nat /\ f[0] \in Nat
  BY <1>1, <1>2, <1>4, SumType DEF SameOn
<1>10. Lately(g, k) = Lately(f, k) + 1
  BY <1>3, <1>7, <1>8, <1>9 DEF Lately
<1> QED BY <1>10 DEF g

\* A tick makes everything one tick older.
LEMMA OlderType ==
    ASSUME NEW f \in [Ages -> Nat]
    PROVE  /\ Older(f) \in [Ages -> Nat]
           /\ Older(f)[0] = 0
           /\ \A k \in Ages \ {0} : Older(f)[k] = f[k - 1]
BY WindowIsPositive DEF Older, Ages

LEMMA LatelyOlder ==
    ASSUME NEW f \in [Ages -> Nat], NEW k \in Ages
    PROVE  Lately(Older(f), k + 1) = Lately(f, k)
<1> DEFINE T == {j \in Ages : Lately(Older(f), j + 1) # Lately(f, j)}
<1> SUFFICES ASSUME T # {} PROVE FALSE
  OBVIOUS
<1>1. PICK j \in T : \A i \in T : j <= i
  <2>1. Window - 1 \in Nat /\ T \subseteq 0..(Window - 1)
    BY WindowIsPositive DEF Ages
  <2> HIDE DEF T
  <2> QED BY <2>1, LeastNumber
<1>2. CASE j = 0
  <2>1. Lately(Older(f), 0 + 1) = Lately(Older(f), 0) + Older(f)[0]
    BY <1>2, OlderType, LatelyNext
  <2> QED BY <1>2, <2>1, OlderType, LatelyNone
<1>3. CASE j # 0
  <2>0. j \in Ages /\ j - 1 \in Ages /\ (j - 1) + 1 = j
    BY <1>3, WindowIsPositive DEF Ages
  <2>1. Lately(Older(f), j) = Lately(f, j - 1)
    BY <1>1, <2>0 DEF Ages
  <2>2. Lately(Older(f), j + 1) = Lately(Older(f), j) + Older(f)[j]
    BY <2>0, OlderType, LatelyNext
  <2>3. Lately(f, j) = Lately(f, j - 1) + f[j - 1]
    BY <2>0, LatelyNext
  <2>4. Older(f)[j] = f[j - 1]
    BY <1>3, <2>0, OlderType
  <2> QED BY <2>1, <2>2, <2>3, <2>4
<1> QED BY <1>2, <1>3

LEMMA LatelyAll ==
    ASSUME NEW f \in [Ages -> Nat]
    PROVE  /\ CountsOf(f) = Lately(f, Window)
           /\ CountsOf(f) \in Nat
           /\ Lately(f, Window - 1) <= CountsOf(f)
<1>1. CountsOf(f) = Lately(f, Window)
  BY DEF CountsOf, Ages, Lately
<1>2. Window - 1 \in Ages /\ (Window - 1) + 1 = Window
  BY WindowIsPositive DEF Ages
<1>3. /\ Lately(f, Window) = Lately(f, Window - 1) + f[Window - 1]
      /\ Lately(f, Window - 1) \in Nat /\ Lately(f, Window) \in Nat
  BY <1>2, LatelyNext
<1>4. f[Window - 1] \in Nat
  BY <1>2
<1> QED BY <1>1, <1>3, <1>4

NoCounts == [age \in Ages |-> 0]

LEMMA LatelyZero ==
    ASSUME NEW k \in 0..Window
    PROVE  Lately(NoCounts, k) = 0
<1> DEFINE T == {j \in 0..Window : Lately(NoCounts, j) # 0}
<1> SUFFICES ASSUME T # {} PROVE FALSE
  OBVIOUS
<1>0. NoCounts \in [Ages -> Nat] /\ \A a \in Ages : NoCounts[a] = 0
  BY DEF NoCounts
<1>1. PICK j \in T : \A i \in T : j <= i
  <2>1. Window \in Nat /\ T \subseteq 0..Window
    BY WindowIsPositive DEF Ages
  <2> HIDE DEF T
  <2> QED BY <2>1, LeastNumber
<1>2. CASE j = 0
  BY <1>2, LatelyNone
<1>3. CASE j # 0
  <2>0. j - 1 \in Ages /\ (j - 1) + 1 = j /\ j - 1 \in 0..Window
    BY <1>3, WindowIsPositive DEF Ages
  <2>1. Lately(NoCounts, j - 1) = 0
    BY <1>1, <2>0
  <2>2. Lately(NoCounts, j) = Lately(NoCounts, j - 1) + NoCounts[j - 1]
    BY <1>0, <2>0, LatelyNext
  <2> QED BY <1>0, <2>0, <2>1, <2>2
<1> QED BY <1>2, <1>3

LEMMA MinOfTwo ==
    ASSUME NEW a \in Int, NEW b \in Int
    PROVE  Min({a, b}) = IF a <= b THEN a ELSE b
<1> DEFINE least == IF a <= b THEN a ELSE b
<1>1. least \in {a, b} /\ \A y \in {a, b} : least <= y
  OBVIOUS
<1>2. \A x \in {a, b} : (\A y \in {a, b} : x <= y) => x = least
  OBVIOUS
<1> HIDE DEF least
<1>3. Min({a, b}) = least
  BY <1>1, <1>2 DEF Min
<1> QED BY <1>3 DEF least

-----------------------------------------------------------------------------
(* The invariant                                                           *)

Counts == [Ages -> Nat]
Stations == {"idle", "key bucket", "user bucket", "success", "budget", "serving"}
Spenders == Tokens \cup {Start.token}
Refill(scope) == Capacity(scope) \div Window

LimiterShape ==
    /\ successes \in Counts
    /\ passed \in [Checks -> Counts]
    /\ limited \in [Requests -> [at : Stations, token : Spenders]]
    /\ \A r \in Requests : limited[r].at = "key bucket" => limited[r].token \in Tokens

\* What a bucket holds, and how long ago that was.
Contents == {NoBucket} \cup [tokens : Nat, age : Nat]
\* What k ticks may let through.
Allowance(scope, k) == Capacity(scope) + (k - 1) * Refill(scope)

\* However few ticks one looks back, what has passed and what is left is what
\* a full bucket held and was given since.
BucketHolds(scope) ==
    \A k \in 1..Window :
        Lately(passed[scope], k) + Level(scope) <= Allowance(scope, k)

\* What has passed is among what the window counts.
WindowHolds ==
    /\ CountsOf(successes) <= SuccessLimit
    /\ \A k \in 0..Window : Lately(passed["success"], k) <= Lately(successes, k)

\* The requests that passed since the window began are counted in it, those of a
\* whole minute in two windows at the most.
BudgetHolds ==
    LET all == CountsOf(passed["budget"])
        lately == Lately(passed["budget"], Window - budget.left)
    IN  /\ budget \in [count : Nat, left : 0..Window]
        /\ budget.count = 0 => all <= TpmLimit
        /\ budget.count > 0 =>
              /\ budget.left >= 1
              /\ lately <= budget.count /\ lately <= TpmLimit
              /\ all <= TpmLimit + budget.count /\ all <= 2 * TpmLimit

BucketsHold ==
    /\ bucket \in [Scopes -> Contents]
    /\ \A scope \in Scopes : BucketHolds(scope)

LimiterInv == LimiterShape /\ BucketsHold /\ WindowHolds /\ BudgetHolds

-----------------------------------------------------------------------------
(* The buckets                                                             *)

LEMMA Rates ==
    ASSUME NEW scope \in Scopes
    PROVE  /\ Capacity(scope) \in Nat /\ Refill(scope) \in Nat
           /\ Window * Refill(scope) = Capacity(scope)
<1>1. /\ Capacity(scope) \in Nat /\ Capacity(scope) % Window = 0
      /\ Window \in Nat /\ Window >= 1
  BY LimiterAssumption DEF LimiterAssumption, Capacity
<1> DEFINE c == Capacity(scope)
           q == c \div Window
<1>2. c \in Nat /\ c % Window = 0
  BY <1>1
<1> HIDE DEF c
<1>3. q \in Nat
  BY <1>1, <1>2
<1>4. Window * q = c
  BY <1>1, <1>2
<1> QED BY <1>1, <1>3, <1>4 DEF Refill, c

\* What a bucket with this content holds now.
Held(scope, content) ==
    IF content = NoBucket THEN Capacity(scope)
    ELSE Min({Capacity(scope), content.tokens + content.age * Refill(scope)})

LEMMA LevelIsHeld ==
    ASSUME NEW scope
    PROVE  /\ Level(scope) = Held(scope, bucket[scope])
           /\ Level(scope)' = Held(scope, bucket'[scope])
<1>1. Level(scope) = Held(scope, bucket[scope])
  BY DEF Level, Refilled, Held, Refill
<1>2. Level(scope)' = Held(scope, bucket'[scope])
  BY DEF Level, Refilled, Held, Refill
<1> QED BY <1>1, <1>2

LEMMA HeldIs ==
    ASSUME NEW scope \in Scopes, NEW content, content # NoBucket,
           content.tokens \in Nat, content.age \in Nat
    PROVE  LET full == content.tokens + content.age * Refill(scope)
           IN  /\ full \in Nat
               /\ Held(scope, content) = IF Capacity(scope) <= full THEN Capacity(scope) ELSE full
<1> DEFINE full == content.tokens + content.age * Refill(scope)
<1>1. Held(scope, content) = Min({Capacity(scope), full})
  BY DEF Held
<1>2. full \in Nat /\ Capacity(scope) \in Int
  BY Rates
<1> HIDE DEF full
<1>3. Held(scope, content) = IF Capacity(scope) <= full THEN Capacity(scope) ELSE full
  BY <1>1, <1>2, MinOfTwo
<1> QED BY <1>2, <1>3 DEF full

LEMMA HeldType ==
    ASSUME NEW scope \in Scopes, NEW content \in Contents
    PROVE  Held(scope, content) \in Nat /\ Held(scope, content) <= Capacity(scope)
<1>0. Capacity(scope) \in Nat /\ Refill(scope) \in Nat
  BY Rates
<1>1. CASE content = NoBucket
  BY <1>0, <1>1 DEF Held
<1>2. CASE content # NoBucket
  <2>1. content.tokens \in Nat /\ content.age \in Nat
    BY <1>2 DEF Contents
  <2> DEFINE full == content.tokens + content.age * Refill(scope)
  <2>2. full \in Nat /\ Held(scope, content) = IF Capacity(scope) <= full THEN Capacity(scope) ELSE full
    BY <1>2, <2>1, HeldIs
  <2> HIDE DEF full
  <2> QED BY <1>0, <2>2
<1> QED BY <1>1, <1>2

LEMMA HeldWhenTouched ==
    ASSUME NEW scope \in Scopes, NEW n \in Nat, n <= Capacity(scope)
    PROVE  Held(scope, [tokens |-> n, age |-> 0]) = n
<1> DEFINE content == [tokens |-> n, age |-> 0]
<1>0. Capacity(scope) \in Nat /\ Refill(scope) \in Nat
  BY Rates
<1>1. content.tokens = n /\ content.age = 0 /\ content # NoBucket
  BY DEF NoBucket
<1> HIDE DEF content
<1> DEFINE full == content.tokens + content.age * Refill(scope)
<1>2. Held(scope, content) = IF Capacity(scope) <= full THEN Capacity(scope) ELSE full
  BY <1>1, HeldIs
<1>3. full = n
  BY <1>0, <1>1
<1> HIDE DEF full
<1>4. Held(scope, content) = n
  BY <1>0, <1>2, <1>3
<1> QED BY <1>4 DEF content

\* What a tick makes of a content.
Aged(content) ==
    IF content = NoBucket \/ content.age = 2 * Window - 1 THEN NoBucket
    ELSE [content EXCEPT !.age = @ + 1]

\* A tick gives a bucket no more than its rate.
LEMMA HeldWhenAged ==
    ASSUME NEW scope \in Scopes, NEW content \in Contents
    PROVE  /\ Aged(content) \in Contents
           /\ Held(scope, Aged(content)) <= Held(scope, content) + Refill(scope)
<1> USE WindowIsPositive
<1> DEFINE c == Capacity(scope)
           q == Refill(scope)
<1>0. c \in Nat /\ q \in Nat /\ Window * q = c
  BY Rates
<1>1. CASE content = NoBucket
  <2>1. Aged(content) = NoBucket /\ Held(scope, NoBucket) = c
    BY <1>1 DEF Aged, Held
  <2> HIDE DEF c, q
  <2> QED BY <1>0, <1>1, <2>1 DEF Contents, c, q
<1>2. CASE content # NoBucket
  <2>1. content \in [tokens : Nat, age : Nat]
    BY <1>2 DEF Contents
  <2> DEFINE t == content.tokens
             a == content.age
  <2>2. t \in Nat /\ a \in Nat
    BY <2>1
  <2> DEFINE full == t + a * q
  <2>3. full \in Nat /\ Held(scope, content) = IF c <= full THEN c ELSE full
    BY <1>2, <2>2, HeldIs
  <2>4. CASE a = 2 * Window - 1
    <3>1. Aged(content) = NoBucket /\ Held(scope, NoBucket) = c
      BY <1>2, <2>4 DEF Aged, Held
    <3>2. a * q = Window * q + (Window - 1) * q
      <4> HIDE DEF a, q
      <4> QED BY <1>0, <2>4
    <3>3. (Window - 1) * q \in Nat
      <4>1. Window - 1 \in Nat
        OBVIOUS
      <4> HIDE DEF q
      <4> QED BY <1>0, <4>1
    <3>4. a * q >= c
      <4> DEFINE more == (Window - 1) * q
      <4> HIDE DEF a, q, c, more
      <4> QED BY <1>0, <3>2, <3>3 DEF more
    <3>5. full >= c
      <4> DEFINE aq == a * q
      <4> HIDE DEF t, c, aq
      <4> QED BY <1>0, <2>2, <2>3, <3>4 DEF aq
    <3>6. Held(scope, content) = c
      <4> HIDE DEF c, full
      <4> QED BY <1>0, <2>3, <3>5
    <3> HIDE DEF c, q
    <3> QED BY <1>0, <3>1, <3>6 DEF Contents, c, q
  <2>5. CASE a # 2 * Window - 1
    <3> DEFINE next == [content EXCEPT !.age = @ + 1]
    <3>1. Aged(content) = next
      BY <1>2, <2>5 DEF Aged
    <3>2. next \in [tokens : Nat, age : Nat] /\ next.tokens = t /\ next.age = a + 1
      BY <2>1, <2>2
    <3>3. next # NoBucket
      BY <2>2, <3>2 DEF NoBucket
    <3> HIDE DEF next
    <3> DEFINE more == next.tokens + next.age * q
    <3>4. Held(scope, next) = IF c <= more THEN c ELSE more
      BY <2>2, <3>2, <3>3, HeldIs
    <3>5. more = full + q
      <4>1. (a + 1) * q = a * q + q
        <5> HIDE DEF a, q
        <5> QED BY <1>0, <2>2
      <4>2. more = t + (a * q + q)
        BY <3>2, <4>1
      <4>3. a * q \in Int
        <5> HIDE DEF a, q
        <5> QED BY <1>0, <2>2
      <4> DEFINE aq == a * q
      <4> HIDE DEF t, q, aq, more
      <4> QED BY <1>0, <2>2, <4>2, <4>3 DEF aq
    <3> HIDE DEF c, q, full, more
    <3>6. Held(scope, next) <= Held(scope, content) + q
      BY <1>0, <2>3, <3>4, <3>5
    <3> QED BY <3>1, <3>2, <3>6 DEF Contents, q
  <2> QED BY <2>4, <2>5
<1> QED BY <1>1, <1>2

LEMMA Allowances ==
    ASSUME NEW scope \in Scopes, NEW k \in 1..Window
    PROVE  /\ Allowance(scope, k) \in Nat
           /\ Capacity(scope) <= Allowance(scope, k)
           /\ Allowance(scope, k + 1) = Allowance(scope, k) + Refill(scope)
<1> DEFINE c == Capacity(scope)
           q == Refill(scope)
           given == (k - 1) * q
<1>1. c \in Nat /\ q \in Nat
  BY Rates
<1>2. given \in Nat
  <2>1. k - 1 \in Nat
    OBVIOUS
  <2> HIDE DEF q
  <2> QED BY <1>1, <2>1
<1>3. ((k + 1) - 1) * q = given + q
  <2> HIDE DEF q
  <2> QED BY <1>1
<1>4. Allowance(scope, k) = c + given /\ Allowance(scope, k + 1) = c + ((k + 1) - 1) * q
  BY DEF Allowance
<1>5. Allowance(scope, k + 1) = c + (given + q)
  BY <1>3, <1>4
<1> HIDE DEF c, q, given
<1> QED BY <1>1, <1>2, <1>4, <1>5 DEF c, q

\* Nothing happens to the buckets.
LEMMA BucketsStay ==
    ASSUME BucketsHold, UNCHANGED bucket, \A s \in Scopes : passed'[s] = passed[s]
    PROVE  BucketsHold'
<1>1. \A s \in Scopes : Level(s)' = Level(s)
  BY LevelIsHeld
<1>2. ASSUME NEW s \in Scopes PROVE BucketHolds(s)'
  <2>1. BucketHolds(s)
    BY DEF BucketsHold
  <2> QED BY <1>1, <2>1 DEF BucketHolds, Lately, Allowance, Refill, Capacity
<1> QED BY <1>2 DEF BucketsHold, Scopes, Contents, NoBucket

\* A request takes one from a bucket, or finds it empty, and is counted only if
\* it took one.
LEMMA BucketTouched ==
    ASSUME BucketsHold, passed \in [Checks -> Counts],
           NEW scope \in Scopes, NEW taken \in {0, 1}, taken <= Level(scope),
           bucket' = [bucket EXCEPT ![scope] = [tokens |-> Level(scope) - taken, age |-> 0]],
           passed' = passed \/ (taken = 1 /\ passed' = [passed EXCEPT ![scope][0] = @ + 1])
    PROVE  BucketsHold'
<1>0. bucket \in [Scopes -> Contents] /\ bucket[scope] \in Contents
  BY DEF BucketsHold
<1> DEFINE left == Level(scope) - taken
<1>1. left \in Nat /\ left <= Capacity(scope) /\ left + taken = Level(scope)
  BY <1>0, LevelIsHeld, HeldType, Rates
<1>2. bucket' = [bucket EXCEPT ![scope] = [tokens |-> left, age |-> 0]]
  OBVIOUS
<1> HIDE DEF left
<1>3. Level(scope)' = left
  BY <1>0, <1>1, <1>2, LevelIsHeld, HeldWhenTouched
<1>4. ASSUME NEW s \in Scopes, s # scope PROVE BucketHolds(s)'
  <2>1. bucket'[s] = bucket[s] /\ passed'[s] = passed[s]
    <3>1. bucket'[s] = bucket[s]
      BY <1>0, <1>2, <1>4
    <3>2. passed'[s] = passed[s]
      <4>1. s \in Checks /\ scope \in Checks
        BY DEF Checks
      <4>2. CASE passed' = passed
        BY <4>2
      <4>3. CASE passed' = [passed EXCEPT ![scope][0] = @ + 1]
        BY <1>4, <4>1, <4>3
      <4> QED BY <4>2, <4>3
    <3> QED BY <3>1, <3>2
  <2>2. Level(s)' = Level(s)
    BY <2>1, LevelIsHeld
  <2>3. BucketHolds(s)
    BY DEF BucketsHold
  <2> QED BY <2>1, <2>2, <2>3 DEF BucketHolds, Lately, Allowance, Refill, Capacity
<1>5. BucketHolds(scope)'
  <2>1. ASSUME NEW k \in 1..Window
        PROVE  Lately(passed'[scope], k) <= Lately(passed[scope], k) + taken
    <3>1. scope \in Checks /\ passed[scope] \in [Ages -> Nat]
      BY DEF Checks, Counts
    <3>2. Lately(passed[scope], k) \in Nat
      BY <3>1, LatelyType
    <3>3. CASE passed' = passed
      BY <3>2, <3>3
    <3>4. CASE taken = 1 /\ passed' = [passed EXCEPT ![scope][0] = @ + 1]
      <4>1. passed'[scope] = [passed[scope] EXCEPT ![0] = @ + 1]
        BY <3>1, <3>4
      <4>2. Lately(passed'[scope], k) = Lately(passed[scope], k) + 1
        BY <3>1, <4>1, LatelyCounts
      <4> QED BY <3>2, <3>4, <4>2
    <3> QED BY <3>3, <3>4
  <2>2. ASSUME NEW k \in 1..Window
        PROVE  Lately(passed[scope], k) + Level(scope) <= Allowance(scope, k)
    BY DEF BucketsHold, BucketHolds
  <2>3. ASSUME NEW k \in 1..Window
        PROVE  Lately(passed'[scope], k) + Level(scope)' <= Allowance(scope, k)
    <3>1. Lately(passed[scope], k) \in Nat /\ Lately(passed'[scope], k) \in Nat
      <4>1. scope \in Checks /\ passed[scope] \in [Ages -> Nat]
        BY DEF Checks, Counts
      <4>2. 0 \in Ages
        BY WindowIsPositive DEF Ages
      <4>3. [passed[scope] EXCEPT ![0] = @ + 1] \in [Ages -> Nat]
        BY <4>1, <4>2
      <4>4. passed'[scope] \in [Ages -> Nat]
        BY <4>1, <4>3
      <4> QED BY <4>1, <4>4, LatelyType
    <3>2. Allowance(scope, k) \in Nat
      BY Allowances
    <3> QED BY <1>1, <1>3, <2>1, <2>2, <3>1, <3>2
  <2> QED BY <2>3 DEF BucketHolds, Lately, Allowance, Refill, Capacity
<1>6. bucket' \in [Scopes -> Contents]
  <2>1. [tokens |-> left, age |-> 0] \in Contents
    BY <1>1 DEF Contents
  <2> QED BY <1>0, <1>2, <2>1
<1> QED BY <1>4, <1>5, <1>6 DEF BucketsHold, Scopes, Contents, NoBucket

LEMMA BucketsTick ==
    ASSUME BucketsHold, passed \in [Checks -> Counts], Tick
    PROVE  BucketsHold'
<1>1. bucket' = [s \in Scopes |-> Aged(bucket[s])]
  BY DEF Tick, Aged
<1>2. \A s \in Scopes : passed'[s] = Older(passed[s])
  BY DEF Tick, Checks
<1>3. \A s \in Scopes : bucket[s] \in Contents
  BY DEF BucketsHold
<1>4. bucket' \in [Scopes -> Contents]
  BY <1>1, <1>3, HeldWhenAged
<1>5. ASSUME NEW s \in Scopes PROVE BucketHolds(s)'
  <2>1. passed[s] \in [Ages -> Nat]
    BY DEF Checks, Counts
  <2>2. bucket'[s] = Aged(bucket[s])
    BY <1>1
  <2>3. /\ Level(s) \in Nat /\ Level(s)' \in Nat
        /\ Level(s)' <= Capacity(s)
        /\ Level(s)' <= Level(s) + Refill(s)
    BY <1>3, <1>4, <2>2, LevelIsHeld, HeldType, HeldWhenAged
  <2>4. ASSUME NEW k \in 1..Window
        PROVE  Lately(passed'[s], k) + Level(s)' <= Allowance(s, k)
    <3> DEFINE j == k - 1
    <3>1. j \in Ages /\ j + 1 = k /\ j \in 0..Window
      BY WindowIsPositive DEF Ages
    <3>2. Lately(passed'[s], k) = Lately(passed[s], j)
      BY <1>2, <2>1, <3>1, LatelyOlder
    <3>3. Lately(passed[s], j) \in Nat
      BY <2>1, <3>1, LatelyType
    <3>4. Allowance(s, k) \in Nat /\ Capacity(s) \in Nat /\ Refill(s) \in Nat
          /\ Capacity(s) <= Allowance(s, k)
      BY Allowances, Rates
    <3>5. CASE j = 0
      <4>1. Lately(passed[s], 0) = 0
        BY LatelyNone
      <4> HIDE DEF j
      <4> QED BY <2>3, <3>2, <3>4, <3>5, <4>1
    <3>6. CASE j # 0
      <4>1. j \in 1..Window
        BY <3>1, <3>6
      <4>2. Lately(passed[s], j) + Level(s) <= Allowance(s, j)
        BY <4>1 DEF BucketsHold, BucketHolds
      <4>3. Allowance(s, k) = Allowance(s, j) + Refill(s) /\ Allowance(s, j) \in Nat
        BY <3>1, <4>1, Allowances
      <4> HIDE DEF j
      <4> QED BY <2>3, <3>2, <3>3, <3>4, <4>2, <4>3
    <3> QED BY <3>5, <3>6
  <2> QED BY <2>4 DEF BucketHolds, Lately, Allowance, Refill, Capacity
<1> QED BY <1>4, <1>5 DEF BucketsHold, Scopes, Contents, NoBucket

-----------------------------------------------------------------------------
(* The two windows                                                         *)

LEMMA WindowStays ==
    ASSUME WindowHolds, UNCHANGED successes, passed'["success"] = passed["success"]
    PROVE  WindowHolds'
BY DEF WindowHolds, CountsOf, Ages, Lately

\* One more success, and perhaps nothing that passed.
LEMMA WindowCounts ==
    ASSUME WindowHolds, SuccessCount < SuccessLimit,
           successes \in Counts, passed \in [Checks -> Counts],
           successes' = [successes EXCEPT ![0] = @ + 1],
           passed' = passed \/ passed' = [passed EXCEPT !["success"][0] = @ + 1]
    PROVE  WindowHolds'
<1> DEFINE P == passed["success"]
           Q == passed'["success"]
<1> USE WindowIsPositive
<1>1. "success" \in Checks /\ 0 \in Ages
  BY DEF Checks, Ages
<1>2. P \in [Ages -> Nat] /\ successes \in [Ages -> Nat] /\ successes' \in [Ages -> Nat]
  BY <1>1 DEF Counts
<1>3. Q = P \/ Q = [P EXCEPT ![0] = @ + 1]
  BY <1>1
<1>4. ASSUME NEW k \in 0..Window PROVE Lately(Q, k) <= Lately(successes', k)
  <2>1. Lately(P, k) \in Nat /\ Lately(successes, k) \in Nat
    BY <1>2, LatelyType
  <2>2. Lately(P, k) <= Lately(successes, k)
    BY DEF WindowHolds
  <2>3. CASE k = 0
    BY <2>3, LatelyNone
  <2>4. CASE k # 0
    <3>1. k \in 1..Window
      BY <2>4
    <3>2. Lately(successes', k) = Lately(successes, k) + 1
      BY <1>2, <3>1, LatelyCounts
    <3>3. Lately(Q, k) = Lately(P, k) \/ Lately(Q, k) = Lately(P, k) + 1
      <4> HIDE DEF P, Q
      <4> QED BY <1>2, <1>3, <3>1, LatelyCounts
    <3> HIDE DEF P, Q
    <3> QED BY <2>1, <2>2, <3>2, <3>3
  <2> QED BY <2>3, <2>4
<1>5. CountsOf(successes') <= SuccessLimit
  <2>1. CountsOf(successes) < SuccessLimit
    BY DEF SuccessCount
  <2>2. CountsOf(successes) \in Nat /\ CountsOf(successes) = Lately(successes, Window)
        /\ CountsOf(successes') = Lately(successes', Window)
    BY <1>2, LatelyAll
  <2>3. Lately(successes', Window) = Lately(successes, Window) + 1
    <3>1. Window \in 1..Window
      OBVIOUS
    <3> HIDE DEF P, Q
    <3> QED BY <1>2, <3>1, LatelyCounts
  <2> QED BY <2>1, <2>2, <2>3, LimiterAssumption
<1> QED BY <1>4, <1>5 DEF WindowHolds, CountsOf, Ages, Lately

LEMMA WindowTick ==
    ASSUME WindowHolds, successes \in Counts, passed \in [Checks -> Counts], Tick
    PROVE  WindowHolds'
<1> DEFINE P == passed["success"]
           Q == passed'["success"]
<1> USE WindowIsPositive
<1>1. P \in [Ages -> Nat] /\ successes \in [Ages -> Nat]
  BY DEF Counts, Checks
<1>2. Q = Older(P) /\ successes' = Older(successes)
  BY DEF Tick, Checks
<1>3. successes' \in [Ages -> Nat]
  BY <1>1, <1>2, OlderType
<1> HIDE DEF P, Q
<1>4. ASSUME NEW k \in 0..Window PROVE Lately(Q, k) <= Lately(successes', k)
  <2>1. CASE k = 0
    BY <2>1, LatelyNone
  <2>2. CASE k # 0
    <3> DEFINE j == k - 1
    <3>1. j \in Ages /\ j + 1 = k /\ j \in 0..Window
      BY <2>2 DEF Ages
    <3>2. Lately(Q, k) = Lately(P, j) /\ Lately(successes', k) = Lately(successes, j)
      BY <1>1, <1>2, <3>1, LatelyOlder
    <3>3. Lately(P, j) <= Lately(successes, j)
      BY <3>1 DEF WindowHolds, P
    <3> QED BY <3>2, <3>3
  <2> QED BY <2>1, <2>2
<1>5. CountsOf(successes') <= SuccessLimit
  <2>1. CountsOf(successes) <= SuccessLimit
    BY DEF WindowHolds
  <2>2. CountsOf(successes) \in Nat /\ CountsOf(successes') \in Nat
        /\ CountsOf(successes') = Lately(successes', Window)
        /\ Lately(successes, Window - 1) <= CountsOf(successes)
    BY <1>1, <1>3, LatelyAll
  <2>3. Lately(successes', Window) = Lately(successes, Window - 1)
    <3>1. Window - 1 \in Ages /\ (Window - 1) + 1 = Window
      BY DEF Ages
    <3> QED BY <1>1, <1>2, <3>1, LatelyOlder
  <2>4. Lately(successes, Window - 1) \in Nat /\ SuccessLimit \in Nat
    <3>1. Window - 1 \in 0..Window
      OBVIOUS
    <3> QED BY <1>1, <3>1, LatelyType, LimiterAssumption
  <2> QED BY <2>1, <2>2, <2>3, <2>4
<1> QED BY <1>4, <1>5 DEF WindowHolds, CountsOf, Ages, Lately, Q

LEMMA BudgetStays ==
    ASSUME BudgetHolds, UNCHANGED budget, passed'["budget"] = passed["budget"]
    PROVE  BudgetHolds'
BY DEF BudgetHolds, CountsOf, Ages, Lately

\* What is charged: the window begins with it, or goes on.  Only a request that
\* keeps within the limit passes.
LEMMA BudgetCharged ==
    ASSUME BudgetHolds, passed \in [Checks -> Counts], budget' = Charged(1),
           \/ passed' = passed
           \/ budget.count + 1 <= TpmLimit /\ passed' = [passed EXCEPT !["budget"][0] = @ + 1]
    PROVE  BudgetHolds'
<1> DEFINE P == passed["budget"]
           Q == passed'["budget"]
           n == budget.count
           more == IF passed' = passed THEN 0 ELSE 1
<1> USE WindowIsPositive
<1>0. TpmLimit \in Nat
  BY LimiterAssumption
<1>1. n \in Nat /\ budget.left \in 0..Window
  BY DEF BudgetHolds
<1>2. "budget" \in Checks /\ 0 \in Ages
  BY DEF Checks, Ages
<1>3. P \in [Ages -> Nat]
  BY <1>2 DEF Counts
<1>4. (more = 0 /\ Q = P) \/ (more = 1 /\ n + 1 <= TpmLimit /\ Q = [P EXCEPT ![0] = @ + 1])
  BY <1>2
<1>5. Q \in [Ages -> Nat]
  BY <1>2, <1>3, <1>4
<1>6. budget' = [count |-> n + 1, left |-> IF n = 0 THEN Window ELSE budget.left]
  BY DEF Charged
<1>7. /\ budget'.count = n + 1 /\ budget'.left = IF n = 0 THEN Window ELSE budget.left
      /\ budget' \in [count : Nat, left : 0..Window]
  BY <1>1, <1>6
<1>8. /\ n = 0 => CountsOf(P) <= TpmLimit
      /\ n > 0 => /\ budget.left >= 1
                  /\ Lately(P, Window - budget.left) <= n
                  /\ Lately(P, Window - budget.left) <= TpmLimit
                  /\ CountsOf(P) <= TpmLimit + n /\ CountsOf(P) <= 2 * TpmLimit
  BY DEF BudgetHolds
<1> HIDE DEF P, Q, n, more
<1>9. CountsOf(Q) = CountsOf(P) + more /\ CountsOf(P) \in Nat
  <2>1. CountsOf(P) = Lately(P, Window) /\ CountsOf(Q) = Lately(Q, Window) /\ CountsOf(P) \in Nat
    BY <1>3, <1>5, LatelyAll
  <2>2. Q # P => Lately(Q, Window) = Lately(P, Window) + 1
    BY <1>3, <1>4, LatelyCounts
  <2>3. more = 1 => Lately(Q, Window) = Lately(P, Window) + 1
    BY <1>3, <1>4, LatelyCounts
  <2> QED BY <1>4, <2>1, <2>3
<1>10. CASE n = 0
  <2>1. budget'.left = Window /\ budget'.count = 1
    BY <1>7, <1>10
  <2>2. Lately(Q, Window - budget'.left) = 0
    <3>1. Window - budget'.left = 0
      BY <2>1
    <3> QED BY <3>1, LatelyNone
  <2>3. CountsOf(Q) <= TpmLimit + 1 /\ CountsOf(Q) <= 2 * TpmLimit
    BY <1>0, <1>4, <1>8, <1>9, <1>10
  <2> QED BY <1>0, <1>7, <2>1, <2>2, <2>3 DEF BudgetHolds, CountsOf, Ages, Lately, Q
<1>11. CASE n # 0
  <2>1. n > 0 /\ budget'.left = budget.left /\ budget'.count = n + 1
    BY <1>1, <1>7, <1>11
  <2> DEFINE k == Window - budget.left
  <2>2. k \in 0..Window
    BY <1>1
  <2> HIDE DEF k
  <2>3. Lately(P, k) \in Nat /\ Lately(Q, k) <= Lately(P, k) + more /\ Lately(Q, k) \in Nat
    <3>1. Lately(P, k) \in Nat /\ Lately(Q, k) \in Nat
      BY <1>3, <1>5, <2>2, LatelyType
    <3>2. CASE k = 0
      BY <1>4, <3>1, <3>2, LatelyNone
    <3>3. CASE k # 0
      <4>1. k \in 1..Window
        BY <2>2, <3>3
      <4>2. more = 1 => Lately(Q, k) = Lately(P, k) + 1
        BY <1>3, <1>4, <4>1, LatelyCounts
      <4> QED BY <1>4, <3>1, <4>2
    <3> QED BY <3>2, <3>3
  <2>4. Lately(P, k) <= n /\ Lately(P, k) <= TpmLimit
    BY <1>8, <2>1 DEF k
  <2>5. Lately(Q, k) <= n + 1 /\ Lately(Q, k) <= TpmLimit
    BY <1>0, <1>1, <1>4, <2>3, <2>4
  <2>6. CountsOf(Q) <= TpmLimit + (n + 1) /\ CountsOf(Q) <= 2 * TpmLimit
    BY <1>0, <1>1, <1>4, <1>8, <1>9, <2>1
  <2>7. k = Window - budget'.left /\ budget'.left >= 1
    BY <1>8, <2>1 DEF k
  <2> QED BY <1>0, <1>7, <2>1, <2>5, <2>6, <2>7 DEF BudgetHolds, CountsOf, Ages, Lately, Q
<1> QED BY <1>10, <1>11

LEMMA BudgetTick ==
    ASSUME BudgetHolds, passed \in [Checks -> Counts], Tick
    PROVE  BudgetHolds'
<1> DEFINE P == passed["budget"]
           Q == passed'["budget"]
           n == budget.count
<1> USE WindowIsPositive
<1>0. TpmLimit \in Nat
  BY LimiterAssumption
<1>1. budget \in [count : Nat, left : 0..Window] /\ n \in Nat /\ budget.left \in 0..Window
  BY DEF BudgetHolds
<1>2. P \in [Ages -> Nat]
  BY DEF Counts, Checks
<1>3. Q = Older(P)
  BY DEF Tick, Checks
<1>4. /\ budget.left <= 1 => budget' = NoBudget
      /\ budget.left > 1 => budget' = [budget EXCEPT !.left = @ - 1]
  BY <1>1 DEF Tick
<1>5. /\ n = 0 => CountsOf(P) <= TpmLimit
      /\ n > 0 => /\ budget.left >= 1
                  /\ Lately(P, Window - budget.left) <= n
                  /\ Lately(P, Window - budget.left) <= TpmLimit
                  /\ CountsOf(P) <= TpmLimit + n /\ CountsOf(P) <= 2 * TpmLimit
  BY DEF BudgetHolds
<1> HIDE DEF P, Q, n
<1>6. /\ CountsOf(Q) = Lately(P, Window - 1)
      /\ CountsOf(P) \in Nat /\ CountsOf(Q) \in Nat
      /\ CountsOf(Q) <= CountsOf(P)
  <2>1. Window - 1 \in Ages /\ (Window - 1) + 1 = Window
    BY DEF Ages
  <2>2. Q \in [Ages -> Nat]
    BY <1>2, <1>3, OlderType
  <2>3. Lately(Q, Window) = Lately(P, Window - 1)
    BY <1>2, <1>3, <2>1, LatelyOlder
  <2> QED BY <1>2, <2>2, <2>3, LatelyAll
<1>7. CASE budget.left <= 1
  <2>1. budget' = NoBudget
    BY <1>4, <1>7
  <2>2. budget' \in [count : Nat, left : 0..Window] /\ budget'.count = 0
    BY <2>1 DEF NoBudget
  <2>3. CountsOf(Q) <= TpmLimit
    <3>1. CASE n = 0
      BY <1>0, <1>5, <1>6, <3>1
    <3>2. CASE n # 0
      <4>1. n > 0 /\ budget.left = 1
        BY <1>1, <1>5, <1>7, <3>2
      <4> QED BY <1>5, <1>6, <4>1
    <3> QED BY <3>1, <3>2
  <2> QED BY <2>2, <2>3 DEF BudgetHolds, CountsOf, Ages, Lately, Q
<1>8. CASE budget.left > 1
  <2>1. budget' = [budget EXCEPT !.left = @ - 1]
    BY <1>4, <1>8
  <2>2. /\ budget' \in [count : Nat, left : 0..Window]
        /\ budget'.count = n /\ budget'.left = budget.left - 1 /\ budget'.left >= 1
    BY <1>1, <1>8, <2>1 DEF n
  <2> DEFINE j == Window - budget.left
             k == Window - budget'.left
  <2>3. j \in Ages /\ j + 1 = k
    BY <1>1, <1>8, <2>2 DEF Ages
  <2>4. Lately(Q, k) = Lately(P, j)
    BY <1>2, <1>3, <2>3, LatelyOlder
  <2>5. n = 0 => CountsOf(Q) <= TpmLimit
    BY <1>0, <1>5, <1>6
  <2>6. n > 0 => /\ Lately(Q, k) <= n /\ Lately(Q, k) <= TpmLimit
                 /\ CountsOf(Q) <= TpmLimit + n /\ CountsOf(Q) <= 2 * TpmLimit
    BY <1>0, <1>1, <1>5, <1>6, <2>4
  <2> QED BY <2>2, <2>5, <2>6 DEF BudgetHolds, CountsOf, Ages, Lately, Q
<1> QED BY <1>1, <1>7, <1>8

-----------------------------------------------------------------------------
(* The steps of a request, and the whole                                   *)

LEMMA StartIs == Start.at = "idle" /\ Start \in [at : Stations, token : Spenders]
BY DEF Start, Stations, Spenders

LEMMA RefuseKeeps ==
    ASSUME LimiterShape, NEW r \in Requests, Refuse(r)
    PROVE  /\ limited' \in [Requests -> [at : Stations, token : Spenders]]
           /\ \A x \in Requests : limited'[x].at = "key bucket" => limited'[x].token \in Tokens
           /\ passed' = passed
BY StartIs DEF LimiterShape, Refuse

LEMMA CountsMore ==
    ASSUME NEW f \in Counts PROVE [f EXCEPT ![0] = @ + 1] \in Counts
<1>1. 0 \in Ages
  BY WindowIsPositive DEF Ages
<1> QED BY <1>1 DEF Counts

LEMMA PassKeeps ==
    ASSUME LimiterShape, NEW r \in Requests, NEW check \in Checks,
           NEW next \in Stations \ {"key bucket"}, Pass(r, check, next)
    PROVE  /\ limited' \in [Requests -> [at : Stations, token : Spenders]]
           /\ \A x \in Requests : limited'[x].at = "key bucket" => limited'[x].token \in Tokens
           /\ passed' \in [Checks -> Counts]
           /\ passed' = [passed EXCEPT ![check][0] = @ + 1]
           /\ \A c \in Checks \ {check} : passed'[c] = passed[c]
<1>1. limited' = [limited EXCEPT ![r].at = next]
  BY DEF Pass
<1>2. limited \in [Requests -> [at : Stations, token : Spenders]]
  BY DEF LimiterShape
<1>3. limited' \in [Requests -> [at : Stations, token : Spenders]]
  BY <1>1, <1>2
<1>4. ASSUME NEW x \in Requests, limited'[x].at = "key bucket"
      PROVE  limited'[x].token \in Tokens
  <2>1. limited'[r].at = next
    BY <1>1, <1>2
  <2>2. x # r
    BY <1>4, <2>1
  <2>3. limited'[x] = limited[x]
    BY <1>1, <1>2, <2>2
  <2> QED BY <1>4, <2>3 DEF LimiterShape
<1>5. passed' = [passed EXCEPT ![check][0] = @ + 1]
  BY DEF Pass
<1>6. passed \in [Checks -> Counts]
  BY DEF LimiterShape
<1> DEFINE one == [passed[check] EXCEPT ![0] = @ + 1]
<1>7. passed' = [passed EXCEPT ![check] = one]
  BY <1>5
<1>8. one \in Counts
  <2>1. passed[check] \in Counts
    BY <1>6
  <2> QED BY <2>1, CountsMore
<1> HIDE DEF one
<1>9. passed' \in [Checks -> Counts] /\ \A c \in Checks \ {check} : passed'[c] = passed[c]
  BY <1>6, <1>7, <1>8
<1> QED BY <1>3, <1>4, <1>5, <1>9

LEMMA ShapeIs ==
    ASSUME successes' \in Counts, passed' \in [Checks -> Counts],
           limited' \in [Requests -> [at : Stations, token : Spenders]],
           \A x \in Requests : limited'[x].at = "key bucket" => limited'[x].token \in Tokens
    PROVE  LimiterShape'
BY DEF LimiterShape, Counts, Ages, Spenders, Start, Checks, Scopes

LEMMA ChecksApart ==
    /\ "success" \in Checks /\ "success" \notin Scopes
    /\ "budget" \in Checks /\ "budget" \notin Scopes
    /\ "user" \in Scopes /\ Tokens \subseteq Scopes /\ Scopes \subseteq Checks
BY LimiterAssumption DEF LimiterAssumption, Checks, Scopes

LEMMA LimiterBegins == LimiterInit => LimiterInv
<1> SUFFICES ASSUME LimiterInit PROVE LimiterInv
  OBVIOUS
<1>1. NoCounts \in Counts
  BY DEF Counts, NoCounts
<1>2. successes = NoCounts /\ \A c \in Checks : passed[c] = NoCounts
  BY DEF LimiterInit, NoCounts
<1>3. LimiterShape
  <2>1. passed \in [Checks -> Counts]
    BY <1>1 DEF LimiterInit, NoCounts
  <2>2. /\ limited \in [Requests -> [at : Stations, token : Spenders]]
        /\ \A r \in Requests : limited[r].at = "idle"
    BY StartIs DEF LimiterInit
  <2> QED BY <1>1, <1>2, <2>1, <2>2 DEF LimiterShape
<1>4. CountsOf(NoCounts) = 0
  BY <1>1, LatelyAll, LatelyZero, WindowIsPositive DEF Counts
<1>5. BucketsHold
  <2>1. bucket \in [Scopes -> Contents]
    BY DEF LimiterInit, Contents
  <2>2. ASSUME NEW s \in Scopes PROVE BucketHolds(s)
    <3>1. Level(s) = Capacity(s)
      BY DEF LimiterInit, Level
    <3>2. ASSUME NEW k \in 1..Window
          PROVE  Lately(passed[s], k) + Level(s) <= Allowance(s, k)
      <4>1. Lately(passed[s], k) = 0
        BY <1>2, LatelyZero, ChecksApart
      <4> QED BY <3>1, <4>1, Rates, Allowances
    <3> QED BY <3>2 DEF BucketHolds
  <2> QED BY <2>1, <2>2 DEF BucketsHold
<1>6. WindowHolds
  <2>1. ASSUME NEW k \in 0..Window PROVE Lately(passed["success"], k) <= Lately(successes, k)
    BY <1>2, LatelyZero, ChecksApart
  <2> QED BY <1>2, <1>4, <2>1, LimiterAssumption DEF WindowHolds, LimiterAssumption
<1>7. BudgetHolds
  BY <1>2, <1>4, ChecksApart, WindowIsPositive, LimiterAssumption
     DEF BudgetHolds, LimiterInit, NoBudget, LimiterAssumption
<1> QED BY <1>3, <1>5, <1>6, <1>7 DEF LimiterInv

LEMMA ArriveKeeps ==
    ASSUME LimiterInv, NEW r \in Requests, Arrive(r)
    PROVE  LimiterInv'
<1>1. UNCHANGED <<bucket, successes, budget, passed>>
  BY DEF Arrive
<1>2. PICK k \in Tokens : limited' = [limited EXCEPT ![r] = [at |-> "key bucket", token |-> k]]
  BY DEF Arrive
<1>3. /\ limited' \in [Requests -> [at : Stations, token : Spenders]]
      /\ \A x \in Requests : limited'[x].at = "key bucket" => limited'[x].token \in Tokens
  BY <1>2 DEF LimiterInv, LimiterShape, Stations, Spenders
<1>4. LimiterShape'
  BY <1>1, <1>3, ShapeIs DEF LimiterInv, LimiterShape
<1> QED BY <1>1, <1>4, BucketsStay, WindowStays, BudgetStays DEF LimiterInv

LEMMA BucketKeeps ==
    ASSUME LimiterInv, NEW r \in Requests, ConsumeBucket(r)
    PROVE  LimiterInv'
<1> DEFINE atKey   == limited[r].at = "key bucket"
           scope   == IF atKey THEN limited[r].token ELSE "user"
           allowed == Level(scope) >= 1
           taken   == IF allowed THEN 1 ELSE 0
           touched == [bucket EXCEPT ![scope] =
                          [tokens |-> Level(scope) - taken, age |-> 0]]
           next    == IF atKey THEN "user bucket" ELSE "success"
<1>0. LimiterShape /\ BucketsHold /\ WindowHolds /\ BudgetHolds
  BY DEF LimiterInv
<1>1. UNCHANGED <<successes, budget>>
  BY DEF ConsumeBucket
<1>2. \/ bucket' = touched /\ allowed /\ Pass(r, scope, next)
      \/ bucket' = touched /\ Refuse(r)
      \/ bucket' = bucket /\ Refuse(r)
  BY DEF ConsumeBucket
<1>3. scope \in Scopes /\ scope \in Checks /\ scope # "success" /\ scope # "budget"
  BY <1>0, ChecksApart DEF LimiterShape
<1>4. next \in Stations \ {"key bucket"}
  BY DEF Stations
<1>5. taken \in {0, 1} /\ taken <= Level(scope) /\ (allowed => taken = 1)
  <2> HIDE DEF scope
  <2>1. bucket[scope] \in Contents
    BY <1>0, <1>3 DEF BucketsHold
  <2>2. Level(scope) \in Nat
    BY <1>3, <2>1, LevelIsHeld, HeldType
  <2> QED BY <2>2
<1> HIDE DEF scope, allowed, next, taken
<1>6. passed \in [Checks -> Counts] /\ successes \in Counts
  BY <1>0 DEF LimiterShape
<1>7. CASE bucket' = touched /\ allowed /\ Pass(r, scope, next)
  <2>1. LimiterShape'
    BY <1>0, <1>1, <1>3, <1>4, <1>6, <1>7, PassKeeps, ShapeIs
  <2>2. /\ passed' = [passed EXCEPT ![scope][0] = @ + 1]
        /\ passed'["success"] = passed["success"] /\ passed'["budget"] = passed["budget"]
    BY <1>0, <1>3, <1>4, <1>7, PassKeeps, ChecksApart
  <2>3. BucketsHold'
    BY <1>0, <1>3, <1>5, <1>6, <1>7, <2>2, BucketTouched
  <2> QED BY <1>0, <1>1, <2>1, <2>2, <2>3, WindowStays, BudgetStays DEF LimiterInv
<1>8. CASE (bucket' = touched \/ bucket' = bucket) /\ Refuse(r)
  <2>1. passed' = passed
    BY <1>8 DEF Refuse
  <2>2. LimiterShape'
    BY <1>0, <1>1, <1>6, <1>8, <2>1, RefuseKeeps, ShapeIs
  <2>3. BucketsHold'
    <3>1. CASE bucket' = bucket
      BY <1>0, <2>1, <3>1, BucketsStay
    <3>2. CASE bucket' = touched
      BY <1>0, <1>3, <1>5, <1>6, <2>1, <3>2, BucketTouched
    <3> QED BY <1>8, <3>1, <3>2
  <2> QED BY <1>0, <1>1, <2>1, <2>2, <2>3, WindowStays, BudgetStays DEF LimiterInv
<1> QED BY <1>2, <1>7, <1>8

LEMMA SuccessKeeps ==
    ASSUME LimiterInv, NEW r \in Requests, EnforceSuccessWindow(r)
    PROVE  LimiterInv'
<1> DEFINE added == [successes EXCEPT ![0] = @ + 1]
<1>0. LimiterShape /\ BucketsHold /\ WindowHolds /\ BudgetHolds
  BY DEF LimiterInv
<1>1. UNCHANGED <<bucket, budget>>
  BY DEF EnforceSuccessWindow
<1>2. \/ SuccessCount < SuccessLimit /\ successes' = added /\ Pass(r, "success", "budget")
      \/ SuccessCount < SuccessLimit /\ successes' = added /\ Refuse(r)
      \/ successes' = successes /\ Refuse(r)
  BY DEF EnforceSuccessWindow
<1>3. passed \in [Checks -> Counts] /\ successes \in Counts
  BY <1>0 DEF LimiterShape
<1>4. successes' \in Counts
  BY <1>2, <1>3, CountsMore
<1>5. CASE SuccessCount < SuccessLimit /\ successes' = added /\ Pass(r, "success", "budget")
  <2>1. "budget" \in Stations \ {"key bucket"}
    BY DEF Stations
  <2>2. LimiterShape'
    BY <1>0, <1>4, <1>5, <2>1, PassKeeps, ShapeIs, ChecksApart
  <2>3. /\ passed' = [passed EXCEPT !["success"][0] = @ + 1]
        /\ passed'["budget"] = passed["budget"] /\ \A s \in Scopes : passed'[s] = passed[s]
    BY <1>0, <1>5, <2>1, PassKeeps, ChecksApart
  <2>4. WindowHolds'
    BY <1>0, <1>3, <1>5, <2>3, WindowCounts
  <2> QED BY <1>0, <1>1, <2>2, <2>3, <2>4, BucketsStay, BudgetStays DEF LimiterInv
<1>6. CASE Refuse(r)
  <2>1. passed' = passed
    BY <1>6 DEF Refuse
  <2>2. LimiterShape'
    BY <1>0, <1>3, <1>4, <1>6, <2>1, RefuseKeeps, ShapeIs
  <2>3. WindowHolds'
    <3>1. CASE successes' = successes
      BY <1>0, <2>1, <3>1, WindowStays
    <3>2. CASE SuccessCount < SuccessLimit /\ successes' = added
      BY <1>0, <1>3, <2>1, <3>2, WindowCounts
    <3> QED BY <1>2, <3>1, <3>2
  <2> QED BY <1>0, <1>1, <2>1, <2>2, <2>3, BucketsStay, BudgetStays DEF LimiterInv
<1> QED BY <1>2, <1>5, <1>6

LEMMA BudgetKeeps ==
    ASSUME LimiterInv, NEW r \in Requests, EnforceTokenBudget(r)
    PROVE  LimiterInv'
<1> DEFINE room == budget.count + 1 <= TpmLimit
<1>0. LimiterShape /\ BucketsHold /\ WindowHolds /\ BudgetHolds
  BY DEF LimiterInv
<1>1. UNCHANGED <<bucket, successes>>
  BY DEF EnforceTokenBudget
<1>2. \/ room /\ budget' = Charged(1) /\ Pass(r, "budget", "serving")
      \/ budget' = Charged(1) /\ Refuse(r)
      \/ budget' = budget /\ Refuse(r)
  BY DEF EnforceTokenBudget
<1>3. passed \in [Checks -> Counts] /\ successes \in Counts
  BY <1>0 DEF LimiterShape
<1>4. CASE room /\ budget' = Charged(1) /\ Pass(r, "budget", "serving")
  <2>1. "serving" \in Stations \ {"key bucket"}
    BY DEF Stations
  <2>2. LimiterShape'
    BY <1>0, <1>1, <1>3, <1>4, <2>1, PassKeeps, ShapeIs, ChecksApart
  <2>3. /\ passed' = [passed EXCEPT !["budget"][0] = @ + 1]
        /\ passed'["success"] = passed["success"] /\ \A s \in Scopes : passed'[s] = passed[s]
    BY <1>0, <1>4, <2>1, PassKeeps, ChecksApart, ZenonT(60)
  <2>4. BudgetHolds'
    BY <1>0, <1>3, <1>4, <2>3, BudgetCharged
  <2> QED BY <1>0, <1>1, <2>2, <2>3, <2>4, BucketsStay, WindowStays DEF LimiterInv
<1>5. CASE Refuse(r)
  <2>1. passed' = passed
    BY <1>5 DEF Refuse
  <2>2. LimiterShape'
    BY <1>0, <1>1, <1>3, <1>5, <2>1, RefuseKeeps, ShapeIs
  <2>3. BudgetHolds'
    <3>1. CASE budget' = budget
      BY <1>0, <2>1, <3>1, BudgetStays
    <3>2. CASE budget' = Charged(1)
      BY <1>0, <1>3, <2>1, <3>2, BudgetCharged
    <3> QED BY <1>2, <3>1, <3>2
  <2> QED BY <1>0, <1>1, <2>1, <2>2, <2>3, BucketsStay, WindowStays DEF LimiterInv
<1> QED BY <1>2, <1>4, <1>5

LEMMA ChargeKeeps ==
    ASSUME LimiterInv, NEW r \in Requests, ChargeTokenBudget(r)
    PROVE  LimiterInv'
<1>0. LimiterShape /\ BucketsHold /\ WindowHolds /\ BudgetHolds
  BY DEF LimiterInv
<1>1. UNCHANGED <<bucket, successes, passed>> /\ Refuse(r)
  BY DEF ChargeTokenBudget, Refuse
<1>2. budget' = budget \/ budget' = Charged(1)
  BY DEF ChargeTokenBudget
<1>3. passed \in [Checks -> Counts] /\ successes \in Counts
  BY <1>0 DEF LimiterShape
<1>4. LimiterShape'
  BY <1>0, <1>1, <1>3, RefuseKeeps, ShapeIs
<1>5. BudgetHolds'
  <2>1. CASE budget' = budget
    BY <1>0, <1>1, <2>1, BudgetStays
  <2>2. CASE budget' = Charged(1)
    BY <1>0, <1>1, <1>3, <2>2, BudgetCharged
  <2> QED BY <1>2, <2>1, <2>2
<1> QED BY <1>0, <1>1, <1>4, <1>5, BucketsStay, WindowStays DEF LimiterInv

LEMMA NothingCounted ==
    ASSUME LimiterInv, UNCHANGED <<bucket, successes, budget, passed>>,
           limited' = limited \/ \E r \in Requests : Refuse(r)
    PROVE  LimiterInv'
<1>0. LimiterShape /\ BucketsHold /\ WindowHolds /\ BudgetHolds
  BY DEF LimiterInv
<1>1. LimiterShape'
  <2>1. CASE limited' = limited
    BY <1>0, <2>1, ShapeIs DEF LimiterShape
  <2>2. CASE \E r \in Requests : Refuse(r)
    BY <1>0, <2>2, RefuseKeeps, ShapeIs DEF LimiterShape
  <2> QED BY <2>1, <2>2
<1> QED BY <1>0, <1>1, BucketsStay, WindowStays, BudgetStays DEF LimiterInv

LEMMA TickKeeps == ASSUME LimiterInv, Tick PROVE LimiterInv'
<1>0. LimiterShape /\ BucketsHold /\ WindowHolds /\ BudgetHolds
  BY DEF LimiterInv
<1>1. passed \in [Checks -> Counts] /\ successes \in Counts
  BY <1>0 DEF LimiterShape
<1>2. LimiterShape'
  <2>1. successes' \in Counts
    BY <1>1, OlderType DEF Tick, Counts
  <2>2. passed' \in [Checks -> Counts]
    <3>1. \A c \in Checks : Older(passed[c]) \in Counts
      BY <1>1, OlderType DEF Counts
    <3> QED BY <3>1 DEF Tick
  <2>3. limited' = limited
    BY DEF Tick
  <2> QED BY <1>0, <2>1, <2>2, <2>3, ShapeIs DEF LimiterShape
<1> QED BY <1>0, <1>1, <1>2, BucketsTick, WindowTick, BudgetTick DEF LimiterInv

LEMMA LimiterStep == LimiterInv /\ [LimiterNext]_limiterVars => LimiterInv'
<1> SUFFICES ASSUME LimiterInv, [LimiterNext]_limiterVars PROVE LimiterInv'
  OBVIOUS
<1>1. ASSUME NEW r \in Requests, Arrive(r) PROVE LimiterInv'
  BY <1>1, ArriveKeeps
<1>2. ASSUME NEW r \in Requests, ConsumeBucket(r) PROVE LimiterInv'
  BY <1>2, BucketKeeps
<1>3. ASSUME NEW r \in Requests, EnforceSuccessWindow(r) PROVE LimiterInv'
  BY <1>3, SuccessKeeps
<1>4. ASSUME NEW r \in Requests, EnforceTokenBudget(r) PROVE LimiterInv'
  BY <1>4, BudgetKeeps
<1>5. ASSUME NEW r \in Requests, ChargeTokenBudget(r) PROVE LimiterInv'
  BY <1>5, ChargeKeeps
<1>6. ASSUME NEW r \in Requests, RefusedDegraded(r) PROVE LimiterInv'
  <2>1. UNCHANGED <<bucket, successes, budget, passed>> /\ Refuse(r)
    BY <1>6 DEF RefusedDegraded, Refuse
  <2> QED BY <2>1, NothingCounted
<1>7. CASE StoreRecovers
  BY <1>7, NothingCounted DEF StoreRecovers
<1>8. CASE Tick
  BY <1>8, TickKeeps
<1>9. CASE UNCHANGED limiterVars
  BY <1>9, NothingCounted DEF limiterVars
<1> QED BY <1>1, <1>2, <1>3, <1>4, <1>5, <1>6, <1>7, <1>8, <1>9 DEF LimiterNext

LEMMA LimiterShows == LimiterInv => LimitsHold
<1> SUFFICES ASSUME LimiterInv PROVE LimitsHold
  OBVIOUS
<1>0. LimiterShape /\ BucketsHold /\ WindowHolds /\ BudgetHolds
  BY DEF LimiterInv
<1>1. \A c \in Checks : passed[c] \in [Ages -> Nat]
  BY <1>0 DEF LimiterShape, Counts
<1>2. ASSUME NEW s \in Scopes PROVE CountsOf(passed[s]) <= Ceiling(s)
  <2>1. Ceiling(s) = Allowance(s, Window)
    BY ChecksApart DEF Ceiling, Allowance, Refill
  <2>2. CountsOf(passed[s]) = Lately(passed[s], Window) /\ CountsOf(passed[s]) \in Nat
    BY <1>1, ChecksApart, LatelyAll
  <2>3. Lately(passed[s], Window) + Level(s) <= Allowance(s, Window) /\ Allowance(s, Window) \in Nat
    <3>1. Window \in 1..Window
      BY WindowIsPositive
    <3> QED BY <1>0, <3>1, Allowances DEF BucketsHold, BucketHolds
  <2>4. Level(s) \in Nat
    BY <1>0, LevelIsHeld, HeldType DEF BucketsHold
  <2> QED BY <2>1, <2>2, <2>3, <2>4
<1>3. CountsOf(passed["success"]) <= Ceiling("success")
  <2>1. CountsOf(passed["success"]) <= CountsOf(successes)
    <3>1. /\ CountsOf(passed["success"]) = Lately(passed["success"], Window)
          /\ CountsOf(successes) = Lately(successes, Window)
      BY <1>0, <1>1, ChecksApart, LatelyAll DEF LimiterShape, Counts
    <3>2. Window \in 0..Window
      BY WindowIsPositive
    <3> QED BY <1>0, <3>1, <3>2 DEF WindowHolds
  <2>2. CountsOf(passed["success"]) \in Nat /\ CountsOf(successes) \in Nat
    BY <1>0, <1>1, ChecksApart, LatelyAll DEF LimiterShape, Counts
  <2> QED BY <1>0, <2>1, <2>2, LimiterAssumption DEF WindowHolds, Ceiling, LimiterAssumption
<1>4. CountsOf(passed["budget"]) <= Ceiling("budget")
  <2>1. CountsOf(passed["budget"]) <= 2 * TpmLimit
    <3>1. budget.count \in Nat /\ TpmLimit \in Nat /\ CountsOf(passed["budget"]) \in Nat
      BY <1>0, <1>1, ChecksApart, LatelyAll, LimiterAssumption DEF BudgetHolds, LimiterAssumption
    <3> QED BY <1>0, <3>1 DEF BudgetHolds
  <2> QED BY <2>1 DEF Ceiling
<1> QED BY <1>2, <1>3, <1>4 DEF LimitsHold, Checks

\* However many requests interleave, and whatever the store refuses, loses or
\* forgets in between, no stretch of a minute lets more through a bucket, the
\* window of successes or the budget of tokens than its limit gives
\* (enforceRequestLimits, enforceSuccessWindow and enforceTokenBudget).
THEOREM LimitsAlwaysHold == LimiterSpec => []LimitsHold
<1>1. LimiterInit => LimiterInv
  BY LimiterBegins
<1>2. LimiterInv /\ [LimiterNext]_limiterVars => LimiterInv'
  BY LimiterStep
<1>3. LimiterInv => LimitsHold
  BY LimiterShows
<1> QED BY <1>1, <1>2, <1>3, PTL DEF LimiterSpec

(***************************************************************************)
(* StreamTranslation.  The translator's count is the provider's last       *)
(* report so far; and the event that ends a stream comes after the last    *)
(* report the provider makes.                                              *)
(***************************************************************************)

Tallies == [prompt : Nat, out : Nat]
IsTranslator(t) ==
    /\ DOMAIN t = {"done", "sentRole", "tools", "blocks", "usage"}
    /\ t.done \in BOOLEAN /\ t.usage \in Tallies

\* The last event of a kind is the i-th.
IsLast(events, k, i) == i \in OfKind(events, k) /\ \A j \in OfKind(events, k) : j <= i

CountsLastReport(t, events) ==
    \A i \in DOMAIN events :
        /\ wire = "openai" /\ IsLast(events, "usage", i) =>
                t.usage = [prompt |-> events[i].report, out |-> events[i].report]
        /\ wire = "anthropic" /\ IsLast(events, "start", i) => t.usage.prompt = events[i].report
        /\ wire = "anthropic" /\ IsLast(events, "finish", i) => t.usage.out = events[i].report
        /\ wire = "gemini" /\ IsLast(events, "frame", i) =>
                t.usage = [prompt |-> events[i].report, out |-> events[i].report]

\* The provider has made the last of the reports it is asked for.
HasReported(events) ==
    CASE wire = "openai" -> AsksForUsage(client, wire) => Has(events, "usage")
      [] wire = "anthropic" -> Has(events, "fault") \/ (Has(events, "start") /\ Has(events, "finish"))
      [] wire = "gemini" -> Has(events, "frame")

StreamInv ==
    /\ wire \in Dialects
    /\ \E S : seen \in Seq(S)
    /\ IsTranslator(translator)
    /\ CountsLastReport(translator, seen)
    /\ phase = "open" /\ wire # "openai" => ~translator.done
    /\ phase = "ended" => bill = translator.usage /\ HasReported(seen)

LEMMA AppendAny ==
    ASSUME NEW S, NEW s \in Seq(S), NEW e, NEW t, t = Append(s, e)
    PROVE  /\ t \in Seq(S \cup {e})
           /\ Len(s) \in Nat /\ DOMAIN s = 1..Len(s) /\ DOMAIN t = 1..(Len(s) + 1)
           /\ \A i \in 1..Len(s) : t[i] = s[i]
           /\ t[Len(s) + 1] = e
<1>1. s \in Seq(S \cup {e}) /\ e \in S \cup {e}
  OBVIOUS
<1> QED BY <1>1

\* Which event is the last of its kind, when e has come.
LastMoves(s, t, e, k) ==
    \A i \in DOMAIN t : IsLast(t, k, i) =>
        IF e.kind = k THEN t[i] = e
        ELSE i \in DOMAIN s /\ IsLast(s, k, i) /\ t[i] = s[i]

LEMMA KindsOfMore ==
    ASSUME NEW S, NEW s \in Seq(S), NEW e, NEW t, t = Append(s, e), NEW k
    PROVE  /\ Has(s, k) => Has(t, k)
           /\ e.kind = k => Has(t, k)
           /\ e.kind # k => (Has(t, k) => Has(s, k))
           /\ LastMoves(s, t, e, k)
<1>1. /\ Len(s) \in Nat /\ DOMAIN s = 1..Len(s) /\ DOMAIN t = 1..(Len(s) + 1)
      /\ \A i \in 1..Len(s) : t[i] = s[i]
      /\ t[Len(s) + 1] = e
  BY AppendAny
<1>2. OfKind(t, k) = OfKind(s, k) \cup (IF e.kind = k THEN {Len(s) + 1} ELSE {})
  BY <1>1 DEF OfKind
<1>3. \A i \in OfKind(s, k) : i \in 1..Len(s)
  BY <1>1 DEF OfKind
<1>4. ASSUME NEW i \in DOMAIN t, IsLast(t, k, i), e.kind = k PROVE t[i] = e
  <2>1. Len(s) + 1 \in OfKind(t, k) /\ i \in 1..(Len(s) + 1)
    BY <1>1, <1>2, <1>4
  <2>2. i = Len(s) + 1
    BY <1>1, <1>4, <2>1 DEF IsLast
  <2> QED BY <1>1, <2>2
<1>5. ASSUME NEW i \in DOMAIN t, IsLast(t, k, i), e.kind # k
      PROVE  i \in DOMAIN s /\ IsLast(s, k, i) /\ t[i] = s[i]
  <2>1. OfKind(t, k) = OfKind(s, k)
    BY <1>2, <1>5
  <2>2. i \in OfKind(s, k) /\ \A j \in OfKind(s, k) : j <= i
    BY <1>5, <2>1 DEF IsLast
  <2> QED BY <1>1, <1>3, <2>2 DEF IsLast
<1> QED BY <1>2, <1>4, <1>5 DEF Has, LastMoves

-----------------------------------------------------------------------------
(* What the translators do to the count                                    *)

LEMMA OpenaiCounts ==
    ASSUME NEW t, IsTranslator(t), NEW e, NEW n,
           e.kind \in {"done", "noise", "usage", "finish", "text", "opens", "args"},
           e.kind = "usage" => e.report \in Nat,
           NEW u, u = ReadOpenai(t, e, n).t
    PROVE  /\ IsTranslator(u)
           /\ u.usage = IF e.kind = "usage"
                        THEN [prompt |-> e.report, out |-> e.report] ELSE t.usage
<1>1. CASE e.kind = "usage"
  <2>1. u = [t EXCEPT !.usage = [prompt |-> e.report, out |-> e.report]]
    BY <1>1 DEF ReadOpenai
  <2> QED BY <1>1, <2>1 DEF IsTranslator, Tallies
<1>2. CASE e.kind \in {"done", "finish"}
  <2>1. u = [t EXCEPT !.done = TRUE]
    BY <1>2 DEF ReadOpenai
  <2> QED BY <1>2, <2>1 DEF IsTranslator, Tallies
<1>3. CASE e.kind \in {"noise", "text", "opens", "args"}
  <2>1. u = t
    BY <1>3 DEF ReadOpenai
  <2> QED BY <1>3, <2>1
<1> QED BY <1>1, <1>2, <1>3

LEMMA AnthropicCounts ==
    ASSUME NEW t, IsTranslator(t), NEW e, NEW n,
           e.kind \in {"start", "noise", "fault", "finish", "text", "think", "opens", "args"},
           e.kind \in {"start", "finish"} => e.report \in Nat,
           NEW u, u = ReadAnthropic(t, e, n).t
    PROVE  /\ IsTranslator(u)
           /\ u.usage.prompt = IF e.kind = "start" THEN e.report ELSE t.usage.prompt
           /\ u.usage.out = IF e.kind = "finish" THEN e.report ELSE t.usage.out
           /\ u.done <=> (e.kind \in {"finish", "fault"} \/ t.done)
<1>1. CASE e.kind = "start"
  <2>1. u = [t EXCEPT !.usage.prompt = e.report]
    BY <1>1 DEF ReadAnthropic
  <2> QED BY <1>1, <2>1 DEF IsTranslator, Tallies
<1>2. CASE e.kind = "finish"
  <2>1. u = [t EXCEPT !.usage.out = e.report, !.done = TRUE]
    BY <1>2 DEF ReadAnthropic
  <2> QED BY <1>2, <2>1 DEF IsTranslator, Tallies
<1>3. CASE e.kind = "fault"
  <2>1. u = [t EXCEPT !.done = TRUE]
    BY <1>3 DEF ReadAnthropic
  <2> QED BY <1>3, <2>1 DEF IsTranslator, Tallies
<1>4. CASE e.kind = "opens"
  <2>1. u = [t EXCEPT !.tools = @ + 1, !.blocks = Append(@, e.block)]
    BY <1>4 DEF ReadAnthropic
  <2> QED BY <1>4, <2>1 DEF IsTranslator, Tallies
<1>5. CASE e.kind \in {"noise", "text", "think", "args"}
  <2>1. u = t
    BY <1>5 DEF ReadAnthropic
  <2> QED BY <1>5, <2>1
<1> QED BY <1>1, <1>2, <1>3, <1>4, <1>5

LEMMA GeminiCounts ==
    ASSUME NEW t, IsTranslator(t), NEW e, NEW n,
           \/ e.kind = "noise"
           \/ e.kind = "frame" /\ e.report \in Nat /\ e.finish \in BOOLEAN,
           NEW u, u = ReadGemini(t, e, n).t
    PROVE  /\ IsTranslator(u)
           /\ u.usage = IF e.kind = "frame"
                        THEN [prompt |-> e.report, out |-> e.report] ELSE t.usage
           /\ e.kind = "noise" => u = t
<1>1. CASE e.kind = "noise"
  BY <1>1 DEF ReadGemini
<1>2. CASE e.kind = "frame"
  <2>1. u =
          [t EXCEPT !.done = @ \/ e.finish, !.sentRole = TRUE,
                    !.tools = IF e.call THEN @ + 1 ELSE @,
                    !.usage = [prompt |-> e.report, out |-> e.report]]
    BY <1>2 DEF ReadGemini
  <2>2. (t.done \/ e.finish) \in BOOLEAN
    OBVIOUS
  <2> QED BY <1>2, <2>1, <2>2 DEF IsTranslator, Tallies
<1> QED BY <1>1, <1>2

-----------------------------------------------------------------------------

LEMMA ReportsAreNaturals == \A n \in Reports : n \in Nat
BY StreamAssumption

LEMMA ToolEventsAreCalls ==
    ASSUME NEW events, NEW e \in ToolEvents(events) PROVE e.kind \in {"opens", "args"}
<1>1. \A a, b : [kind |-> "opens", call |-> a, block |-> b].kind = "opens"
  OBVIOUS
<1>2. \A a, b : [kind |-> "args", call |-> a, block |-> b].kind = "args"
  OBVIOUS
<1> QED BY <1>1, <1>2 DEF ToolEvents

LEMMA OpenaiProvides ==
    ASSUME NEW events, NEW e \in OpenaiSends(events)
    PROVE  /\ e.kind \in {"done", "noise", "usage", "finish", "text", "opens", "args"}
           /\ e.kind = "usage" => e.report \in Nat
           /\ e.kind = "done" => (AsksForUsage(client, wire) => Has(events, "usage"))
<1>1. CASE Has(events, "finish") /\ AsksForUsage(client, wire) /\ ~Has(events, "usage")
  <2>1. e \in {[kind |-> "usage", report |-> n] : n \in Reports}
    BY <1>1 DEF OpenaiSends
  <2>2. PICK n \in Reports : e = [kind |-> "usage", report |-> n]
    BY <2>1
  <2>3. e.kind = "usage" /\ e.report = n
    BY <2>2
  <2> QED BY <2>3, ReportsAreNaturals
<1>2. CASE Has(events, "finish") /\ ~(AsksForUsage(client, wire) /\ ~Has(events, "usage"))
  <2>1. e = [kind |-> "done"]
    BY <1>2 DEF OpenaiSends
  <2> QED BY <1>2, <2>1
<1>3. CASE ~Has(events, "finish")
  <2>1. \/ e \in ToolEvents(events)
        \/ e = [kind |-> "text"] \/ e = [kind |-> "noise"]
        \/ e = [kind |-> "finish", tools |-> CallsOpened(events) > 0]
    BY <1>3 DEF OpenaiSends
  <2>2. e.kind \in {"noise", "finish", "text", "opens", "args"}
    BY <2>1, ToolEventsAreCalls
  <2> QED BY <2>2
<1> QED BY <1>1, <1>2, <1>3

LEMMA AnthropicProvides ==
    ASSUME NEW events, NEW e \in AnthropicSends(events)
    PROVE  /\ e.kind \in {"start", "noise", "fault", "finish", "text", "think", "opens", "args"}
           /\ e.kind \in {"start", "finish"} => e.report \in Nat
           /\ e.kind = "finish" => Has(events, "start")
<1>1. CASE ~Has(events, "start")
  <2>1. PICK n \in Reports : e = [kind |-> "start", report |-> n]
    BY <1>1 DEF AnthropicSends
  <2>2. e.kind = "start" /\ e.report = n
    BY <2>1
  <2> QED BY <2>2, ReportsAreNaturals
<1>2. CASE Has(events, "start")
  <2>1. \/ e \in ToolEvents(events)
        \/ \E k \in {"text", "think", "noise", "fault"} : e = [kind |-> k]
        \/ \E n \in Reports :
              e = [kind |-> "finish", report |-> n, tools |-> CallsOpened(events) > 0]
    BY <1>2 DEF AnthropicSends
  <2>2. CASE e \in ToolEvents(events)
    <3>1. e.kind \in {"opens", "args"}
      BY <2>2, ToolEventsAreCalls
    <3> QED BY <3>1
  <2>3. CASE \E k \in {"text", "think", "noise", "fault"} : e = [kind |-> k]
    <3>1. e.kind \in {"text", "think", "noise", "fault"}
      BY <2>3
    <3> QED BY <3>1
  <2>4. CASE \E n \in Reports :
              e = [kind |-> "finish", report |-> n, tools |-> CallsOpened(events) > 0]
    <3>1. e.kind = "finish" /\ e.report \in Reports
      BY <2>4
    <3> QED BY <1>2, <3>1, ReportsAreNaturals
  <2> QED BY <2>1, <2>2, <2>3, <2>4
<1> QED BY <1>1, <1>2

LEMMA GeminiProvides ==
    ASSUME NEW events, NEW e \in GeminiSends(events)
    PROVE  \/ e.kind = "noise"
           \/ e.kind = "frame" /\ e.report \in Nat /\ e.finish \in BOOLEAN
<1>1. CASE e = [kind |-> "noise"]
  BY <1>1
<1>2. CASE e # [kind |-> "noise"]
  <2> QED BY <1>2, ReportsAreNaturals DEF GeminiSends
<1> QED BY <1>1, <1>2

LEMMA StreamBegins == StreamInit => StreamInv
<1> SUFFICES ASSUME StreamInit PROVE StreamInv
  OBVIOUS
<1>1. /\ wire \in Dialects /\ seen = <<>> /\ translator = NewTranslator /\ phase = "open"
  BY DEF StreamInit
<1>2. seen \in Seq({}) /\ DOMAIN seen = {}
  BY <1>1
<1>3. IsTranslator(translator) /\ translator.done = FALSE
  BY <1>1 DEF NewTranslator, NoUsage, IsTranslator, Tallies
<1>4. CountsLastReport(translator, seen)
  BY <1>2 DEF CountsLastReport
<1> QED BY <1>1, <1>2, <1>3, <1>4 DEF StreamInv

\* What one event adds to what was read, in each dialect.
LEMMA PullCounts ==
    ASSUME NEW S, seen \in Seq(S), IsTranslator(translator), wire \in Dialects,
           CountsLastReport(translator, seen), wire # "openai" => ~translator.done,
           NEW e \in ProviderSends(seen), NEW more, more = Append(seen, e),
           NEW t, t = Translate(translator, e, Len(seen) + 1).t
    PROVE  /\ more \in Seq(S \cup {e})
           /\ IsTranslator(t) /\ CountsLastReport(t, more)
           /\ EndsStream(t, e) => HasReported(more)
           /\ ~EndsStream(t, e) => (wire # "openai" => ~t.done)
<1>0. more \in Seq(S \cup {e})
  BY AppendAny
<1>1. \A k : LastMoves(seen, more, e, k)
  BY KindsOfMore
<1>2. \A k : (Has(seen, k) => Has(more, k)) /\ (e.kind = k => Has(more, k))
  BY KindsOfMore
<1>3. CASE wire = "openai"
  <2>1. e \in OpenaiSends(seen)
    BY <1>3 DEF ProviderSends
  <2>2. /\ IsTranslator(t)
        /\ t.usage = IF e.kind = "usage"
                     THEN [prompt |-> e.report, out |-> e.report] ELSE translator.usage
    BY <1>3, <2>1, OpenaiProvides, OpenaiCounts DEF Translate
  <2>3. LastMoves(seen, more, e, "usage")
    BY <1>1
  <2>4. CountsLastReport(t, more)
    BY <1>3, <2>2, <2>3 DEF CountsLastReport, LastMoves
  <2>5. EndsStream(t, e) => HasReported(more)
    BY <1>2, <1>3, <2>1, OpenaiProvides DEF EndsStream, HasReported
  <2> QED BY <1>0, <1>3, <2>2, <2>4, <2>5
<1>4. CASE wire = "anthropic"
  <2>1. e \in AnthropicSends(seen)
    BY <1>4 DEF ProviderSends
  <2>2. /\ IsTranslator(t)
        /\ t.usage.prompt = IF e.kind = "start" THEN e.report ELSE translator.usage.prompt
        /\ t.usage.out = IF e.kind = "finish" THEN e.report ELSE translator.usage.out
        /\ t.done <=> (e.kind \in {"finish", "fault"} \/ translator.done)
    <3>1. t = ReadAnthropic(translator, e, Len(seen) + 1).t
      BY <1>4 DEF Translate
    <3>2. /\ e.kind \in {"start", "noise", "fault", "finish", "text", "think", "opens", "args"}
          /\ e.kind \in {"start", "finish"} => e.report \in Nat
      BY <2>1, AnthropicProvides
    <3> QED BY <3>1, <3>2, AnthropicCounts
  <2>3. LastMoves(seen, more, e, "start") /\ LastMoves(seen, more, e, "finish")
    BY <1>1
  <2>4. CountsLastReport(t, more)
    <3>1. ASSUME NEW i \in DOMAIN more, IsLast(more, "start", i)
          PROVE  t.usage.prompt = more[i].report
      BY <1>4, <2>2, <2>3, <3>1 DEF CountsLastReport, LastMoves
    <3>2. ASSUME NEW i \in DOMAIN more, IsLast(more, "finish", i)
          PROVE  t.usage.out = more[i].report
      BY <1>4, <2>2, <2>3, <3>2 DEF CountsLastReport, LastMoves
    <3> QED BY <1>4, <3>1, <3>2 DEF CountsLastReport
  <2>5. EndsStream(t, e) => e.kind \in {"finish", "fault"}
    BY <1>4, <2>2 DEF EndsStream
  <2>6. EndsStream(t, e) => HasReported(more)
    BY <1>2, <1>4, <2>1, <2>5, AnthropicProvides DEF HasReported
  <2>7. ~EndsStream(t, e) => ~t.done
    BY <1>4 DEF EndsStream
  <2> QED BY <1>0, <2>2, <2>4, <2>6, <2>7
<1>5. CASE wire = "gemini"
  <2>1. e \in GeminiSends(seen)
    BY <1>5 DEF ProviderSends
  <2>2. /\ IsTranslator(t)
        /\ t.usage = IF e.kind = "frame"
                     THEN [prompt |-> e.report, out |-> e.report] ELSE translator.usage
        /\ e.kind = "noise" => t = translator
        /\ e.kind \in {"noise", "frame"}
    BY <1>5, <2>1, GeminiProvides, GeminiCounts DEF Translate
  <2>3. LastMoves(seen, more, e, "frame")
    BY <1>1
  <2>4. CountsLastReport(t, more)
    BY <1>5, <2>2, <2>3 DEF CountsLastReport, LastMoves
  <2>5. EndsStream(t, e) => HasReported(more)
    BY <1>2, <1>5, <2>2 DEF EndsStream, HasReported
  <2>6. ~EndsStream(t, e) => ~t.done
    BY <1>5 DEF EndsStream
  <2> QED BY <1>0, <2>2, <2>4, <2>5, <2>6
<1> QED BY <1>3, <1>4, <1>5 DEF Dialects

LEMMA PullKeeps == StreamInv /\ Pull => StreamInv'
<1> SUFFICES ASSUME StreamInv, Pull PROVE StreamInv'
  OBVIOUS
<1>1. /\ phase = "open" /\ wire' = wire /\ client' = client
      /\ wire \in Dialects /\ IsTranslator(translator)
      /\ CountsLastReport(translator, seen) /\ (wire # "openai" => ~translator.done)
  BY DEF StreamInv, Pull
<1>2. PICK S : seen \in Seq(S)
  BY DEF StreamInv
<1>3. PICK e \in ProviderSends(seen) :
        LET t == Translate(translator, e, Len(seen) + 1).t
        IN  /\ seen' = Append(seen, e) /\ translator' = t
            /\ \/ EndsStream(t, e) /\ phase' = "ended" /\ bill' = t.usage
               \/ ~EndsStream(t, e) /\ phase' = phase
  BY Zenon DEF Pull, FinishStream
<1> DEFINE t == Translate(translator, e, Len(seen) + 1).t
           more == Append(seen, e)
<1>4. /\ more \in Seq(S \cup {e})
      /\ IsTranslator(t) /\ CountsLastReport(t, more)
      /\ EndsStream(t, e) => HasReported(more)
      /\ ~EndsStream(t, e) => (wire # "openai" => ~t.done)
  BY <1>1, <1>2, PullCounts
<1>5. /\ seen' = more /\ translator' = t
      /\ \/ EndsStream(t, e) /\ phase' = "ended" /\ bill' = t.usage
         \/ ~EndsStream(t, e) /\ phase' = "open"
  BY <1>1, <1>3
<1> HIDE DEF t, more
<1>6. CountsLastReport(t, more) => CountsLastReport(translator, seen)'
  BY <1>1, <1>5 DEF CountsLastReport
<1>7. HasReported(more) => HasReported(seen)'
  BY <1>1, <1>5 DEF HasReported
<1>8. \E R : seen' \in Seq(R)
  BY <1>4, <1>5
<1>9. IsTranslator(translator)'
  BY <1>4, <1>5
<1> QED BY <1>1, <1>4, <1>5, <1>6, <1>7, <1>8, <1>9 DEF StreamInv

LEMMA StreamStep == StreamInv /\ [StreamNext]_streamVars => StreamInv'
<1> SUFFICES ASSUME StreamInv, [StreamNext]_streamVars PROVE StreamInv'
  OBVIOUS
<1>1. CASE Pull
  BY <1>1, PullKeeps
<1>2. CASE UpstreamEnds \/ UpstreamBreaks \/ HangUp \/ UNCHANGED streamVars
  <2>1. /\ client' = client /\ wire' = wire /\ seen' = seen /\ translator' = translator
        /\ \/ phase' \in {"cut", "broken", "hung up"}
           \/ phase' = phase /\ bill' = bill
    BY <1>2 DEF UpstreamEnds, UpstreamBreaks, HangUp, FinishStream, streamVars
  <2>2. CountsLastReport(translator, seen)' <=> CountsLastReport(translator, seen)
    BY <2>1 DEF CountsLastReport
  <2>3. HasReported(seen)' <=> HasReported(seen)
    BY <2>1 DEF HasReported
  <2> QED BY <2>1, <2>2, <2>3 DEF StreamInv
<1> QED BY <1>1, <1>2 DEF StreamNext

LEMMA LastExists ==
    ASSUME NEW S, NEW events \in Seq(S), NEW k, Has(events, k)
    PROVE  /\ \E i \in OfKind(events, k) : \A j \in OfKind(events, k) : j <= i
           /\ \A i \in OfKind(events, k) : i \in DOMAIN events
<1>1. Len(events) \in Nat /\ OfKind(events, k) \subseteq 1..Len(events)
  BY DEF OfKind
<1>2. OfKind(events, k) # {}
  BY DEF Has
<1> HIDE DEF OfKind
<1> QED BY <1>1, <1>2, GreatestNumber

LEMMA BillIsLastReport == StreamInv => LastReportIsBilled
<1> SUFFICES ASSUME StreamInv, phase = "ended", AsksForUsage(client, wire),
                    ~Has(seen, "fault")
             PROVE  bill = LastReport
  BY DEF LastReportIsBilled
<1> DEFINE last(k) == CHOOSE i \in OfKind(seen, k) : \A j \in OfKind(seen, k) : j <= i
<1>1. PICK S : seen \in Seq(S)
  BY DEF StreamInv
<1>2. /\ wire \in Dialects /\ IsTranslator(translator) /\ CountsLastReport(translator, seen)
      /\ bill = translator.usage /\ HasReported(seen)
  BY DEF StreamInv
<1>3. ASSUME NEW k, Has(seen, k)
      PROVE  last(k) \in DOMAIN seen /\ IsLast(seen, k, last(k))
  <2>1. last(k) \in OfKind(seen, k) /\ \A j \in OfKind(seen, k) : j <= last(k)
    BY <1>1, <1>3, LastExists
  <2> QED BY <1>1, <1>3, <2>1, LastExists DEF IsLast
<1>4. LastReport =
        CASE wire = "openai" ->
               [prompt |-> seen[last("usage")].report, out |-> seen[last("usage")].report]
          [] wire = "anthropic" ->
               [prompt |-> seen[last("start")].report, out |-> seen[last("finish")].report]
          [] wire = "gemini" ->
               [prompt |-> seen[last("frame")].report, out |-> seen[last("frame")].report]
  BY Zenon DEF LastReport
<1> HIDE DEF last
<1>5. CASE wire = "openai"
  <2>1. Has(seen, "usage")
    BY <1>2, <1>5 DEF HasReported
  <2>2. translator.usage =
          [prompt |-> seen[last("usage")].report, out |-> seen[last("usage")].report]
    BY <1>2, <1>3, <1>5, <2>1 DEF CountsLastReport
  <2> QED BY <1>2, <1>4, <1>5, <2>2
<1>6. CASE wire = "anthropic"
  <2>1. Has(seen, "start") /\ Has(seen, "finish")
    BY <1>2, <1>6 DEF HasReported
  <2>2. /\ translator.usage.prompt = seen[last("start")].report
        /\ translator.usage.out = seen[last("finish")].report
    BY <1>2, <1>3, <1>6, <2>1 DEF CountsLastReport
  <2>3. translator.usage =
          [prompt |-> translator.usage.prompt, out |-> translator.usage.out]
    BY <1>2 DEF IsTranslator, Tallies
  <2> QED BY <1>2, <1>4, <1>6, <2>2, <2>3
<1>7. CASE wire = "gemini"
  <2>1. Has(seen, "frame")
    BY <1>2, <1>7 DEF HasReported
  <2>2. translator.usage =
          [prompt |-> seen[last("frame")].report, out |-> seen[last("frame")].report]
    BY <1>2, <1>3, <1>7, <2>1 DEF CountsLastReport
  <2> QED BY <1>2, <1>4, <1>7, <2>2
<1> QED BY <1>2, <1>5, <1>6, <1>7 DEF Dialects

\* However long a stream and whatever its reports: one that the loop itself ends is
\* billed for the last report its provider makes (finishStream, and the usage() of
\* the translators).
THEOREM LastReportAlwaysBilled == StreamSpec => []LastReportIsBilled
<1> QED BY StreamBegins, StreamStep, BillIsLastReport, PTL DEF StreamSpec

-----------------------------------------------------------------------------
(* The rest of what the client gets.  Whatever was told to it so far (the  *)
(* texts, the calls opened, the fragments of each) a stretch of frames shows, *)
(* in the way of its dialect; a chunk adds what it carries to both; an event *)
(* is at most four chunks that add what the event tells; and the tail closes *)
(* what has begun.                                                         *)
(*                                                                         *)
(* First, the chunks of an event are written one after the other.          *)

\* What the pull loop does with a chunk.
WrittenOn(acc, chunk) ==
    LET one == FrameChunk(acc.f, chunk)
    IN [f |-> one.f, out |-> acc.out \o one.out]

\* And with those of an event.
AllWritten(base, chunks) == FoldLeft(WrittenOn, base, chunks)

\* Written from the first to the i-th, of those in s.
Partly(base, chunks, s) ==
    LET w1 == IF 1 \in s THEN WrittenOn(base, chunks[1]) ELSE base
        w2 == IF 2 \in s THEN WrittenOn(w1, chunks[2]) ELSE w1
        w3 == IF 3 \in s THEN WrittenOn(w2, chunks[3]) ELSE w2
    IN  IF 4 \in s THEN WrittenOn(w3, chunks[4]) ELSE w3

LEMMA MaxIs ==
    ASSUME NEW n \in 0..4, NEW s, s \subseteq 1..n, s # {}
    PROVE  Max(s) \in s /\ \A y \in s : y <= Max(s)
<1>1. \E x \in s : \A y \in s : x >= y
  <2>1. n \in Nat
    OBVIOUS
  <2> QED BY <2>1, GreatestNumber
<1> QED BY <1>1 DEF Max

\* The latest of a few.
Latest(s, x) == s \subseteq 1..4 /\ x \in s /\ \A y \in s : y <= x

LEMMA PartlyGrows ==
    ASSUME NEW base, NEW chunks, NEW s, NEW x, Latest(s, x)
    PROVE  Partly(base, chunks, s) = WrittenOn(Partly(base, chunks, s \ {x}), chunks[x])
<1>0. x \in s /\ x \in 1..4 /\ \A y \in s : y \in 1..4 /\ y <= x
  BY DEF Latest
<1>1. CASE x = 1
  <2>1. 1 \in s /\ 2 \notin s /\ 3 \notin s /\ 4 \notin s
    BY <1>0, <1>1
  <2>2. 1 \notin s \ {x} /\ 2 \notin s \ {x} /\ 3 \notin s \ {x} /\ 4 \notin s \ {x}
    BY <1>1, <2>1
  <2> QED BY <1>1, <2>1, <2>2 DEF Partly
<1>2. CASE x = 2
  <2>1. 2 \in s /\ 3 \notin s /\ 4 \notin s
    BY <1>0, <1>2
  <2>2. (1 \in s \ {x} <=> 1 \in s) /\ 2 \notin s \ {x} /\ 3 \notin s \ {x} /\ 4 \notin s \ {x}
    BY <1>2, <2>1
  <2> QED BY <1>2, <2>1, <2>2 DEF Partly
<1>3. CASE x = 3
  <2>1. 3 \in s /\ 4 \notin s
    BY <1>0, <1>3
  <2>2. /\ (1 \in s \ {x} <=> 1 \in s) /\ (2 \in s \ {x} <=> 2 \in s)
        /\ 3 \notin s \ {x} /\ 4 \notin s \ {x}
    BY <1>3, <2>1
  <2> QED BY <1>3, <2>1, <2>2 DEF Partly
<1>4. CASE x = 4
  <2>1. 4 \in s
    BY <1>0, <1>4
  <2>2. /\ (1 \in s \ {x} <=> 1 \in s) /\ (2 \in s \ {x} <=> 2 \in s)
        /\ (3 \in s \ {x} <=> 3 \in s) /\ 4 \notin s \ {x}
    BY <1>4, <2>1
  <2> QED BY <1>4, <2>1, <2>2 DEF Partly
<1> QED BY <1>0, <1>1, <1>2, <1>3, <1>4

\* From base on, the chunks one by one.
Short(chunks, n) == n \in 0..4 /\ DOMAIN chunks = 1..n
\* The same, one chunk at a time.
Turns(acc, base, chunks, n) ==
    /\ acc[0] = base /\ AllWritten(base, chunks) = acc[n]
    /\ \A i \in 1..n : acc[i] = WrittenOn(acc[i - 1], chunks[i])

\* The fold takes them in turn.
LEMMA WrittenInTurn ==
    ASSUME NEW chunks, NEW n, Short(chunks, n), NEW base PROVE \E acc : Turns(acc, base, chunks, n)
<1>0. n \in 0..4 /\ DOMAIN chunks = 1..n
  BY DEF Short
<1> DEFINE S == 1..n
           Next1(h) == [s \in SUBSET S |->
                          IF s = {} THEN base ELSE WrittenOn(h[s \ {Max(s)}], chunks[Max(s)])]
           iter == CHOOSE h : h = Next1(h)
           whole == [s \in SUBSET S |-> Partly(base, chunks, s)]
<1>1. AllWritten(base, chunks) = iter[S]
  BY <1>0 DEF AllWritten, FoldLeft, MapThenFoldSet
<1>2. \A s \in SUBSET S : s # {} => Max(s) \in s /\ \A y \in s : y <= Max(s)
  BY <1>0, MaxIs
<1>3. whole = Next1(whole)
  <2>1. Partly(base, chunks, {}) = base
    BY DEF Partly
  <2>2. ASSUME NEW s \in SUBSET S, s # {}
        PROVE  Partly(base, chunks, s) = WrittenOn(whole[s \ {Max(s)}], chunks[Max(s)])
    <3>1. Partly(base, chunks, s) = WrittenOn(Partly(base, chunks, s \ {Max(s)}), chunks[Max(s)])
      <4>1. s \subseteq 1..n /\ Max(s) \in s /\ \A y \in s : y <= Max(s)
        BY <1>2, <2>2
      <4>2. PICK x : x = Max(s)
        OBVIOUS
      <4>3. Latest(s, x)
        BY <1>0, <4>1, <4>2 DEF Latest
      <4>4. Partly(base, chunks, s) = WrittenOn(Partly(base, chunks, s \ {x}), chunks[x])
        BY ONLY <4>3, PartlyGrows
      <4> QED BY <4>2, <4>4
    <3>2. s \ {Max(s)} \in SUBSET S
      OBVIOUS
    <3> QED BY <3>1, <3>2
  <2>3. \A s \in SUBSET S : Partly(base, chunks, s) =
           IF s = {} THEN base ELSE WrittenOn(whole[s \ {Max(s)}], chunks[Max(s)])
    BY <2>1, <2>2
  <2> HIDE DEF whole
  <2> QED BY <2>3 DEF whole
<1>4. iter = Next1(iter)
  <2> HIDE DEF Next1, whole
  <2> QED BY <1>3
<1>5. \A i \in 0..n : 1..i \in SUBSET S
  BY <1>0
<1> HIDE DEF iter, whole
<1>6. iter[1..0] = base
  <2>1. 1..0 = {} /\ {} \in SUBSET S
    OBVIOUS
  <2> QED BY <1>4, <2>1
<1>7. ASSUME NEW i \in 1..n PROVE iter[1..i] = WrittenOn(iter[1..(i - 1)], chunks[i])
  <2>1. 1..i \in SUBSET S /\ 1..i # {} /\ i \in 1..i
    BY <1>0
  <2>2. Max(1..i) \in 1..i /\ i <= Max(1..i)
    BY <1>2, <2>1
  <2>3. Max(1..i) = i
    BY <1>0, <2>2
  <2>4. (1..i) \ {i} = 1..(i - 1)
    BY <1>0
  <2> QED BY <1>4, <2>1, <2>3, <2>4
<1> DEFINE acc == [i \in 0..n |-> iter[1..i]]
<1>8. acc[0] = base /\ acc[n] = iter[S] /\ \A i \in 1..n : acc[i] = WrittenOn(acc[i - 1], chunks[i])
  BY <1>0, <1>6, <1>7
<1>9. Turns(acc, base, chunks, n)
  <2> HIDE DEF acc
  <2> QED BY <1>1, <1>8 DEF Turns
<1> HIDE DEF acc
<1> QED BY <1>9

-----------------------------------------------------------------------------
(* What a client has been told.                                            *)

\* A sequence, of whatever elements.
IsList(s) == \E S : s \in Seq(S)

LEMMA ListIs ==
    ASSUME NEW s, IsList(s) PROVE Len(s) \in Nat /\ DOMAIN s = 1..Len(s)
BY DEF IsList

\* A list goes on.
GoesOn(r, s, u) ==
    /\ IsList(r) /\ Len(r) = Len(s) + Len(u) /\ DOMAIN r = 1..(Len(s) + Len(u))
    /\ \A i \in 1..Len(s) : r[i] = s[i]
    /\ \A i \in 1..Len(u) : r[Len(s) + i] = u[i]

LEMMA ListGoesOn ==
    ASSUME NEW s, NEW u, IsList(s), IsList(u) PROVE GoesOn(s \o u, s, u)
<1>1. PICK S : s \in Seq(S)
  BY DEF IsList
<1>2. PICK R : u \in Seq(R)
  BY DEF IsList
<1>3. s \in Seq(S \cup R) /\ u \in Seq(S \cup R)
  BY <1>1, <1>2
<1>4. s \o u \in Seq(S \cup R)
  BY <1>3
<1>5. /\ Len(s \o u) = Len(s) + Len(u) /\ Len(s) \in Nat /\ Len(u) \in Nat
      /\ DOMAIN (s \o u) = 1..(Len(s) + Len(u))
  BY <1>3
<1>6. ASSUME NEW i \in 1..Len(s) PROVE (s \o u)[i] = s[i]
  BY <1>3
<1>7. ASSUME NEW i \in 1..Len(u) PROVE (s \o u)[Len(s) + i] = u[i]
  <2>1. Len(s) + i \in 1..(Len(s) + Len(u)) /\ Len(s) + i > Len(s) /\ (Len(s) + i) - Len(s) = i
    BY <1>5
  <2> QED BY <1>3, <2>1
<1> QED BY <1>4, <1>5, <1>6, <1>7 DEF GoesOn, IsList

LEMMA NothingFollows == ASSUME NEW s, IsList(s) PROVE s \o <<>> = s
BY DEF IsList

LEMMA OneIsList == \A x : IsList(<<x>>) /\ Len(<<x>>) = 1 /\ <<x>>[1] = x
<1> TAKE x
<1>1. <<x>> \in Seq({x})
  OBVIOUS
<1> QED BY <1>1 DEF IsList

LEMMA NoneIsList == IsList(<<>>) /\ Len(<<>>) = 0
<1>1. <<>> \in Seq({})
  OBVIOUS
<1> QED BY <1>1 DEF IsList

\* One frame more.
OneMore(r, s, x) ==
    /\ IsList(r) /\ Len(r) = Len(s) + 1 /\ DOMAIN r = 1..(Len(s) + 1)
    /\ Len(s) \in Nat /\ DOMAIN s = 1..Len(s)
    /\ \A i \in 1..Len(s) : r[i] = s[i]
    /\ r[Len(s) + 1] = x

LEMMA ListAppends == ASSUME NEW s, IsList(s), NEW x PROVE OneMore(s \o <<x>>, s, x)
<1>1. PICK u : u = <<x>>
  OBVIOUS
<1>2. IsList(u) /\ Len(u) = 1 /\ u[1] = x
  BY <1>1, OneIsList
<1>3. GoesOn(s \o u, s, u) /\ Len(s) \in Nat /\ DOMAIN s = 1..Len(s)
  BY <1>2, ListGoesOn, ListIs
<1>4. (s \o u)[Len(s) + 1] = x
  BY <1>2, <1>3 DEF GoesOn
<1>5. OneMore(s \o u, s, x)
  BY <1>2, <1>3, <1>4 DEF OneMore, GoesOn
<1> QED BY <1>1, <1>5

\* What the translator has told: the texts, the number of calls, the fragments
\* of each.
Told(texts, calls, args) ==
    /\ 0 \notin texts /\ calls \in Nat
    /\ args = [c \in Nat |-> args[c]] /\ \A c \in Nat : 0 \notin args[c]

\* A chunk carries a text or a call, never both, and a call that is not open is
\* the next one.
CallIs(toolcall, calls) ==
    /\ DOMAIN toolcall = {"index", "opens", "args"}
    /\ toolcall.index \in 0..calls /\ toolcall.opens \in BOOLEAN /\ (toolcall.opens <=> toolcall.index = calls)
\* What a chunk may be with so many calls open.
Proper(chunk, calls) ==
    /\ DOMAIN chunk = {"text", "think", "calls", "finish"}
    /\ \/ chunk.calls = <<>>
       \/ chunk.text = 0 /\ \E toolcall : chunk.calls = <<toolcall>> /\ CallIs(toolcall, calls)

\* What was told, with the chunk's part.
TextsTold(texts, chunk) == IF chunk.text # 0 THEN texts \cup {chunk.text} ELSE texts
Opened(calls, chunk) == IF chunk.calls # <<>> /\ chunk.calls[1].opens THEN calls + 1 ELSE calls
Args(args, chunk) ==
    [c \in Nat |-> IF chunk.calls # <<>> /\ chunk.calls[1].index = c /\ chunk.calls[1].args # 0
                   THEN args[c] \cup {chunk.calls[1].args} ELSE args[c]]

LEMMA ToldMore ==
    ASSUME NEW texts, NEW calls, NEW args, Told(texts, calls, args), NEW chunk
    PROVE  Told(TextsTold(texts, chunk), Opened(calls, chunk), Args(args, chunk))
<1>1. 0 \notin TextsTold(texts, chunk) /\ Opened(calls, chunk) \in Nat
  BY DEF Told, TextsTold, Opened
<1>2. \A c \in Nat : 0 \notin Args(args, chunk)[c]
  BY DEF Told, Args
<1>3. Args(args, chunk) = [c \in Nat |-> Args(args, chunk)[c]]
  BY DEF Args
<1> QED BY <1>1, <1>2, <1>3 DEF Told

\* The fields of a framer.
FramerFields == {"sawFinish", "openToolBlocks", "nextIndex", "textIndex", "stopReason", "closed"}

-----------------------------------------------------------------------------
(* An OpenAI client gets the chunks as they are.                           *)

CarriesPart(chunk, c, n) ==
    chunk.calls # <<>> /\ \E k \in DOMAIN chunk.calls : chunk.calls[k].index = c /\ chunk.calls[k].args = n

\* Each text told is a chunk's, and each fragment is its call's.
ShownOpenai(out, texts, args) ==
    /\ IsList(out) /\ \A i \in DOMAIN out : out[i].type = "chunk"
    /\ \A n : n # 0 => (n \in texts <=> \E i \in DOMAIN out : out[i].chunk.text = n)
    /\ \A c \in Nat : \A n : n # 0 =>
          (n \in args[c] <=> \E i \in DOMAIN out : CarriesPart(out[i].chunk, c, n))

LEMMA OpenaiWrites ==
    ASSUME NEW out, NEW texts, NEW calls, NEW args, Told(texts, calls, args),
           ShownOpenai(out, texts, args), NEW chunk, Proper(chunk, calls),
           NEW r, r = out \o <<[type |-> "chunk", chunk |-> chunk]>>
    PROVE  ShownOpenai(r, TextsTold(texts, chunk), Args(args, chunk))
<1> DEFINE x == [type |-> "chunk", chunk |-> chunk]
<1>1. OneMore(r, out, x) /\ x.type = "chunk" /\ x.chunk = chunk
  BY ListAppends DEF ShownOpenai
<1> HIDE DEF x
<1>2. \A i \in DOMAIN r : r[i].type = "chunk"
  BY <1>1 DEF OneMore, ShownOpenai
<1>3. ASSUME NEW n, n # 0
      PROVE  n \in TextsTold(texts, chunk) <=> \E i \in DOMAIN r : r[i].chunk.text = n
  <2>1. (\E i \in DOMAIN r : r[i].chunk.text = n) <=>
          ((\E i \in DOMAIN out : out[i].chunk.text = n) \/ chunk.text = n)
    BY <1>1 DEF OneMore
  <2>2. n \in texts <=> \E i \in DOMAIN out : out[i].chunk.text = n
    BY <1>3 DEF ShownOpenai
  <2> QED BY <1>3, <2>1, <2>2 DEF TextsTold
<1>4. ASSUME NEW c \in Nat, NEW n, n # 0
      PROVE  n \in Args(args, chunk)[c] <=> \E i \in DOMAIN r : CarriesPart(r[i].chunk, c, n)
  <2>1. (\E i \in DOMAIN r : CarriesPart(r[i].chunk, c, n)) <=>
          ((\E i \in DOMAIN out : CarriesPart(out[i].chunk, c, n)) \/ CarriesPart(chunk, c, n))
    BY <1>1 DEF OneMore
  <2>2. n \in args[c] <=> \E i \in DOMAIN out : CarriesPart(out[i].chunk, c, n)
    BY <1>4 DEF ShownOpenai
  <2>3. CarriesPart(chunk, c, n) <=>
          chunk.calls # <<>> /\ chunk.calls[1].index = c /\ chunk.calls[1].args = n
    <3>1. CASE chunk.calls = <<>>
      BY <3>1 DEF CarriesPart
    <3>2. CASE chunk.calls # <<>>
      <4>1. PICK toolcall : chunk.calls = <<toolcall>>
        BY <3>2 DEF Proper
      <4>2. DOMAIN chunk.calls = {1}
        BY <4>1
      <4> QED BY <3>2, <4>2 DEF CarriesPart
    <3> QED BY <3>1, <3>2
  <2>4. n \in Args(args, chunk)[c] <=>
          n \in args[c] \/ (chunk.calls # <<>> /\ chunk.calls[1].index = c /\ chunk.calls[1].args = n)
    BY <1>4 DEF Args
  <2> QED BY <2>1, <2>2, <2>3, <2>4
<1> QED BY <1>1, <1>2, <1>3, <1>4 DEF ShownOpenai, OneMore

-----------------------------------------------------------------------------
(* A Gemini client gets the texts, and the calls when they open.           *)

\* Each text told is a frame's, and so is an end that the framer has noted.
ShownGemini(f, out, texts) ==
    /\ IsList(out) /\ \A i \in DOMAIN out : out[i].type = "candidate"
    /\ \A n : n # 0 => (n \in texts <=> \E i \in DOMAIN out : out[i].text = n)
    /\ f.sawFinish => \E i \in DOMAIN out : out[i].finish

LEMMA GeminiWrites ==
    ASSUME NEW f, DOMAIN f = FramerFields, NEW out, NEW texts, ShownGemini(f, out, texts), NEW chunk,
           NEW one, one = FrameGemini(f, chunk), NEW r, r = out \o one.out
    PROVE  ShownGemini(one.f, r, TextsTold(texts, chunk)) /\ DOMAIN one.f = FramerFields
<1> DEFINE named == SelectSeq(chunk.calls, LAMBDA c : c.opens)
           empty == chunk.text = 0 /\ ~chunk.think /\ named = <<>> /\ chunk.finish = ""
           x == [type |-> "candidate", text |-> chunk.text, calls |-> named,
                 finish |-> chunk.finish # ""]
<1>1. /\ one.f = [f EXCEPT !.sawFinish = @ \/ chunk.finish # ""]
      /\ one.out = IF empty THEN <<>> ELSE <<x>>
  BY DEF FrameGemini
<1>2. /\ x.type = "candidate" /\ x.text = chunk.text
      /\ empty => chunk.text = 0 /\ chunk.finish = ""
  OBVIOUS
<1>2x. x.finish <=> chunk.finish # ""
  OBVIOUS
<1> HIDE DEF x, empty
<1>3. DOMAIN one.f = FramerFields /\ one.f.sawFinish = (f.sawFinish \/ chunk.finish # "")
  BY <1>1 DEF FramerFields
<1>4. CASE empty
  <2>1. r = out
    BY <1>1, <1>4, NothingFollows DEF ShownGemini
  <2>2. TextsTold(texts, chunk) = texts
    BY <1>2, <1>4 DEF TextsTold
  <2> QED BY <1>2, <1>3, <1>4, <2>1, <2>2 DEF ShownGemini
<1>5. CASE ~empty
  <2>0. PICK y : y = x
    OBVIOUS
  <2>0a. y.type = "candidate" /\ y.text = chunk.text
    BY <1>2, <2>0
  <2>1a. OneMore(r, out, y)
    BY <1>1, <1>5, <2>0, ListAppends DEF ShownGemini
  <2>1. OneMore(r, out, x)
    BY <2>0, <2>1a
  <2>2. \A i \in DOMAIN r : r[i].type = "candidate"
    BY <2>0a, <2>1a DEF OneMore, ShownGemini
  <2>3. ASSUME NEW n, n # 0
        PROVE  n \in TextsTold(texts, chunk) <=> \E i \in DOMAIN r : r[i].text = n
    <3>1. (\E i \in DOMAIN r : r[i].text = n) <=>
            ((\E i \in DOMAIN out : out[i].text = n) \/ chunk.text = n)
      BY <2>0a, <2>1a DEF OneMore
    <3>2. n \in texts <=> \E i \in DOMAIN out : out[i].text = n
      BY <2>3 DEF ShownGemini
    <3> QED BY <2>3, <3>1, <3>2 DEF TextsTold
  <2>4. ASSUME one.f.sawFinish PROVE \E i \in DOMAIN r : r[i].finish
    <3>1. CASE f.sawFinish
      BY <2>1, <3>1 DEF OneMore, ShownGemini
    <3>2. CASE ~f.sawFinish
      <4>1. x.finish
        BY <1>2x, <1>3, <2>4, <3>2
      <4> QED BY <2>1, <4>1 DEF OneMore
    <3> QED BY <3>1, <3>2
  <2> QED BY <1>3, <2>1, <2>2, <2>3, <2>4 DEF ShownGemini, OneMore
<1> QED BY <1>4, <1>5

-----------------------------------------------------------------------------
(* An Anthropic client gets blocks.                                        *)

\* A frame of block k, and the parts that stand within it.
BeginsBlock(frame, k) == frame.type = "block_start" /\ frame.index = k
Part(frame, k, n) == frame.type = "block_delta" /\ frame.index = k /\ frame.part = n
Within(out, k, n) == \E i \in DOMAIN out : Part(out[i], k, n)

\* n blocks, one begun after the other, and every delta in one that has begun.
Tree(out, n) ==
    /\ IsList(out) /\ Len(out) >= 1 /\ out[1].type = "message_start" /\ n \in Nat
    /\ \A i \in 2..Len(out) : out[i].type \in {"block_start", "block_delta"}
    /\ \A i \in DOMAIN out : out[i].type = "block_start" => out[i].index \in 0..(n - 1)
    /\ \A i \in DOMAIN out : out[i].type = "block_delta" =>
          \E j \in DOMAIN out : j < i /\ BeginsBlock(out[j], out[i].index)
    /\ \A k \in 0..(n - 1) : \E i \in DOMAIN out : BeginsBlock(out[i], k)
    /\ \A i, j \in DOMAIN out :
          i < j /\ out[i].type = "block_start" /\ out[j].type = "block_start" =>
             out[i].index < out[j].index

LEMMA TreeOpens ==
    ASSUME NEW out, NEW n, Tree(out, n), NEW x, BeginsBlock(x, n), NEW r, OneMore(r, out, x)
    PROVE  Tree(r, n + 1)
<1>1. /\ IsList(r) /\ Len(r) >= 1 /\ r[1].type = "message_start" /\ n + 1 \in Nat
      /\ \A i \in 2..Len(r) : r[i].type \in {"block_start", "block_delta"}
  BY DEF Tree, OneMore, BeginsBlock
<1>2. \A i \in DOMAIN r : r[i].type = "block_start" => r[i].index \in 0..((n + 1) - 1)
  BY DEF Tree, OneMore, BeginsBlock
<1>3. ASSUME NEW i \in DOMAIN r, r[i].type = "block_delta"
      PROVE  \E j \in DOMAIN r : j < i /\ BeginsBlock(r[j], r[i].index)
  <2>1. i \in DOMAIN out /\ r[i] = out[i]
    BY <1>3 DEF OneMore, BeginsBlock
  <2>2. PICK j \in DOMAIN out : j < i /\ BeginsBlock(out[j], out[i].index)
    BY <1>3, <2>1 DEF Tree
  <2>3. j \in DOMAIN r /\ r[j] = out[j]
    BY DEF OneMore
  <2> QED BY <2>1, <2>2, <2>3
<1>4. ASSUME NEW k \in 0..((n + 1) - 1) PROVE \E i \in DOMAIN r : BeginsBlock(r[i], k)
  <2>1. CASE k = n
    <3>1. Len(out) + 1 \in DOMAIN r /\ r[Len(out) + 1] = x
      BY DEF OneMore
    <3> QED BY <2>1, <3>1
  <2>2. CASE k # n
    <3>1. k \in 0..(n - 1)
      BY <2>2 DEF Tree
    <3>2. PICK i \in DOMAIN out : BeginsBlock(out[i], k)
      BY <3>1 DEF Tree
    <3>3. i \in DOMAIN r /\ r[i] = out[i]
      BY DEF OneMore
    <3> QED BY <3>2, <3>3
  <2> QED BY <2>1, <2>2
<1>5. ASSUME NEW i \in DOMAIN r, NEW j \in DOMAIN r, i < j,
             r[i].type = "block_start", r[j].type = "block_start"
      PROVE  r[i].index < r[j].index
  <2>1. i \in DOMAIN out /\ r[i] = out[i]
    BY <1>5 DEF OneMore
  <2>2. CASE j \in DOMAIN out
    <3>1. r[j] = out[j]
      BY <2>2 DEF OneMore
    <3> QED BY <1>5, <2>1, <2>2, <3>1 DEF Tree
  <2>3. CASE j \notin DOMAIN out
    <3>1. r[j] = x
      BY <2>3 DEF OneMore
    <3>2. out[i].index \in 0..(n - 1)
      BY <1>5, <2>1 DEF Tree
    <3> QED BY <2>1, <3>1, <3>2 DEF BeginsBlock, Tree
  <2> QED BY <2>2, <2>3
<1> QED BY <1>1, <1>2, <1>3, <1>4, <1>5 DEF Tree

LEMMA TreeAdds ==
    ASSUME NEW out, NEW n, Tree(out, n), NEW x, x.type = "block_delta", x.index \in 0..(n - 1),
           NEW r, OneMore(r, out, x)
    PROVE  Tree(r, n)
<1>1. /\ IsList(r) /\ Len(r) >= 1 /\ r[1].type = "message_start" /\ n \in Nat
      /\ \A i \in 2..Len(r) : r[i].type \in {"block_start", "block_delta"}
  BY DEF Tree, OneMore
<1>2. \A i \in DOMAIN r : r[i].type = "block_start" => i \in DOMAIN out /\ r[i] = out[i]
  BY DEF OneMore
<1>3. ASSUME NEW i \in DOMAIN r, r[i].type = "block_delta"
      PROVE  \E j \in DOMAIN r : j < i /\ BeginsBlock(r[j], r[i].index)
  <2>1. \A j \in DOMAIN out : j \in DOMAIN r /\ r[j] = out[j]
    BY DEF OneMore
  <2>2. CASE i \in DOMAIN out
    <3>1. PICK j \in DOMAIN out : j < i /\ BeginsBlock(out[j], out[i].index)
      BY <1>3, <2>1, <2>2 DEF Tree
    <3> QED BY <2>1, <2>2, <3>1
  <2>3. CASE i \notin DOMAIN out
    <3>1. i = Len(out) + 1 /\ r[i] = x
      BY <1>3, <2>3 DEF OneMore
    <3>2. PICK j \in DOMAIN out : BeginsBlock(out[j], x.index)
      BY DEF Tree
    <3>3. j < i
      BY <3>1 DEF OneMore
    <3> QED BY <2>1, <3>1, <3>2, <3>3
  <2> QED BY <2>2, <2>3
<1>4. ASSUME NEW k \in 0..(n - 1) PROVE \E i \in DOMAIN r : BeginsBlock(r[i], k)
  <2>1. PICK i \in DOMAIN out : BeginsBlock(out[i], k)
    BY DEF Tree
  <2>2. i \in DOMAIN r /\ r[i] = out[i]
    BY DEF OneMore
  <2> QED BY <2>1, <2>2
<1> QED BY <1>1, <1>2, <1>3, <1>4 DEF Tree

LEMMA WithinMore ==
    ASSUME NEW out, NEW r, NEW x, OneMore(r, out, x), NEW k, NEW n
    PROVE  Within(r, k, n) <=> Within(out, k, n) \/ Part(x, k, n)
BY DEF Within, OneMore

\* The block of the c-th call, where the text's is block tx or not begun.
ToolAt(tx, c) == IF tx = -1 \/ c < tx THEN c ELSE c + 1

\* Text and calls each have their block, and it holds what was told of them.
Blocks(n, tx, blocks, out, texts, calls, args) ==
    /\ Tree(out, n)
    /\ tx \in Int /\ -1 <= tx /\ tx <= calls /\ n = IF tx = -1 THEN calls ELSE calls + 1
    /\ IsList(blocks) /\ Len(blocks) = calls
    /\ \A i \in 1..calls : blocks[i].call = i - 1 /\ blocks[i].index = ToolAt(tx, i - 1)
    /\ \A i \in DOMAIN out : out[i].type = "block_start" => out[i].tool = (out[i].index # tx)
    /\ \A p : p \in texts <=> Within(out, tx, p)
    /\ \A c \in Nat : IF c < calls THEN \A p : p \in args[c] <=> Within(out, ToolAt(tx, c), p)
                                   ELSE args[c] = {}

LEMMA NothingWithin ==
    ASSUME NEW out, NEW n, Tree(out, n), NEW k, k \notin 0..(n - 1), NEW p PROVE ~Within(out, k, p)
<1> SUFFICES ASSUME NEW i \in DOMAIN out, Part(out[i], k, p) PROVE FALSE
  BY DEF Within
<1>1. PICK j \in DOMAIN out : BeginsBlock(out[j], out[i].index)
  BY DEF Tree, Part
<1>2. out[j].index \in 0..(n - 1)
  BY <1>1 DEF Tree, BeginsBlock
<1> QED BY <1>1, <1>2 DEF BeginsBlock, Part

-----------------------------------------------------------------------------
(* What a frame does to the blocks.                                        *)

StartFrame(x, k, tool) == BeginsBlock(x, k) /\ x.tool = tool

LEMMA StartHoldsNothing ==
    ASSUME NEW x, NEW m, BeginsBlock(x, m) PROVE \A k, p : ~Part(x, k, p)
BY DEF BeginsBlock, Part

LEMMA TextBlockBegins ==
    ASSUME NEW n, NEW blocks, NEW out, NEW texts, NEW calls, NEW args, Told(texts, calls, args),
           Blocks(n, -1, blocks, out, texts, calls, args),
           NEW x, StartFrame(x, n, FALSE), NEW r, OneMore(r, out, x)
    PROVE  Blocks(n + 1, n, blocks, r, texts, calls, args)
<1>0. calls \in Nat /\ n = calls /\ Tree(out, n)
  BY DEF Told, Blocks
<1>1. Tree(r, n + 1)
  BY <1>0, TreeOpens DEF StartFrame
<1>2. \A k, p : Within(r, k, p) <=> Within(out, k, p)
  BY WithinMore, StartHoldsNothing DEF StartFrame
<1>3. \A i \in 1..calls : blocks[i].call = i - 1 /\ blocks[i].index = ToolAt(n, i - 1)
  BY <1>0 DEF Blocks, ToolAt
<1>4. \A i \in DOMAIN r : r[i].type = "block_start" => r[i].tool = (r[i].index # n)
  <2>1. \A i \in DOMAIN out : out[i].type = "block_start" =>
           out[i].tool = (out[i].index # -1) /\ out[i].index \in 0..(n - 1)
    BY <1>0 DEF Blocks, Tree
  <2>2. \A i \in DOMAIN out : out[i].type = "block_start" => out[i].tool = (out[i].index # n)
    BY <1>0, <2>1
  <2>3. x.index = n /\ x.tool = FALSE
    BY DEF StartFrame, BeginsBlock
  <2>4. (x.index # n) = x.tool
    BY <2>3
  <2>5. ASSUME NEW i \in DOMAIN r, r[i].type = "block_start" PROVE r[i].tool = (r[i].index # n)
    <3>1. CASE i \in DOMAIN out
      <4>1. r[i] = out[i]
        BY <3>1 DEF OneMore
      <4> QED BY <2>5, <2>2, <3>1, <4>1
    <3>2. CASE i \notin DOMAIN out
      <4>1. r[i] = x
        BY <3>2 DEF OneMore
      <4> QED BY <2>4, <4>1
    <3> QED BY <3>1, <3>2
  <2> QED BY <2>5
<1>5. \A p : p \in texts <=> Within(r, n, p)
  <2>0. n \notin 0..(n - 1) /\ -1 \notin 0..(n - 1)
    BY <1>0
  <2>1. \A p : ~Within(out, n, p) /\ ~Within(out, -1, p)
    <3>1. Tree(out, n)
      BY <1>0
    <3> QED BY ONLY <3>1, <2>0, NothingWithin
  <2> QED BY <1>2, <2>1 DEF Blocks
<1>6. \A c \in Nat : IF c < calls THEN \A p : p \in args[c] <=> Within(r, ToolAt(n, c), p)
                                  ELSE args[c] = {}
  <2>1. \A c \in Nat : c < calls => ToolAt(n, c) = ToolAt(-1, c)
    BY <1>0 DEF ToolAt
  <2> QED BY <1>2, <2>1 DEF Blocks
<1> QED BY <1>0, <1>1, <1>3, <1>4, <1>5, <1>6 DEF Blocks

LEMMA ToolBlockBegins ==
    ASSUME NEW n, NEW tx, NEW blocks, NEW out, NEW texts, NEW calls, NEW args, Told(texts, calls, args),
           Blocks(n, tx, blocks, out, texts, calls, args),
           NEW x, StartFrame(x, n, TRUE), NEW r, OneMore(r, out, x),
           NEW b, b.call = calls, b.index = n, NEW more, OneMore(more, blocks, b)
    PROVE  Blocks(n + 1, tx, more, r, texts, calls + 1, args)
<1>0. /\ calls \in Nat /\ Tree(out, n) /\ n \in Nat /\ n # tx
      /\ ToolAt(tx, calls) = n /\ tx \in Int /\ -1 <= tx /\ tx <= calls + 1
      /\ n + 1 = IF tx = -1 THEN calls + 1 ELSE (calls + 1) + 1
  BY DEF Told, Blocks, ToolAt
<1>1. Tree(r, n + 1)
  BY <1>0, TreeOpens DEF StartFrame
<1>2. \A k, p : Within(r, k, p) <=> Within(out, k, p)
  BY WithinMore, StartHoldsNothing DEF StartFrame
<1>3. \A i \in 1..(calls + 1) : more[i].call = i - 1 /\ more[i].index = ToolAt(tx, i - 1)
  <2>1. \A i \in 1..calls : more[i].call = i - 1 /\ more[i].index = ToolAt(tx, i - 1)
    BY DEF Blocks, OneMore
  <2>2. more[calls + 1].call = calls /\ more[calls + 1].index = ToolAt(tx, calls)
    BY <1>0 DEF Blocks, OneMore
  <2> QED BY <1>0, <2>1, <2>2
<1>3a. IsList(more) /\ Len(more) = calls + 1
  BY DEF Blocks, OneMore
<1>4. \A i \in DOMAIN r : r[i].type = "block_start" => r[i].tool = (r[i].index # tx)
  <2>1. \A i \in DOMAIN out : out[i].type = "block_start" => out[i].tool = (out[i].index # tx)
    BY DEF Blocks
  <2>3. x.index = n /\ x.tool = TRUE
    BY DEF StartFrame, BeginsBlock
  <2>4. (x.index # tx) = x.tool
    BY <1>0, <2>3
  <2>5. ASSUME NEW i \in DOMAIN r, r[i].type = "block_start" PROVE r[i].tool = (r[i].index # tx)
    <3>1. CASE i \in DOMAIN out
      <4>1. r[i] = out[i]
        BY <3>1 DEF OneMore
      <4> QED BY <2>5, <2>1, <3>1, <4>1
    <3>2. CASE i \notin DOMAIN out
      <4>1. r[i] = x
        BY <3>2 DEF OneMore
      <4> QED BY <2>4, <4>1
    <3> QED BY <3>1, <3>2
  <2> QED BY <2>5
<1>5. \A p : p \in texts <=> Within(r, tx, p)
  BY <1>2 DEF Blocks
<1>6. ASSUME NEW c \in Nat
      PROVE  IF c < calls + 1 THEN \A p : p \in args[c] <=> Within(r, ToolAt(tx, c), p)
                              ELSE args[c] = {}
  <2>1. CASE c < calls
    BY <1>0, <1>2, <2>1 DEF Blocks
  <2>2. CASE c = calls
    <3>1. args[c] = {}
      BY <1>0, <2>2 DEF Blocks
    <3>2. \A p : ~Within(r, n, p)
      <4>1. n \notin 0..(n - 1)
        BY <1>0
      <4>2. Tree(out, n)
        BY <1>0
      <4>3. \A p : ~Within(out, n, p)
        BY ONLY <4>1, <4>2, NothingWithin
      <4> QED BY <1>2, <4>3
    <3> QED BY <1>0, <2>2, <3>1, <3>2
  <2>3. CASE c > calls
    BY <1>0, <2>3 DEF Blocks
  <2> QED BY <1>0, <2>1, <2>2, <2>3
<1> QED BY <1>0, <1>1, <1>3, <1>3a, <1>4, <1>5, <1>6 DEF Blocks

LEMMA TextIsWritten ==
    ASSUME NEW n, NEW tx, NEW blocks, NEW out, NEW texts, NEW calls, NEW args, Told(texts, calls, args),
           Blocks(n, tx, blocks, out, texts, calls, args), tx # -1,
           NEW x, NEW m, Part(x, tx, m), NEW r, OneMore(r, out, x)
    PROVE  Blocks(n, tx, blocks, r, texts \cup {m}, calls, args)
<1>0. calls \in Nat /\ Tree(out, n) /\ n \in Nat /\ tx \in 0..(n - 1)
  BY DEF Told, Blocks
<1>1. Tree(r, n)
  BY <1>0, TreeAdds DEF Part
<1>2. \A k, p : Within(r, k, p) <=> Within(out, k, p) \/ (k = tx /\ p = m)
  BY WithinMore DEF Part
<1>4. \A i \in DOMAIN r : r[i].type = "block_start" => r[i].tool = (r[i].index # tx)
  <2>1. x.type # "block_start"
    BY DEF Part
  <2> QED BY <2>1 DEF OneMore, Blocks
<1>5. \A p : p \in texts \cup {m} <=> Within(r, tx, p)
  BY <1>2 DEF Blocks
<1>6. \A c \in Nat : IF c < calls THEN \A p : p \in args[c] <=> Within(r, ToolAt(tx, c), p)
                                  ELSE args[c] = {}
  <2>1. \A c \in Nat : ToolAt(tx, c) # tx
    BY <1>0 DEF ToolAt
  <2> QED BY <1>2, <2>1 DEF Blocks
<1> QED BY <1>0, <1>1, <1>4, <1>5, <1>6 DEF Blocks

LEMMA FragmentIsWritten ==
    ASSUME NEW n, NEW tx, NEW blocks, NEW out, NEW texts, NEW calls, NEW args, Told(texts, calls, args),
           Blocks(n, tx, blocks, out, texts, calls, args), NEW d \in Nat, d < calls,
           NEW x, NEW m, Part(x, ToolAt(tx, d), m), NEW r, OneMore(r, out, x),
           NEW more, \A c \in Nat : more[c] = IF c = d THEN args[c] \cup {m} ELSE args[c]
    PROVE  Blocks(n, tx, blocks, r, texts, calls, more)
<1>0. /\ calls \in Nat /\ Tree(out, n) /\ n \in Nat /\ tx \in Int
      /\ ToolAt(tx, d) \in 0..(n - 1) /\ ToolAt(tx, d) # tx
  BY DEF Told, Blocks, ToolAt
<1>1. Tree(r, n)
  BY <1>0, TreeAdds DEF Part
<1>2. \A k, p : Within(r, k, p) <=> Within(out, k, p) \/ (k = ToolAt(tx, d) /\ p = m)
  BY WithinMore DEF Part
<1>4. \A i \in DOMAIN r : r[i].type = "block_start" => r[i].tool = (r[i].index # tx)
  <2>1. x.type # "block_start"
    BY DEF Part
  <2> QED BY <2>1 DEF OneMore, Blocks
<1>5. \A p : p \in texts <=> Within(r, tx, p)
  BY <1>0, <1>2 DEF Blocks
<1>6. ASSUME NEW c \in Nat
      PROVE  IF c < calls THEN \A p : p \in more[c] <=> Within(r, ToolAt(tx, c), p)
                          ELSE more[c] = {}
  <2>1. c # d => ToolAt(tx, c) # ToolAt(tx, d)
    BY <1>0 DEF ToolAt
  <2>2. more[c] = IF c = d THEN args[c] \cup {m} ELSE args[c]
    OBVIOUS
  <2>3. IF c < calls THEN \A p : p \in args[c] <=> Within(out, ToolAt(tx, c), p)
                     ELSE args[c] = {}
    BY DEF Blocks
  <2>4. CASE c < calls
    BY <1>2, <2>1, <2>2, <2>3, <2>4
  <2>5. CASE ~(c < calls)
    BY <2>2, <2>3, <2>5
  <2> QED BY <2>4, <2>5
<1> QED BY <1>0, <1>1, <1>4, <1>5, <1>6 DEF Blocks

-----------------------------------------------------------------------------
(* The Anthropic framer.                                                   *)

LEMMA ListsAssociate ==
    ASSUME NEW s, NEW t, NEW u, IsList(s), IsList(t), IsList(u)
    PROVE  (s \o t) \o u = s \o (t \o u)
<1>1. PICK S : s \in Seq(S)
  BY DEF IsList
<1>2. PICK T : t \in Seq(T)
  BY DEF IsList
<1>3. PICK U : u \in Seq(U)
  BY DEF IsList
<1>4. PICK V : V = S \cup T \cup U
  OBVIOUS
<1>5. s \in Seq(V) /\ t \in Seq(V) /\ u \in Seq(V)
  BY <1>1, <1>2, <1>3, <1>4
<1> QED BY ONLY <1>5, ConcatAssociative

LEMMA NothingPrecedes == ASSUME NEW s, IsList(s) PROVE <<>> \o s = s
BY DEF IsList

\* The framer's own account of the blocks is right.
ShownAnthropic(f, out, texts, calls, args) ==
    /\ DOMAIN f = FramerFields
    /\ Blocks(f.nextIndex, f.textIndex, f.openToolBlocks, out, texts, calls, args)

LEMMA OpensText ==
    ASSUME NEW f, NEW out, NEW texts, NEW calls, NEW args, Told(texts, calls, args),
           ShownAnthropic(f, out, texts, calls, args),
           NEW opened, opened = OpenTextBlock(f)
    PROVE  /\ ShownAnthropic(opened.f, out \o opened.out, texts, calls, args)
           /\ opened.f.textIndex # -1 /\ IsList(opened.out) /\ IsList(out)
<1>0. IsList(out)
  BY DEF ShownAnthropic, Blocks, Tree
<1>1. CASE f.textIndex # -1
  <2>1. opened.f = f /\ opened.out = <<>>
    BY <1>1 DEF OpenTextBlock
  <2> QED BY <1>0, <1>1, <2>1, NothingFollows, NoneIsList
<1>2. CASE f.textIndex = -1
  <2> DEFINE x == [type |-> "block_start", index |-> f.nextIndex, tool |-> FALSE]
  <2>1. /\ opened.f = [f EXCEPT !.textIndex = f.nextIndex, !.nextIndex = @ + 1]
        /\ opened.out = <<x>>
    BY <1>2 DEF OpenTextBlock
  <2>2. /\ DOMAIN opened.f = FramerFields /\ opened.f.textIndex = f.nextIndex
        /\ opened.f.nextIndex = f.nextIndex + 1 /\ opened.f.openToolBlocks = f.openToolBlocks
    BY <2>1 DEF ShownAnthropic, FramerFields
  <2>3. PICK y : y = x
    OBVIOUS
  <2>4. StartFrame(y, f.nextIndex, FALSE)
    BY <2>3 DEF StartFrame, BeginsBlock
  <2>5. PICK r : r = out \o opened.out
    OBVIOUS
  <2>6. OneMore(r, out, y) /\ IsList(opened.out)
    <3>1. opened.out = <<y>> /\ r = out \o <<y>>
      BY <2>1, <2>3, <2>5
    <3>2. IsList(opened.out)
      BY <3>1, OneIsList
    <3>3. OneMore(out \o <<y>>, out, y)
      BY ONLY <1>0, ListAppends
    <3> QED BY <3>1, <3>2, <3>3
  <2>7. Blocks(f.nextIndex, -1, f.openToolBlocks, out, texts, calls, args)
    BY <1>2 DEF ShownAnthropic
  <2>8. Blocks(f.nextIndex + 1, f.nextIndex, f.openToolBlocks, r, texts, calls, args)
    BY <2>4, <2>6, <2>7, TextBlockBegins
  <2>9. f.nextIndex \in Nat
    BY <2>7 DEF Blocks, Tree
  <2> QED BY <1>0, <2>2, <2>5, <2>6, <2>8, <2>9 DEF ShownAnthropic
<1> QED BY <1>1, <1>2

LEMMA WritesText ==
    ASSUME NEW f, NEW out, NEW texts, NEW calls, NEW args, Told(texts, calls, args),
           ShownAnthropic(f, out, texts, calls, args), NEW m,
           NEW w, w = WriteText(f, m)
    PROVE  ShownAnthropic(w.f, out \o w.out, texts \cup {m}, calls, args)
<1>1. PICK opened : opened = OpenTextBlock(f)
  OBVIOUS
<1>2. PICK x : x = [type |-> "block_delta", index |-> opened.f.textIndex, part |-> m]
  OBVIOUS
<1>3. w.f = opened.f /\ w.out = opened.out \o <<x>>
  BY <1>1, <1>2 DEF WriteText
<1>4. PICK s : s = out \o opened.out
  OBVIOUS
<1>5. /\ ShownAnthropic(opened.f, s, texts, calls, args)
      /\ opened.f.textIndex # -1 /\ IsList(opened.out) /\ IsList(out)
  BY <1>1, <1>4, OpensText
<1>6. Part(x, opened.f.textIndex, m)
  BY <1>2 DEF Part
<1>7. PICK r : r = s \o <<x>>
  OBVIOUS
<1>8. r = out \o w.out
  <2>0. PICK u : u = opened.out
    OBVIOUS
  <2>1. IsList(out) /\ IsList(u)
    BY <1>5, <2>0
  <2>2. PICK one : one = <<x>>
    OBVIOUS
  <2>3. IsList(one)
    BY <2>2, OneIsList
  <2>4. (out \o u) \o one = out \o (u \o one)
    BY <2>1, <2>3, ListsAssociate
  <2> QED BY <1>3, <1>4, <1>7, <2>0, <2>2, <2>4
<1>9. OneMore(r, s, x)
  BY <1>5, <1>7, ListAppends DEF ShownAnthropic, Blocks, Tree
<1>10. Blocks(opened.f.nextIndex, opened.f.textIndex, opened.f.openToolBlocks, r,
              texts \cup {m}, calls, args)
  BY <1>5, <1>6, <1>9, TextIsWritten DEF ShownAnthropic
<1> QED BY <1>3, <1>5, <1>8, <1>10 DEF ShownAnthropic

LEMMA ToolBlockIs ==
    ASSUME NEW f, NEW calls \in Nat, IsList(f.openToolBlocks), Len(f.openToolBlocks) = calls,
           \A i \in 1..calls : f.openToolBlocks[i].call = i - 1, NEW c \in Nat
    PROVE  ToolBlock(f, c) = IF c < calls THEN c + 1 ELSE 0
<1> DEFINE I == {i \in 1..Len(f.openToolBlocks) : f.openToolBlocks[i].call = c}
<1>1. ToolBlock(f, c) = IF I # {} THEN Min(I) ELSE 0
  BY DEF ToolBlock, SelectInSeq
<1>2. I = IF c < calls THEN {c + 1} ELSE {}
  OBVIOUS
<1>3. c < calls => Min(I) = c + 1
  <2> SUFFICES ASSUME c < calls PROVE Min({c + 1}) = c + 1
    BY <1>2
  <2>1. Min({c + 1}) \in {c + 1}
    BY DEF Min
  <2> QED BY <2>1
<1> HIDE DEF I
<1> QED BY <1>1, <1>2, <1>3

\* The next call opens a block, a call that is open does not.
LEMMA OpensTool ==
    ASSUME NEW f, NEW out, NEW texts, NEW calls, NEW args, Told(texts, calls, args),
           ShownAnthropic(f, out, texts, calls, args), NEW c \in 0..calls,
           NEW opened, opened = OpenToolBlock(f, c),
           NEW more, more = IF c = calls THEN calls + 1 ELSE calls
    PROVE  /\ ShownAnthropic(opened.f, out \o opened.out, texts, more, args)
           /\ ToolBlock(opened.f, c) = c + 1 /\ IsList(opened.out) /\ IsList(out)
<1>0. /\ IsList(out) /\ calls \in Nat /\ IsList(f.openToolBlocks) /\ Len(f.openToolBlocks) = calls
      /\ \A i \in 1..calls : f.openToolBlocks[i].call = i - 1
  BY DEF ShownAnthropic, Blocks, Tree, Told
<1>1. ToolBlock(f, c) = IF c < calls THEN c + 1 ELSE 0
  <2>1. c \in Nat
    BY <1>0
  <2> QED BY ONLY <1>0, <2>1, ToolBlockIs
<1>2. CASE c < calls
  <2>1. opened.f = f /\ opened.out = <<>>
    BY <1>0, <1>1, <1>2 DEF OpenToolBlock
  <2>2. more = calls
    BY <1>0, <1>2
  <2> QED BY <1>0, <1>1, <1>2, <2>1, <2>2, NothingFollows, NoneIsList
<1>3. CASE c = calls
  <2> DEFINE x == [type |-> "block_start", index |-> f.nextIndex, tool |-> TRUE]
  <2>0. PICK b : b = [call |-> c, index |-> f.nextIndex]
    OBVIOUS
  <2>1. /\ opened.f = [f EXCEPT !.openToolBlocks = Append(@, [call |-> c, index |-> f.nextIndex]),
                             !.nextIndex = @ + 1]
        /\ opened.out = <<x>>
    <3>1. ToolBlock(f, c) = 0
      BY <1>0, <1>1, <1>3
    <3> QED BY <3>1 DEF OpenToolBlock
  <2>2. /\ DOMAIN opened.f = FramerFields /\ opened.f.textIndex = f.textIndex
        /\ opened.f.nextIndex = f.nextIndex + 1
        /\ opened.f.openToolBlocks = Append(f.openToolBlocks, b)
    <3>1. /\ DOMAIN opened.f = FramerFields /\ opened.f.textIndex = f.textIndex
          /\ opened.f.nextIndex = f.nextIndex + 1
      BY <2>1 DEF ShownAnthropic, FramerFields
    <3>2. opened.f.openToolBlocks = Append(f.openToolBlocks, [call |-> c, index |-> f.nextIndex])
      BY <2>1 DEF ShownAnthropic, FramerFields
    <3> QED BY <2>0, <3>1, <3>2
  <2>3. PICK y : y = x
    OBVIOUS
  <2>4. StartFrame(y, f.nextIndex, TRUE)
    BY <2>3 DEF StartFrame, BeginsBlock
  <2>5. PICK r : r = out \o opened.out
    OBVIOUS
  <2>6. OneMore(r, out, y) /\ IsList(opened.out)
    <3>1. opened.out = <<y>> /\ r = out \o <<y>>
      BY <2>1, <2>3, <2>5
    <3>2. IsList(opened.out)
      BY <3>1, OneIsList
    <3>3. OneMore(out \o <<y>>, out, y)
      BY ONLY <1>0, ListAppends
    <3> QED BY <3>1, <3>2, <3>3
  <2>7. Blocks(f.nextIndex, f.textIndex, f.openToolBlocks, out, texts, calls, args)
    BY DEF ShownAnthropic
  <2>8. PICK held : held = opened.f.openToolBlocks
    OBVIOUS
  <2>9. OneMore(held, f.openToolBlocks, b)
    <3>1. PICK S : f.openToolBlocks \in Seq(S)
      BY <1>0 DEF IsList
    <3>2. f.openToolBlocks \in Seq(S \cup {b})
      BY <3>1
    <3>3. held = Append(f.openToolBlocks, b)
      BY <2>2, <2>8
    <3>4. held \in Seq(S \cup {b})
      BY <3>2, <3>3
    <3> QED BY <3>2, <3>3, <3>4 DEF OneMore, IsList
  <2>10. b.call = calls /\ b.index = f.nextIndex
    BY <1>3, <2>0
  <2>11. Blocks(f.nextIndex + 1, f.textIndex, held, r, texts, calls + 1, args)
    BY <2>4, <2>6, <2>7, <2>9, <2>10, ToolBlockBegins
  <2>12. ToolBlock(opened.f, c) = c + 1
    <3>1. /\ IsList(opened.f.openToolBlocks) /\ Len(opened.f.openToolBlocks) = calls + 1
          /\ \A i \in 1..(calls + 1) : opened.f.openToolBlocks[i].call = i - 1
      BY <2>8, <2>11 DEF Blocks
    <3>2. calls + 1 \in Nat /\ c \in Nat
      BY <1>0
    <3>3. ToolBlock(opened.f, c) = IF c < calls + 1 THEN c + 1 ELSE 0
      BY ONLY <3>1, <3>2, ToolBlockIs
    <3> QED BY <1>0, <1>3, <3>3
  <2> QED BY <1>0, <1>3, <2>2, <2>5, <2>6, <2>8, <2>11, <2>12 DEF ShownAnthropic
<1> QED BY <1>0, <1>2, <1>3

LEMMA WritesCall ==
    ASSUME NEW f, NEW out, NEW texts, NEW calls, NEW args, Told(texts, calls, args),
           ShownAnthropic(f, out, texts, calls, args), NEW toolcall, CallIs(toolcall, calls),
           NEW w, w = WriteCall(f, toolcall),
           NEW n, n = IF toolcall.opens THEN calls + 1 ELSE calls,
           NEW more, more = [c \in Nat |-> IF c = toolcall.index /\ toolcall.args # 0
                                           THEN args[c] \cup {toolcall.args} ELSE args[c]]
    PROVE  ShownAnthropic(w.f, out \o w.out, texts, n, more)
<1>0. /\ calls \in Nat /\ toolcall.index \in 0..calls /\ n \in Nat /\ toolcall.index < n
      /\ n = IF toolcall.index = calls THEN calls + 1 ELSE calls
  BY DEF Told, CallIs
<1>1. PICK opened : opened = OpenToolBlock(f, toolcall.index)
  OBVIOUS
<1>2. PICK c : c = toolcall.index
  OBVIOUS
<1>3. PICK s : s = out \o opened.out
  OBVIOUS
<1>4. /\ ShownAnthropic(opened.f, s, texts, n, args)
      /\ ToolBlock(opened.f, c) = c + 1 /\ IsList(opened.out) /\ IsList(out)
  <2>1. c \in 0..calls /\ opened = OpenToolBlock(f, c) /\ n = IF c = calls THEN calls + 1 ELSE calls
    BY <1>0, <1>1, <1>2
  <2>2. Told(texts, calls, args) /\ ShownAnthropic(f, out, texts, calls, args)
    OBVIOUS
  <2>3. /\ ShownAnthropic(opened.f, out \o opened.out, texts, n, args)
        /\ ToolBlock(opened.f, c) = c + 1 /\ IsList(opened.out) /\ IsList(out)
    BY ONLY <2>1, <2>2, OpensTool
  <2> QED BY <1>3, <2>3
<1>5. PICK block : block = opened.f.openToolBlocks[c + 1]
  OBVIOUS
<1>6. PICK x : x = [type |-> "block_delta", index |-> block.index, part |-> toolcall.args]
  OBVIOUS
<1>7. /\ w.f = opened.f
      /\ w.out = opened.out \o (IF toolcall.args = 0 THEN <<>> ELSE <<x>>)
  BY <1>1, <1>2, <1>4, <1>5, <1>6 DEF WriteCall
<1>8. CASE toolcall.args = 0
  <2>1. more = args
    <3>1. more = [d \in Nat |-> args[d]]
      BY <1>8
    <3> QED BY <3>1 DEF Told
  <2>2. w.out = opened.out
    <3>1. PICK u : u = opened.out
      OBVIOUS
    <3>2. IsList(u)
      BY <1>4, <3>1
    <3>3. u \o <<>> = u
      BY ONLY <3>2, NothingFollows
    <3> QED BY <1>7, <1>8, <3>1, <3>3
  <2> QED BY <1>3, <1>4, <1>7, <2>1, <2>2
<1>9. CASE toolcall.args # 0
  <2>0. Told(texts, n, args)
    BY <1>0 DEF Told
  <2>1. block.index = ToolAt(opened.f.textIndex, c)
    <3>1. c + 1 \in 1..n /\ (c + 1) - 1 = c
      BY <1>0, <1>2
    <3>2. \A i \in 1..n : opened.f.openToolBlocks[i].index = ToolAt(opened.f.textIndex, i - 1)
      BY <1>4 DEF ShownAnthropic, Blocks
    <3> QED BY <1>5, <3>1, <3>2
  <2>2. Part(x, ToolAt(opened.f.textIndex, c), toolcall.args)
    BY <1>6, <2>1 DEF Part
  <2>3. PICK r : r = s \o <<x>>
    OBVIOUS
  <2>4. OneMore(r, s, x)
    <3>1. IsList(s)
      BY <1>4 DEF ShownAnthropic, Blocks, Tree
    <3> QED BY ONLY <2>3, <3>1, ListAppends
  <2>5. out \o w.out = r
    <3>0. PICK u : u = opened.out
      OBVIOUS
    <3>1. IsList(out) /\ IsList(u)
      BY <1>4, <3>0
    <3>2. PICK one : one = <<x>>
      OBVIOUS
    <3>3. IsList(one)
      BY <3>2, OneIsList
    <3>4. (out \o u) \o one = out \o (u \o one)
      BY <3>1, <3>3, ListsAssociate
    <3> QED BY <1>3, <1>7, <1>9, <2>3, <3>0, <3>2, <3>4
  <2>6. \A d \in Nat : more[d] = IF d = c THEN args[d] \cup {toolcall.args} ELSE args[d]
    BY <1>2, <1>9
  <2>7. c \in Nat /\ c < n
    BY <1>0, <1>2
  <2>8. Blocks(opened.f.nextIndex, opened.f.textIndex, opened.f.openToolBlocks, s, texts, n, args)
    BY <1>4 DEF ShownAnthropic
  <2>9. Blocks(opened.f.nextIndex, opened.f.textIndex, opened.f.openToolBlocks, r, texts, n, more)
    BY ONLY <2>0, <2>2, <2>4, <2>6, <2>7, <2>8, FragmentIsWritten
  <2> QED BY <1>4, <1>7, <2>5, <2>9 DEF ShownAnthropic
<1> QED BY <1>8, <1>9

LEMMA AnthropicWrites ==
    ASSUME NEW f, NEW out, NEW texts, NEW calls, NEW args, Told(texts, calls, args),
           ShownAnthropic(f, out, texts, calls, args), NEW chunk, Proper(chunk, calls),
           NEW one, one = FrameAnthropic(f, chunk)
    PROVE  ShownAnthropic(one.f, out \o one.out, TextsTold(texts, chunk), Opened(calls, chunk),
                          Args(args, chunk))
<1> DEFINE w == IF chunk.text # 0 THEN WriteText(f, chunk.text)
                ELSE IF chunk.calls # <<>> THEN WriteCall(f, chunk.calls[1])
                ELSE [f |-> f, out |-> <<>>]
<1>1. ShownAnthropic(w.f, out \o w.out, TextsTold(texts, chunk), Opened(calls, chunk), Args(args, chunk))
  <2>1. CASE chunk.calls = <<>>
    <3>1. Opened(calls, chunk) = calls /\ Args(args, chunk) = args
      <4>1. Args(args, chunk) = [c \in Nat |-> args[c]]
        BY <2>1 DEF Args
      <4> QED BY <2>1, <4>1 DEF Opened, Told
    <3>2. CASE chunk.text # 0
      <4>1. PICK v : v = WriteText(f, chunk.text)
        OBVIOUS
      <4>2. ShownAnthropic(v.f, out \o v.out, texts \cup {chunk.text}, calls, args)
        BY <4>1, WritesText
      <4>3. w = v /\ TextsTold(texts, chunk) = texts \cup {chunk.text}
        BY <3>2, <4>1 DEF TextsTold
      <4> QED BY <3>1, <4>2, <4>3
    <3>3. CASE chunk.text = 0
      <4>1. w.f = f /\ w.out = <<>> /\ TextsTold(texts, chunk) = texts
        BY <2>1, <3>3 DEF TextsTold
      <4>2. out \o <<>> = out
        <5>1. IsList(out)
          BY DEF ShownAnthropic, Blocks, Tree
        <5> QED BY ONLY <5>1, NothingFollows
      <4> QED BY <3>1, <4>1, <4>2
    <3> QED BY <3>2, <3>3
  <2>2. CASE chunk.calls # <<>>
    <3>1. PICK toolcall : chunk.calls = <<toolcall>> /\ CallIs(toolcall, calls) /\ chunk.text = 0
      BY <2>2 DEF Proper
    <3>2. chunk.calls[1] = toolcall
      BY <3>1
    <3>3. PICK v : v = WriteCall(f, toolcall)
      OBVIOUS
    <3>4. w = v /\ TextsTold(texts, chunk) = texts
      BY <2>2, <3>1, <3>2, <3>3 DEF TextsTold
    <3>5. PICK n : n = IF toolcall.opens THEN calls + 1 ELSE calls
      OBVIOUS
    <3>6. PICK more : more = [c \in Nat |-> IF c = toolcall.index /\ toolcall.args # 0
                                            THEN args[c] \cup {toolcall.args} ELSE args[c]]
      OBVIOUS
    <3>7. n = Opened(calls, chunk)
      BY <2>2, <3>2, <3>5 DEF Opened
    <3>8. more = Args(args, chunk)
      BY <2>2, <3>2, <3>6 DEF Args
    <3>9. ShownAnthropic(v.f, out \o v.out, texts, n, more)
      BY <3>1, <3>3, <3>5, <3>6, WritesCall
    <3> QED BY <3>4, <3>7, <3>8, <3>9
  <2> QED BY <2>1, <2>2
<1>2. PICK s : one = [w EXCEPT !.f.stopReason = s]
  BY DEF FrameAnthropic
<1>3. DOMAIN w = {"f", "out"}
  BY DEF WriteText, WriteCall
<1> HIDE DEF w
<1>4. one.out = w.out /\ one.f = [w.f EXCEPT !.stopReason = s]
  BY <1>2, <1>3
<1>5. /\ DOMAIN one.f = FramerFields /\ one.f.nextIndex = w.f.nextIndex
      /\ one.f.textIndex = w.f.textIndex /\ one.f.openToolBlocks = w.f.openToolBlocks
  BY <1>1, <1>4 DEF ShownAnthropic, FramerFields
<1> QED BY <1>1, <1>4, <1>5 DEF ShownAnthropic

-----------------------------------------------------------------------------
(* The client has been shown what it was told, and nothing else.           *)

\* By the client's dialect.
ShownAll(f, out, texts, calls, args) ==
    /\ DOMAIN f = FramerFields /\ Told(texts, calls, args)
    /\ CASE client = "openai" -> ShownOpenai(out, texts, args)
         [] client = "gemini" -> ShownGemini(f, out, texts)
         [] client = "anthropic" -> ShownAnthropic(f, out, texts, calls, args)

LEMMA ChunkIsShown ==
    ASSUME client \in Dialects, NEW acc, NEW texts, NEW calls, NEW args,
           ShownAll(acc.f, acc.out, texts, calls, args), NEW chunk, Proper(chunk, calls),
           NEW w, w = WrittenOn(acc, chunk)
    PROVE  ShownAll(w.f, w.out, TextsTold(texts, chunk), Opened(calls, chunk), Args(args, chunk))
<1>1. PICK one : one = FrameChunk(acc.f, chunk)
  OBVIOUS
<1>2. w.f = one.f /\ w.out = acc.out \o one.out
  BY <1>1 DEF WrittenOn
<1>3. DOMAIN acc.f = FramerFields /\ Told(texts, calls, args)
  BY DEF ShownAll
<1>4. Told(TextsTold(texts, chunk), Opened(calls, chunk), Args(args, chunk))
  BY <1>3, ToldMore
<1>5. PICK f : f = acc.f
  OBVIOUS
<1>6. PICK out : out = acc.out
  OBVIOUS
<1>7. PICK r : r = out \o one.out
  OBVIOUS
<1>8. CASE client = "openai"
  <2>1. one.f = f /\ one.out = <<[type |-> "chunk", chunk |-> chunk]>>
    BY <1>1, <1>5, <1>8 DEF FrameChunk
  <2>2. ShownOpenai(out, texts, args)
    BY <1>6, <1>8 DEF ShownAll
  <2>3. r = out \o <<[type |-> "chunk", chunk |-> chunk]>>
    BY <1>7, <2>1
  <2>4. ShownOpenai(r, TextsTold(texts, chunk), Args(args, chunk))
    BY <1>3, <2>2, <2>3, OpenaiWrites
  <2> QED BY <1>2, <1>3, <1>4, <1>5, <1>6, <1>7, <1>8, <2>1, <2>4 DEF ShownAll
<1>9. CASE client = "gemini"
  <2>1. one = FrameGemini(f, chunk)
    BY <1>1, <1>5, <1>9 DEF FrameChunk
  <2>2. ShownGemini(f, out, texts)
    BY <1>5, <1>6, <1>9 DEF ShownAll
  <2>3. DOMAIN f = FramerFields
    BY <1>3, <1>5
  <2>4. ShownGemini(one.f, r, TextsTold(texts, chunk)) /\ DOMAIN one.f = FramerFields
    BY <1>7, <2>1, <2>2, <2>3, GeminiWrites
  <2> QED BY <1>2, <1>4, <1>6, <1>7, <1>9, <2>4 DEF ShownAll
<1>10. CASE client = "anthropic"
  <2>1. one = FrameAnthropic(f, chunk)
    BY <1>1, <1>5, <1>10 DEF FrameChunk
  <2>2. ShownAnthropic(f, out, texts, calls, args)
    BY <1>5, <1>6, <1>10 DEF ShownAll
  <2>3. ShownAnthropic(one.f, out \o one.out, TextsTold(texts, chunk), Opened(calls, chunk),
                       Args(args, chunk))
    BY <1>3, <2>1, <2>2, AnthropicWrites
  <2> QED BY <1>2, <1>4, <1>6, <1>10, <2>3 DEF ShownAll, ShownAnthropic
<1> QED BY <1>8, <1>9, <1>10 DEF Dialects

\* Nothing told.
NoArgs == [c \in Nat |-> {}]

LEMMA NothingIsShown ==
    ASSUME client \in Dialects PROVE ShownAll(NewFramer, StartFrames, {}, 0, NoArgs)
<1>1. DOMAIN NewFramer = FramerFields
  BY DEF NewFramer, FramerFields
<1>2. NoArgs = [c \in Nat |-> NoArgs[c]] /\ \A c \in Nat : NoArgs[c] = {}
  BY DEF NoArgs
<1>3. Told({}, 0, NoArgs)
  BY <1>2 DEF Told
<1>4. CASE client # "anthropic"
  <2>1. PICK out : out = StartFrames
    OBVIOUS
  <2>2. out = <<>> /\ IsList(out) /\ DOMAIN out = {}
    BY <1>4, <2>1, NoneIsList DEF StartFrames
  <2>3. ShownOpenai(out, {}, NoArgs)
    BY <1>2, <2>2 DEF ShownOpenai
  <2>4. ~NewFramer.sawFinish
    BY DEF NewFramer
  <2>5. ShownGemini(NewFramer, out, {})
    BY <2>2, <2>4 DEF ShownGemini
  <2> QED BY <1>1, <1>3, <1>4, <2>1, <2>3, <2>5 DEF ShownAll, Dialects
<1>5. CASE client = "anthropic"
  <2>1. PICK x : x = [type |-> "message_start"]
    OBVIOUS
  <2>2. PICK out : out = StartFrames
    OBVIOUS
  <2>3. out = <<x>>
    BY <1>5, <2>1, <2>2 DEF StartFrames
  <2>4. IsList(out) /\ Len(out) = 1 /\ DOMAIN out = {1} /\ out[1].type = "message_start"
    BY <2>1, <2>3, OneIsList
  <2>5. Tree(out, 0)
    BY <2>4 DEF Tree
  <2>6. /\ NewFramer.nextIndex = 0 /\ NewFramer.textIndex = -1 /\ NewFramer.openToolBlocks = <<>>
    BY DEF NewFramer
  <2>7. \A k, p : ~Within(out, k, p)
    BY <2>4 DEF Within, Part
  <2>8. Blocks(0, -1, <<>>, out, {}, 0, NoArgs)
    BY <1>2, <2>4, <2>5, <2>7, NoneIsList DEF Blocks
  <2> QED BY <1>1, <1>3, <1>5, <2>2, <2>6, <2>8 DEF ShownAll, ShownAnthropic
<1> QED BY <1>4, <1>5

-----------------------------------------------------------------------------
(* The chunks of an event.                                                 *)

LEMMA NoneWritten == ASSUME NEW base PROVE AllWritten(base, <<>>) = base
<1>1. Short(<<>>, 0)
  BY DEF Short
<1>2. PICK acc : Turns(acc, base, <<>>, 0)
  BY <1>1, WrittenInTurn
<1> QED BY <1>2 DEF Turns

LEMMA OneWritten == ASSUME NEW base, NEW x PROVE AllWritten(base, <<x>>) = WrittenOn(base, x)
<1>1. PICK s : s = <<x>>
  OBVIOUS
<1>2. Short(s, 1) /\ s[1] = x
  BY <1>1 DEF Short
<1>3. PICK acc : Turns(acc, base, s, 1)
  BY ONLY <1>2, WrittenInTurn
<1>4. acc[1] = WrittenOn(acc[0], s[1])
  <2>1. 1 \in 1..1 /\ 1 - 1 = 0
    OBVIOUS
  <2>2. acc[1] = WrittenOn(acc[1 - 1], s[1])
    BY <1>3, <2>1 DEF Turns
  <2> QED BY <2>1, <2>2
<1> QED BY <1>1, <1>2, <1>3, <1>4 DEF Turns

LEMMA WrittenApart ==
    ASSUME NEW base, NEW a, NEW b, IsList(a), IsList(b), Len(a) + Len(b) <= 4
    PROVE  AllWritten(base, a \o b) = AllWritten(AllWritten(base, a), b)
<1>0. Len(a) \in Nat /\ Len(b) \in Nat /\ DOMAIN a = 1..Len(a) /\ DOMAIN b = 1..Len(b)
  BY ListIs
<1>1. PICK n : n = Len(a)
  OBVIOUS
<1>2. PICK m : m = Len(b)
  OBVIOUS
<1>3. /\ n \in 0..4 /\ m \in 0..4 /\ n + m \in 0..4
      /\ DOMAIN a = 1..n /\ DOMAIN b = 1..m
  BY <1>0, <1>1, <1>2
<1>4. PICK r : r = a \o b
  OBVIOUS
<1>5. GoesOn(r, a, b)
  BY <1>4, ListGoesOn
<1>6. DOMAIN r = 1..(n + m) /\ (\A i \in 1..n : r[i] = a[i]) /\ \A i \in 1..m : r[n + i] = b[i]
  BY <1>1, <1>2, <1>5 DEF GoesOn
<1>7. PICK p : Turns(p, base, a, n)
  <2>1. Short(a, n)
    BY <1>3 DEF Short
  <2> QED BY ONLY <2>1, WrittenInTurn
<1>7a. PICK mid : mid = p[n]
  OBVIOUS
<1>8. PICK q : Turns(q, mid, b, m)
  <2>1. Short(b, m)
    BY <1>3 DEF Short
  <2> QED BY ONLY <2>1, WrittenInTurn
<1>8a. PICK k : k = n + m
  OBVIOUS
<1>9. PICK w : Turns(w, base, r, k)
  <2>1. Short(r, k)
    BY <1>3, <1>6, <1>8a DEF Short
  <2> QED BY ONLY <2>1, WrittenInTurn
<1>10. \A i \in 1..n : w[i - 1] = p[i - 1] => w[i] = p[i]
  <2> SUFFICES ASSUME NEW i \in 1..n, w[i - 1] = p[i - 1] PROVE w[i] = p[i]
    OBVIOUS
  <2>1. i \in 1..(n + m) /\ r[i] = a[i]
    BY <1>3, <1>6
  <2>2. w[i] = WrittenOn(w[i - 1], r[i]) /\ p[i] = WrittenOn(p[i - 1], a[i])
    BY <1>7, <1>8a, <1>9, <2>1 DEF Turns
  <2> QED BY <2>1, <2>2
<1>11. \A i \in 1..m : w[n + (i - 1)] = q[i - 1] => w[n + i] = q[i]
  <2> SUFFICES ASSUME NEW i \in 1..m, w[n + (i - 1)] = q[i - 1] PROVE w[n + i] = q[i]
    OBVIOUS
  <2>1. n + i \in 1..(n + m) /\ r[n + i] = b[i] /\ (n + i) - 1 = n + (i - 1)
    BY <1>3, <1>6
  <2>2. w[n + i] = WrittenOn(w[(n + i) - 1], r[n + i]) /\ q[i] = WrittenOn(q[i - 1], b[i])
    BY <1>8, <1>8a, <1>9, <2>1 DEF Turns
  <2> QED BY <2>1, <2>2
<1>12. w[n] = p[n]
  <2>0. w[0] = p[0]
    BY <1>7, <1>9 DEF Turns
  <2>1. n >= 1 => w[1] = p[1]
    BY <1>3, <1>10, <2>0
  <2>2. n >= 2 => w[2] = p[2]
    BY <1>3, <1>10, <2>1
  <2>3. n >= 3 => w[3] = p[3]
    BY <1>3, <1>10, <2>2
  <2>4. n >= 4 => w[4] = p[4]
    BY <1>3, <1>10, <2>3
  <2> QED BY <1>3, <2>0, <2>1, <2>2, <2>3, <2>4
<1>13. w[n + m] = q[m]
  <2>0. w[n + 0] = q[0]
    BY <1>3, <1>7a, <1>8, <1>12 DEF Turns
  <2>1. m >= 1 => w[n + 1] = q[1]
    BY <1>3, <1>11, <2>0
  <2>2. m >= 2 => w[n + 2] = q[2]
    BY <1>3, <1>11, <2>1
  <2>3. m >= 3 => w[n + 3] = q[3]
    BY <1>3, <1>11, <2>2
  <2>4. m >= 4 => w[n + 4] = q[4]
    BY <1>3, <1>11, <2>3
  <2> QED BY <1>3, <2>0, <2>1, <2>2, <2>3, <2>4
<1> QED BY <1>4, <1>7, <1>7a, <1>8, <1>8a, <1>9, <1>13 DEF Turns

-----------------------------------------------------------------------------
(* What a client is shown of an event.                                     *)

ShownBy(acc, texts, calls, args) == ShownAll(acc.f, acc.out, texts, calls, args)

\* A chunk that tells nothing.
PlainChunk(chunk) ==
    DOMAIN chunk = {"text", "think", "calls", "finish"} /\ chunk.text = 0 /\ chunk.calls = <<>>

LEMMA PlainIsShown ==
    ASSUME client \in Dialects, NEW acc, NEW texts, NEW calls, NEW args,
           ShownBy(acc, texts, calls, args), NEW chunk, PlainChunk(chunk)
    PROVE  ShownBy(AllWritten(acc, <<chunk>>), texts, calls, args)
<1>1. PICK w : w = WrittenOn(acc, chunk)
  OBVIOUS
<1>2. Proper(chunk, calls)
  BY DEF Proper, PlainChunk
<1>3. ShownAll(acc.f, acc.out, texts, calls, args)
  BY DEF ShownBy
<1>4. ShownAll(w.f, w.out, TextsTold(texts, chunk), Opened(calls, chunk), Args(args, chunk))
  BY <1>1, <1>2, <1>3, ChunkIsShown
<1>5. TextsTold(texts, chunk) = texts /\ Opened(calls, chunk) = calls
  BY DEF TextsTold, Opened, PlainChunk
<1>6. Args(args, chunk) = args
  <2>1. Args(args, chunk) = [c \in Nat |-> args[c]]
    BY DEF Args, PlainChunk
  <2>2. args = [c \in Nat |-> args[c]]
    BY <1>3 DEF ShownAll, Told
  <2> QED BY <2>1, <2>2
<1> QED BY <1>1, <1>4, <1>5, <1>6, OneWritten DEF ShownBy

LEMMA TextIsShown ==
    ASSUME client \in Dialects, NEW acc, NEW texts, NEW calls, NEW args,
           ShownBy(acc, texts, calls, args), NEW n, n # 0
    PROVE  ShownBy(AllWritten(acc, <<TextChunk(n)>>), texts \cup {n}, calls, args)
<1>0. PICK chunk : chunk = TextChunk(n)
  OBVIOUS
<1>0a. /\ DOMAIN chunk = {"text", "think", "calls", "finish"} /\ chunk.text = n
       /\ chunk.calls = <<>>
  BY <1>0 DEF TextChunk, Chunk
<1>1. PICK w : w = WrittenOn(acc, chunk)
  OBVIOUS
<1>2. Proper(chunk, calls)
  BY <1>0a DEF Proper
<1>3. ShownAll(acc.f, acc.out, texts, calls, args)
  BY DEF ShownBy
<1>4. ShownAll(w.f, w.out, TextsTold(texts, chunk), Opened(calls, chunk), Args(args, chunk))
  BY <1>1, <1>2, <1>3, ChunkIsShown
<1>5. TextsTold(texts, chunk) = texts \cup {n} /\ Opened(calls, chunk) = calls
  BY <1>0a DEF TextsTold, Opened
<1>6. Args(args, chunk) = args
  <2>1. Args(args, chunk) = [c \in Nat |-> args[c]]
    BY <1>0a DEF Args
  <2>2. args = [c \in Nat |-> args[c]]
    BY <1>3 DEF ShownAll, Told
  <2> QED BY <2>1, <2>2
<1> QED BY <1>0, <1>1, <1>4, <1>5, <1>6, OneWritten DEF ShownBy

\* Fragment n told to the i-th call.
Adding(args, i, n) == [c \in Nat |-> IF c = i /\ n # 0 THEN args[c] \cup {n} ELSE args[c]]

LEMMA CallIsShown ==
    ASSUME client \in Dialects, NEW acc, NEW texts, NEW calls, NEW args,
           ShownBy(acc, texts, calls, args), NEW i \in 0..calls, NEW opens \in BOOLEAN,
           opens <=> i = calls, NEW n
    PROVE  ShownBy(AllWritten(acc, <<CallChunk(i, opens, n)>>), texts,
                   IF opens THEN calls + 1 ELSE calls, Adding(args, i, n))
<1>0. PICK chunk : chunk = CallChunk(i, opens, n)
  OBVIOUS
<1>0a. PICK toolcall : toolcall = [index |-> i, opens |-> opens, args |-> n]
  OBVIOUS
<1>0b. /\ DOMAIN toolcall = {"index", "opens", "args"} /\ toolcall.index = i /\ toolcall.opens = opens
       /\ toolcall.args = n
  BY <1>0a
<1>0c. /\ DOMAIN chunk = {"text", "think", "calls", "finish"} /\ chunk.text = 0
       /\ chunk.calls = <<[index |-> i, opens |-> opens, args |-> n]>>
  BY <1>0 DEF CallChunk, Chunk
<1>0d. chunk.calls = <<toolcall>> /\ chunk.calls # <<>> /\ chunk.calls[1] = toolcall
  BY <1>0a, <1>0c
<1>1. PICK w : w = WrittenOn(acc, chunk)
  OBVIOUS
<1>2. Proper(chunk, calls)
  <2>1. CallIs(toolcall, calls)
    BY <1>0b DEF CallIs
  <2> QED BY <1>0c, <1>0d, <2>1 DEF Proper
<1>3. ShownAll(acc.f, acc.out, texts, calls, args)
  BY DEF ShownBy
<1>4. ShownAll(w.f, w.out, TextsTold(texts, chunk), Opened(calls, chunk), Args(args, chunk))
  BY <1>1, <1>2, <1>3, ChunkIsShown
<1>5. TextsTold(texts, chunk) = texts /\ Opened(calls, chunk) = IF opens THEN calls + 1 ELSE calls
  BY <1>0b, <1>0c, <1>0d DEF TextsTold, Opened
<1>6. Args(args, chunk) = Adding(args, i, n)
  BY <1>0b, <1>0d DEF Args, Adding
<1> QED BY <1>0, <1>1, <1>4, <1>5, <1>6, OneWritten DEF ShownBy

LEMMA AddingNothing ==
    ASSUME NEW texts, NEW calls, NEW args, Told(texts, calls, args), NEW i PROVE Adding(args, i, 0) = args
<1>1. Adding(args, i, 0) = [c \in Nat |-> args[c]]
  BY DEF Adding
<1> QED BY <1>1 DEF Told

\* What an event tells.
Speaks(e) == e.kind = "text" \/ (e.kind = "frame" /\ e.text)
TextsAfter(texts, e, n) == IF Speaks(e) THEN texts \cup {n} ELSE texts
CallsAfter(calls, e) == IF e.kind = "opens" THEN calls + 1 ELSE calls
ArgsAfter(args, e, n) == IF e.kind = "args" THEN Adding(args, e.call, n) ELSE args

\* A call opens after those that are open, and only an open one goes on.
InOrder(e, calls) ==
    /\ e.kind = "opens" => e.call = calls
    /\ e.kind = "args" => e.call \in 0..(calls - 1)

LEMMA OpenaiIsShown ==
    ASSUME client \in Dialects, NEW acc, NEW texts, NEW calls, NEW args,
           ShownBy(acc, texts, calls, args), NEW t, NEW e, InOrder(e, calls),
           e.kind \in {"done", "noise", "usage", "finish", "text", "opens", "args"},
           NEW n \in Nat, n # 0, NEW chunks, chunks = ReadOpenai(t, e, n).chunks
    PROVE  ShownBy(AllWritten(acc, chunks), TextsAfter(texts, e, n), CallsAfter(calls, e),
                   ArgsAfter(args, e, n))
<1>0. Told(texts, calls, args) /\ calls \in Nat
  BY DEF ShownBy, ShownAll, Told
<1>1. CASE e.kind \in {"done", "noise"} \/ (e.kind = "usage" /\ ~wanted)
  <2>1. chunks = <<>>
    BY <1>1 DEF ReadOpenai
  <2>2. AllWritten(acc, chunks) = acc
    BY <2>1, NoneWritten
  <2> QED BY <1>1, <2>2 DEF TextsAfter, CallsAfter, ArgsAfter, Speaks
<1>2. CASE e.kind = "finish" \/ (e.kind = "usage" /\ wanted)
  <2>1. PICK chunk : chunks = <<chunk>> /\ PlainChunk(chunk)
    <3>1. CASE e.kind = "finish"
      <4>1. PICK chunk : chunk = FinishChunk(Reason(e.tools))
        OBVIOUS
      <4>2. chunks = <<chunk>>
        BY <3>1, <4>1 DEF ReadOpenai
      <4>3. PlainChunk(chunk)
        BY <4>1 DEF FinishChunk, Chunk, PlainChunk
      <4> QED BY <4>2, <4>3
    <3>2. CASE e.kind = "usage" /\ wanted
      <4>1. PICK chunk : chunk = Chunk
        OBVIOUS
      <4>2. chunks = <<chunk>>
        BY <3>2, <4>1 DEF ReadOpenai
      <4>3. PlainChunk(chunk)
        BY <4>1 DEF Chunk, PlainChunk
      <4> QED BY <4>2, <4>3
    <3> QED BY <1>2, <3>1, <3>2
  <2>2. ShownBy(AllWritten(acc, chunks), texts, calls, args)
    BY <2>1, PlainIsShown
  <2> QED BY <1>2, <2>2 DEF TextsAfter, CallsAfter, ArgsAfter, Speaks
<1>3. CASE e.kind = "text"
  <2>1. chunks = <<TextChunk(n)>>
    BY <1>3 DEF ReadOpenai
  <2>2. ShownBy(AllWritten(acc, chunks), texts \cup {n}, calls, args)
    BY <2>1, TextIsShown
  <2> QED BY <1>3, <2>2 DEF TextsAfter, CallsAfter, ArgsAfter, Speaks
<1>4. CASE e.kind = "opens"
  <2>1. chunks = <<CallChunk(e.call, TRUE, 0)>>
    BY <1>4 DEF ReadOpenai
  <2>2. e.call \in 0..calls /\ e.call = calls
    BY <1>0, <1>4 DEF InOrder
  <2>3. ShownBy(AllWritten(acc, <<CallChunk(e.call, TRUE, 0)>>), texts,
                IF TRUE THEN calls + 1 ELSE calls, Adding(args, e.call, 0))
    BY <2>2, CallIsShown
  <2>4. Adding(args, e.call, 0) = args
    BY <1>0, AddingNothing
  <2> QED BY <1>4, <2>1, <2>3, <2>4 DEF TextsAfter, CallsAfter, ArgsAfter, Speaks
<1>5. CASE e.kind = "args"
  <2>1. chunks = <<CallChunk(e.call, FALSE, n)>>
    BY <1>5 DEF ReadOpenai
  <2>2. e.call \in 0..calls /\ e.call # calls
    BY <1>0, <1>5 DEF InOrder
  <2>3. ShownBy(AllWritten(acc, <<CallChunk(e.call, FALSE, n)>>), texts,
                IF FALSE THEN calls + 1 ELSE calls, Adding(args, e.call, n))
    BY <2>2, CallIsShown
  <2> QED BY <1>5, <2>1, <2>3 DEF TextsAfter, CallsAfter, ArgsAfter, Speaks
<1> QED BY <1>1, <1>2, <1>3, <1>4, <1>5

LEMMA AnthropicIsShown ==
    ASSUME client \in Dialects, NEW acc, NEW texts, NEW calls, NEW args,
           ShownBy(acc, texts, calls, args), NEW t, NEW e, InOrder(e, calls),
           e.kind \in {"start", "noise", "fault", "finish", "text", "think", "opens", "args"},
           e.kind = "opens" => t.tools = calls,
           e.kind = "args" => ToolIndexByBlock(t, e.block) = e.call,
           NEW n \in Nat, n # 0, NEW chunks, chunks = ReadAnthropic(t, e, n).chunks
    PROVE  ShownBy(AllWritten(acc, chunks), TextsAfter(texts, e, n), CallsAfter(calls, e),
                   ArgsAfter(args, e, n))
<1>0. Told(texts, calls, args) /\ calls \in Nat
  BY DEF ShownBy, ShownAll, Told
<1>1. CASE e.kind = "noise"
  <2>1. chunks = <<>>
    BY <1>1 DEF ReadAnthropic
  <2>2. AllWritten(acc, chunks) = acc
    BY <2>1, NoneWritten
  <2> QED BY <1>1, <2>2 DEF TextsAfter, CallsAfter, ArgsAfter, Speaks
<1>2. CASE e.kind \in {"start", "think", "finish", "fault"}
  <2>1. PICK chunk : chunks = <<chunk>> /\ PlainChunk(chunk)
    <3>1. PICK chunk : chunk = CASE e.kind = "start" -> Chunk
                                 [] e.kind = "think" -> [Chunk EXCEPT !.think = TRUE]
                                 [] e.kind = "finish" -> FinishChunk(Reason(e.tools))
                                 [] e.kind = "fault" -> FinishChunk("error")
      OBVIOUS
    <3>2. PlainChunk(chunk)
      BY <1>2, <3>1 DEF FinishChunk, Chunk, PlainChunk
    <3>3. chunks = <<chunk>>
      BY <1>2, <3>1 DEF ReadAnthropic
    <3> QED BY <3>2, <3>3
  <2>2. ShownBy(AllWritten(acc, chunks), texts, calls, args)
    BY <2>1, PlainIsShown
  <2> QED BY <1>2, <2>2 DEF TextsAfter, CallsAfter, ArgsAfter, Speaks
<1>3. CASE e.kind = "text"
  <2>1. chunks = <<TextChunk(n)>>
    BY <1>3 DEF ReadAnthropic
  <2>2. ShownBy(AllWritten(acc, chunks), texts \cup {n}, calls, args)
    BY <2>1, TextIsShown
  <2> QED BY <1>3, <2>2 DEF TextsAfter, CallsAfter, ArgsAfter, Speaks
<1>4. CASE e.kind = "opens"
  <2>1. chunks = <<CallChunk(e.call, TRUE, 0)>>
    <3>1. e.call = t.tools
      BY <1>4 DEF InOrder
    <3> QED BY <1>4, <3>1 DEF ReadAnthropic
  <2>2. e.call \in 0..calls /\ e.call = calls
    BY <1>0, <1>4 DEF InOrder
  <2>3. ShownBy(AllWritten(acc, <<CallChunk(e.call, TRUE, 0)>>), texts,
                IF TRUE THEN calls + 1 ELSE calls, Adding(args, e.call, 0))
    BY <2>2, CallIsShown
  <2>4. Adding(args, e.call, 0) = args
    BY <1>0, AddingNothing
  <2> QED BY <1>4, <2>1, <2>3, <2>4 DEF TextsAfter, CallsAfter, ArgsAfter, Speaks
<1>5. CASE e.kind = "args"
  <2>1. chunks = <<CallChunk(e.call, FALSE, n)>>
    BY <1>5 DEF ReadAnthropic
  <2>2. e.call \in 0..calls /\ e.call # calls
    BY <1>0, <1>5 DEF InOrder
  <2>3. ShownBy(AllWritten(acc, <<CallChunk(e.call, FALSE, n)>>), texts,
                IF FALSE THEN calls + 1 ELSE calls, Adding(args, e.call, n))
    BY <2>2, CallIsShown
  <2> QED BY <1>5, <2>1, <2>3 DEF TextsAfter, CallsAfter, ArgsAfter, Speaks
<1> QED BY <1>1, <1>2, <1>3, <1>4, <1>5

\* At most one chunk.
Few(chunks) == chunks = <<>> \/ \E x : chunks = <<x>>

LEMMA FewAreList == ASSUME NEW a, Few(a) PROVE IsList(a) /\ Len(a) \in 0..1
<1>1. CASE a = <<>>
  BY <1>1, NoneIsList
<1>2. CASE a # <<>>
  <2>1. PICK x : a = <<x>>
    BY <1>2 DEF Few
  <2> QED BY <2>1, OneIsList
<1> QED BY <1>1, <1>2

LEMMA FourWritten ==
    ASSUME NEW base, NEW a, NEW b, NEW c, NEW d, Few(a), Few(b), Few(c), Few(d)
    PROVE  AllWritten(base, ((a \o b) \o c) \o d) =
             AllWritten(AllWritten(AllWritten(AllWritten(base, a), b), c), d)
<1>1. /\ IsList(a) /\ IsList(b) /\ IsList(c) /\ IsList(d)
      /\ Len(a) \in 0..1 /\ Len(b) \in 0..1 /\ Len(c) \in 0..1 /\ Len(d) \in 0..1
  BY FewAreList
<1>2. PICK p : p = a \o b
  OBVIOUS
<1>3. PICK q : q = p \o c
  OBVIOUS
<1>4. IsList(p) /\ Len(p) = Len(a) + Len(b)
  BY <1>1, <1>2, ListGoesOn DEF GoesOn
<1>5. IsList(q) /\ Len(q) = Len(p) + Len(c)
  BY <1>1, <1>3, <1>4, ListGoesOn DEF GoesOn
<1>6. Len(a) + Len(b) <= 4 /\ Len(p) + Len(c) <= 4 /\ Len(q) + Len(d) <= 4
  <2>1. PICK i, j, k, l, m, n :
          i = Len(a) /\ j = Len(b) /\ k = Len(c) /\ l = Len(d) /\ m = Len(p) /\ n = Len(q)
    OBVIOUS
  <2>2. i \in 0..1 /\ j \in 0..1 /\ k \in 0..1 /\ l \in 0..1 /\ m = i + j /\ n = m + k
    BY <1>1, <1>4, <1>5, <2>1
  <2>3. i + j <= 4 /\ m + k <= 4 /\ n + l <= 4
    BY ONLY <2>2
  <2> QED BY <2>1, <2>3
<1>7. AllWritten(base, a \o b) = AllWritten(AllWritten(base, a), b)
  <2>1. IsList(a) /\ IsList(b) /\ Len(a) + Len(b) <= 4
    BY <1>1, <1>6
  <2> QED BY ONLY <2>1, WrittenApart
<1>8. AllWritten(base, p \o c) = AllWritten(AllWritten(base, p), c)
  <2>1. IsList(p) /\ IsList(c) /\ Len(p) + Len(c) <= 4
    BY <1>1, <1>4, <1>6
  <2> QED BY ONLY <2>1, WrittenApart
<1>9. AllWritten(base, q \o d) = AllWritten(AllWritten(base, q), d)
  <2>1. IsList(q) /\ IsList(d) /\ Len(q) + Len(d) <= 4
    BY <1>1, <1>5, <1>6
  <2> QED BY ONLY <2>1, WrittenApart
<1> QED BY <1>2, <1>3, <1>7, <1>8, <1>9

LEMMA GeminiIsShown ==
    ASSUME client \in Dialects, NEW acc, NEW texts, NEW calls, NEW args,
           ShownBy(acc, texts, calls, args), NEW t, NEW e, t.tools = calls, e.kind = "frame",
           e.text \in BOOLEAN, e.call \in BOOLEAN, e.finish \in BOOLEAN,
           NEW n \in Nat, n # 0, NEW chunks, chunks = ReadGemini(t, e, n).chunks
    PROVE  \E more : ShownBy(AllWritten(acc, chunks), TextsAfter(texts, e, n),
                             IF e.call THEN calls + 1 ELSE calls, more)
<1>0. Told(texts, calls, args) /\ calls \in Nat
  BY DEF ShownBy, ShownAll, Told
<1>1. PICK a : a = IF t.sentRole THEN <<>> ELSE <<Chunk>>
  OBVIOUS
<1>2. PICK b : b = IF e.text THEN <<TextChunk(n)>> ELSE <<>>
  OBVIOUS
<1>3. PICK c : c = IF e.call THEN <<CallChunk(t.tools, TRUE, n)>> ELSE <<>>
  OBVIOUS
<1>4. PICK d : d = IF e.finish THEN <<FinishChunk(Reason(e.call))>> ELSE <<>>
  OBVIOUS
<1>5. Few(a) /\ Few(b) /\ Few(c) /\ Few(d)
  BY <1>1, <1>2, <1>3, <1>4 DEF Few
<1>6. chunks = ((a \o b) \o c) \o d
  BY <1>1, <1>2, <1>3, <1>4 DEF ReadGemini
<1>7. PICK p : p = AllWritten(acc, a)
  OBVIOUS
<1>8. PICK q : q = AllWritten(p, b)
  OBVIOUS
<1>9. PICK r : r = AllWritten(q, c)
  OBVIOUS
<1>10. AllWritten(acc, chunks) = AllWritten(r, d)
  BY <1>5, <1>6, <1>7, <1>8, <1>9, FourWritten
<1>11. ShownBy(p, texts, calls, args)
  <2>1. CASE a = <<>>
    BY <1>7, <2>1, NoneWritten
  <2>2. CASE a # <<>>
    <3>1. PICK chunk : chunk = Chunk
      OBVIOUS
    <3>2. a = <<chunk>>
      BY <1>1, <2>2, <3>1
    <3>3. PlainChunk(chunk)
      BY <3>1 DEF PlainChunk, Chunk
    <3> QED BY <1>7, <3>2, <3>3, PlainIsShown
  <2> QED BY <2>1, <2>2
<1>12. ShownBy(q, TextsAfter(texts, e, n), calls, args)
  <2>1. CASE e.text
    <3>1. b = <<TextChunk(n)>> /\ TextsAfter(texts, e, n) = texts \cup {n}
      BY <1>2, <2>1 DEF TextsAfter, Speaks
    <3> QED BY <1>8, <1>11, <3>1, TextIsShown
  <2>2. CASE ~e.text
    <3>1. b = <<>> /\ TextsAfter(texts, e, n) = texts
      BY <1>2, <2>2 DEF TextsAfter, Speaks
    <3> QED BY <1>8, <1>11, <3>1, NoneWritten
  <2> QED BY <2>1, <2>2
<1>13. PICK more : ShownBy(r, TextsAfter(texts, e, n), IF e.call THEN calls + 1 ELSE calls, more)
  <2>1. CASE e.call
    <3>1. c = <<CallChunk(calls, TRUE, n)>>
      BY <1>3, <2>1
    <3>2. calls \in 0..calls
      BY <1>0
    <3>3. ShownBy(AllWritten(q, <<CallChunk(calls, TRUE, n)>>), TextsAfter(texts, e, n),
                  IF TRUE THEN calls + 1 ELSE calls, Adding(args, calls, n))
      BY <1>12, <3>2, CallIsShown
    <3> QED BY <1>9, <2>1, <3>1, <3>3
  <2>2. CASE ~e.call
    <3>1. c = <<>>
      BY <1>3, <2>2
    <3> QED BY <1>9, <1>12, <2>2, <3>1, NoneWritten
  <2> QED BY <2>1, <2>2
<1>14. ShownBy(AllWritten(r, d), TextsAfter(texts, e, n), IF e.call THEN calls + 1 ELSE calls, more)
  <2>1. CASE d = <<>>
    BY <1>13, <2>1, NoneWritten
  <2>2. CASE d # <<>>
    <3>1. PICK chunk : chunk = FinishChunk(Reason(e.call))
      OBVIOUS
    <3>2. d = <<chunk>>
      BY <1>4, <2>2, <3>1
    <3>3. PlainChunk(chunk)
      BY <3>1 DEF PlainChunk, FinishChunk, Chunk
    <3>4. PICK k : k = IF e.call THEN calls + 1 ELSE calls
      OBVIOUS
    <3>5. ShownBy(r, TextsAfter(texts, e, n), k, more)
      BY <1>13, <3>4
    <3> QED BY <3>2, <3>3, <3>4, <3>5, PlainIsShown
  <2> QED BY <2>1, <2>2
<1> QED BY <1>10, <1>14

\* The pull loop writes the chunks of one event, and closes when it was the last.
Pulls(e) ==
    LET read == Translate(translator, e, Len(seen) + 1)
        written == AllWritten([f |-> framer, out |-> frames], read.chunks)
    IN  /\ seen' = Append(seen, e)
        /\ translator' = read.t
        /\ \/ phase' = "ended" /\ frames' = written.out \o ClosingFrames(written.f)
           \/ phase' = phase /\ framer' = written.f /\ frames' = written.out

LEMMA PullPulls ==
    Pull => /\ phase = "open" /\ client' = client /\ wire' = wire /\ wanted' = wanted
            /\ \E e \in ProviderSends(seen) : Pulls(e)
<1>1. Pull <=>
        /\ phase = "open"
        /\ \E e \in ProviderSends(seen) :
              LET read == Translate(translator, e, Len(seen) + 1)
                  written == AllWritten([f |-> framer, out |-> frames], read.chunks)
              IN /\ seen' = Append(seen, e)
                 /\ translator' = read.t
                 /\ IF EndsStream(read.t, e)
                    THEN FinishStream("ended", read.t, written.f, written.out)
                    ELSE /\ framer' = written.f
                         /\ frames' = written.out
                         /\ UNCHANGED <<phase, bill>>
        /\ UNCHANGED <<client, wire, wanted>>
  BY Zenon DEF Pull, AllWritten, WrittenOn
<1> QED BY <1>1, Zenon DEF Pulls, FinishStream

-----------------------------------------------------------------------------
(* What the provider has sent, and how the translator keeps the calls.     *)

\* A text takes a block of the provider's too.
TextBlocks(events) == IF Has(events, "text") THEN 1 ELSE 0

\* The translator has every call's block in its place, and no block is two calls'.
Numbered(t, events, calls) ==
    /\ t.tools = calls /\ IsList(t.blocks) /\ Len(t.blocks) = calls
    /\ \A i \in 1..calls : t.blocks[i] \in Nat /\ t.blocks[i] < calls + TextBlocks(events)
    /\ \A i, j \in 1..calls : i < j => t.blocks[i] < t.blocks[j]
    /\ \A i \in OfKind(events, "opens") : t.blocks[events[i].call + 1] = events[i].block

\* The provider numbers its calls as it opens them, and the translator follows.
ReadInv(t, events) ==
    /\ IsList(events) /\ IsFiniteSet(OfKind(events, "opens")) /\ CallsOpened(events) \in Nat
    /\ wire # "gemini" =>
          \A i \in OfKind(events, "opens") : events[i].call \in 0..(CallsOpened(events) - 1)
    /\ wire = "anthropic" => Numbered(t, events, CallsOpened(events))
    /\ wire = "gemini" => t.tools \in Nat

LEMMA KindsGrow ==
    ASSUME NEW events, IsList(events), NEW e, NEW more, OneMore(more, events, e), NEW k
    PROVE  OfKind(more, k) = IF e.kind = k THEN OfKind(events, k) \cup {Len(events) + 1}
                             ELSE OfKind(events, k)
<1>1. Len(events) \in Nat /\ DOMAIN events = 1..Len(events)
  BY ListIs
<1> QED BY <1>1 DEF OfKind, OneMore

LEMMA CallsGrow ==
    ASSUME NEW events, IsList(events), IsFiniteSet(OfKind(events, "opens")),
           CallsOpened(events) \in Nat, NEW e, NEW more, OneMore(more, events, e)
    PROVE  /\ IsFiniteSet(OfKind(more, "opens")) /\ CallsOpened(more) \in Nat
           /\ CallsOpened(more) = CallsAfter(CallsOpened(events), e)
<1>1. PICK s : s = OfKind(events, "opens")
  OBVIOUS
<1>2. IsFiniteSet(s) /\ Len(events) + 1 \notin s
  BY <1>1, ListIs DEF OfKind
<1>3. CASE e.kind = "opens"
  <2>1. OfKind(more, "opens") = s \cup {Len(events) + 1}
    BY <1>1, <1>3, KindsGrow
  <2>2. PICK m : m = Len(events) + 1
    OBVIOUS
  <2>3. IsFiniteSet(s \cup {m}) /\ Cardinality(s \cup {m}) = Cardinality(s) + 1
    BY <1>2, <2>2, FS_AddElement
  <2>4. CallsOpened(more) = Cardinality(s \cup {m}) /\ CallsOpened(events) = Cardinality(s)
    BY <1>1, <2>1, <2>2 DEF CallsOpened
  <2>5. IsFiniteSet(OfKind(more, "opens"))
    BY <2>1, <2>2, <2>3
  <2>6. CallsAfter(CallsOpened(events), e) = CallsOpened(events) + 1
    BY <1>3 DEF CallsAfter
  <2> QED BY <2>3, <2>4, <2>5, <2>6
<1>4. CASE e.kind # "opens"
  <2>1. OfKind(more, "opens") = s
    BY <1>1, <1>4, KindsGrow
  <2> QED BY <1>1, <1>4, <2>1 DEF CallsOpened, CallsAfter
<1> QED BY <1>3, <1>4

LEMMA ToolEventsInOrder ==
    ASSUME NEW t, NEW events, ReadInv(t, events), wire # "gemini", NEW e \in ToolEvents(events)
    PROVE  /\ e.kind \in {"opens", "args"} /\ InOrder(e, CallsOpened(events))
           /\ e.kind = "opens" => e.block = CallsOpened(events) + TextBlocks(events)
           /\ e.kind = "args" => \E i \in OfKind(events, "opens") :
                                    e.call = events[i].call /\ e.block = events[i].block
<1>1. CASE e = [kind |-> "opens", call |-> CallsOpened(events),
               block |-> CallsOpened(events) + TextBlocks(events)]
  BY <1>1 DEF InOrder
<1>2. CASE \E i \in OfKind(events, "opens") :
             e = [kind |-> "args", call |-> events[i].call, block |-> events[i].block]
  <2>1. PICK i \in OfKind(events, "opens") :
             e = [kind |-> "args", call |-> events[i].call, block |-> events[i].block]
    BY <1>2
  <2>2. e.kind = "args" /\ e.call = events[i].call /\ e.block = events[i].block
    BY <2>1
  <2>3. e.call \in 0..(CallsOpened(events) - 1)
    BY <2>2 DEF ReadInv
  <2> QED BY <2>2, <2>3 DEF InOrder
<1>3. \/ e = [kind |-> "opens", call |-> CallsOpened(events),
              block |-> CallsOpened(events) + TextBlocks(events)]
      \/ \E i \in OfKind(events, "opens") :
             e = [kind |-> "args", call |-> events[i].call, block |-> events[i].block]
  BY DEF ToolEvents, TextBlocks
<1> QED BY <1>1, <1>2, <1>3

LEMMA IndexIsCall ==
    ASSUME NEW t, NEW events, ReadInv(t, events), wire = "anthropic", NEW i \in OfKind(events, "opens")
    PROVE  ToolIndexByBlock(t, events[i].block) = events[i].call
<1>1. PICK calls : calls = CallsOpened(events)
  OBVIOUS
<1>2. PICK c : c = events[i].call
  OBVIOUS
<1>3. /\ calls \in Nat /\ c \in 0..(calls - 1) /\ Numbered(t, events, calls)
  BY <1>1, <1>2 DEF ReadInv
<1>4. DOMAIN t.blocks = 1..calls /\ t.blocks[c + 1] = events[i].block
  BY <1>2, <1>3, ListIs DEF Numbered
<1>5. c + 1 \in 1..calls
  BY <1>3
<1>6. \A j \in 1..calls : t.blocks[j] = events[i].block => j = c + 1
  <2> SUFFICES ASSUME NEW j \in 1..calls, t.blocks[j] = events[i].block, j # c + 1 PROVE FALSE
    OBVIOUS
  <2>1. t.blocks[j] \in Nat /\ t.blocks[c + 1] \in Nat
    BY <1>3, <1>5 DEF Numbered
  <2>2. j < c + 1 \/ c + 1 < j
    BY <1>3
  <2>3. t.blocks[j] < t.blocks[c + 1] \/ t.blocks[c + 1] < t.blocks[j]
    BY <1>3, <1>5, <2>2 DEF Numbered
  <2> QED BY <1>4, <2>1, <2>3
<1>8. PICK j \in 1..calls : t.blocks[j] = events[i].block /\ ToolIndexByBlock(t, events[i].block) = j - 1
  <2>1. \E j \in DOMAIN t.blocks : t.blocks[j] = events[i].block
    BY <1>4, <1>5
  <2>2. PICK b : b = events[i].block
    OBVIOUS
  <2>3. PICK j : j = CHOOSE x \in DOMAIN t.blocks : t.blocks[x] = b
    OBVIOUS
  <2>4. j \in DOMAIN t.blocks /\ t.blocks[j] = b
    BY <2>1, <2>2, <2>3
  <2>5. ToolIndexByBlock(t, b) = j - 1
    BY <2>3 DEF ToolIndexByBlock
  <2> QED BY <1>4, <2>2, <2>4, <2>5
<1>9. j = c + 1
  BY <1>6, <1>8
<1> QED BY <1>2, <1>3, <1>8, <1>9

\* What the provider has sent.
TextsOf(events) == {i \in DOMAIN events : Speaks(events[i])}
FragmentsOf(events, c) == {i \in DOMAIN events : events[i].kind = "args" /\ events[i].call = c}

\* What was told is what the provider has sent.
Tells(t, events, texts, calls, args) ==
    /\ texts = TextsOf(events)
    /\ wire # "gemini" => calls = CallsOpened(events) /\ \A c \in Nat : args[c] = FragmentsOf(events, c)
    /\ wire = "gemini" => calls = t.tools

LEMMA TextsGrow ==
    ASSUME NEW events, NEW e, NEW more, OneMore(more, events, e)
    PROVE  TextsOf(more) = TextsAfter(TextsOf(events), e, Len(events) + 1)
<1>1. PICK m : m = Len(events) + 1
  OBVIOUS
<1>2. DOMAIN more = 1..m /\ DOMAIN events = 1..(m - 1) /\ m \in Nat /\ m >= 1 /\ more[m] = e
  BY <1>1 DEF OneMore
<1>3. \A i \in 1..(m - 1) : more[i] = events[i]
  BY <1>1 DEF OneMore
<1>4. \A i : i \in TextsOf(more) <=> i \in 1..m /\ Speaks(more[i])
  BY <1>2 DEF TextsOf
<1>5. \A i : i \in TextsOf(events) <=> i \in 1..(m - 1) /\ Speaks(events[i])
  BY <1>2 DEF TextsOf
<1>6. \A i : i \in TextsOf(more) <=> i \in TextsOf(events) \/ (i = m /\ Speaks(e))
  <2> TAKE i
  <2>1. CASE i = m
    BY <1>2, <1>4, <1>5, <2>1
  <2>2. CASE i # m
    BY <1>2, <1>3, <1>4, <1>5, <2>2
  <2> QED BY <2>1, <2>2
<1> HIDE DEF TextsOf, Speaks
<1> QED BY <1>1, <1>6 DEF TextsAfter

LEMMA FragmentsGrow ==
    ASSUME NEW events, NEW e, NEW more, OneMore(more, events, e), NEW c
    PROVE  FragmentsOf(more, c) = IF e.kind = "args" /\ e.call = c
                                  THEN FragmentsOf(events, c) \cup {Len(events) + 1}
                                  ELSE FragmentsOf(events, c)
<1>1. PICK m : m = Len(events) + 1
  OBVIOUS
<1>2. DOMAIN more = 1..m /\ DOMAIN events = 1..(m - 1) /\ m \in Nat /\ m >= 1 /\ more[m] = e
  BY <1>1 DEF OneMore
<1>3. \A i \in 1..(m - 1) : more[i] = events[i]
  BY <1>1 DEF OneMore
<1>4. \A i : i \in FragmentsOf(more, c) <=> i \in 1..m /\ more[i].kind = "args" /\ more[i].call = c
  BY <1>2 DEF FragmentsOf
<1>5. \A i : i \in FragmentsOf(events, c) <=>
             i \in 1..(m - 1) /\ events[i].kind = "args" /\ events[i].call = c
  BY <1>2 DEF FragmentsOf
<1>6. \A i : i \in FragmentsOf(more, c) <=>
             i \in FragmentsOf(events, c) \/ (i = m /\ e.kind = "args" /\ e.call = c)
  <2> TAKE i
  <2>1. CASE i = m
    BY <1>2, <1>4, <1>5, <2>1
  <2>2. CASE i # m
    BY <1>2, <1>3, <1>4, <1>5, <2>2
  <2> QED BY <2>1, <2>2
<1> HIDE DEF FragmentsOf
<1> QED BY <1>1, <1>6

LEMMA OpenaiOrder ==
    ASSUME NEW t, NEW events, ReadInv(t, events), wire = "openai", NEW e \in OpenaiSends(events)
    PROVE  InOrder(e, CallsOpened(events))
<1>1. CASE e \in ToolEvents(events)
  BY <1>1, ToolEventsInOrder
<1>2. CASE e \notin ToolEvents(events)
  <2>1. \/ \E k \in {"text", "noise", "done"} : e = [kind |-> k]
        \/ \E n \in Reports : e = [kind |-> "usage", report |-> n]
        \/ e = [kind |-> "finish", tools |-> CallsOpened(events) > 0]
    BY <1>2 DEF OpenaiSends
  <2>2. e.kind \in {"text", "noise", "done", "usage", "finish"}
    BY <2>1
  <2> QED BY <2>2 DEF InOrder
<1> QED BY <1>1, <1>2

LEMMA AnthropicOrder ==
    ASSUME NEW t, NEW events, ReadInv(t, events), wire = "anthropic", NEW e \in AnthropicSends(events)
    PROVE  /\ InOrder(e, CallsOpened(events))
           /\ e.kind = "opens" => e.block = CallsOpened(events) + TextBlocks(events)
           /\ e.kind = "args" => ToolIndexByBlock(t, e.block) = e.call
<1>1. CASE e \in ToolEvents(events)
  <2>1. /\ e.kind \in {"opens", "args"} /\ InOrder(e, CallsOpened(events))
        /\ e.kind = "opens" => e.block = CallsOpened(events) + TextBlocks(events)
        /\ e.kind = "args" => \E i \in OfKind(events, "opens") :
                                 e.call = events[i].call /\ e.block = events[i].block
    BY <1>1, ToolEventsInOrder
  <2> QED BY <2>1, IndexIsCall
<1>2. CASE e \notin ToolEvents(events)
  <2>1. \/ \E k \in {"text", "think", "noise", "fault"} : e = [kind |-> k]
        \/ \E n \in Reports : e = [kind |-> "start", report |-> n]
        \/ \E n \in Reports :
              e = [kind |-> "finish", report |-> n, tools |-> CallsOpened(events) > 0]
    BY <1>2 DEF AnthropicSends
  <2>2. e.kind \in {"text", "think", "noise", "fault", "start", "finish"}
    BY <2>1
  <2> QED BY <2>2 DEF InOrder
<1> QED BY <1>1, <1>2

LEMMA GeminiFrames ==
    ASSUME NEW events, NEW e \in GeminiSends(events)
    PROVE  \/ e.kind = "noise"
           \/ e.kind = "frame" /\ e.text \in BOOLEAN /\ e.finish \in BOOLEAN /\ e.call \in BOOLEAN
<1>1. CASE e = [kind |-> "noise"]
  BY <1>1
<1>2. CASE e # [kind |-> "noise"]
  <2> QED BY <1>2 DEF GeminiSends
<1> QED BY <1>1, <1>2

\* The numbers of the blocks are kept.
LEMMA StaysNumbered ==
    ASSUME wire = "anthropic", NEW t, IsTranslator(t), NEW events, IsList(events),
           NEW calls \in Nat, Numbered(t, events, calls), calls = CallsOpened(events),
           \A i \in OfKind(events, "opens") : events[i].call \in 0..(calls - 1),
           NEW e, InOrder(e, calls), e.kind = "opens" => e.block = calls + TextBlocks(events),
           e.kind \in {"start", "noise", "fault", "finish", "text", "think", "opens", "args"},
           NEW n, NEW u, u = ReadAnthropic(t, e, n).t, NEW more, OneMore(more, events, e)
    PROVE  Numbered(u, more, CallsAfter(calls, e))
<1>1. TextBlocks(events) \in {0, 1} /\ TextBlocks(more) \in {0, 1}
      /\ TextBlocks(events) <= TextBlocks(more)
  <2>1. Has(events, "text") => Has(more, "text")
    BY KindsGrow DEF Has
  <2> QED BY <2>1 DEF TextBlocks
<1>2. CASE e.kind # "opens"
  <2>1. u.tools = t.tools /\ u.blocks = t.blocks
    BY <1>2 DEF ReadAnthropic, IsTranslator
  <2>2. OfKind(more, "opens") = OfKind(events, "opens") /\ CallsAfter(calls, e) = calls
    BY <1>2, KindsGrow DEF CallsAfter
  <2>3. \A i \in OfKind(events, "opens") : more[i] = events[i]
    BY DEF OfKind, OneMore
  <2>4. \A i \in 1..calls : t.blocks[i] \in Nat /\ t.blocks[i] < calls + TextBlocks(more)
    BY <1>1 DEF Numbered
  <2> QED BY <2>1, <2>2, <2>3, <2>4 DEF Numbered
<1>3. CASE e.kind = "opens"
  <2>1. u.tools = t.tools + 1 /\ u.blocks = Append(t.blocks, e.block)
    BY <1>3 DEF ReadAnthropic, IsTranslator
  <2>2. PICK held : held = t.blocks
    OBVIOUS
  <2>3. PICK b : b = e.block
    OBVIOUS
  <2>4. PICK now : now = u.blocks
    OBVIOUS
  <2>5. /\ IsList(held) /\ Len(held) = calls /\ t.tools = calls
        /\ \A i \in 1..calls : held[i] \in Nat /\ held[i] < calls + TextBlocks(events)
        /\ \A i, j \in 1..calls : i < j => held[i] < held[j]
        /\ \A i \in OfKind(events, "opens") : held[events[i].call + 1] = events[i].block
    BY <2>2 DEF Numbered
  <2>6. b = calls + TextBlocks(events) /\ b \in Nat
    BY <1>1, <1>3, <2>3
  <2>7. OneMore(now, held, b)
    <3>1. PICK S : held \in Seq(S)
      BY <2>5 DEF IsList
    <3>2. held \in Seq(S \cup {b})
      BY <3>1
    <3>3. now = Append(held, b)
      BY <2>1, <2>2, <2>3, <2>4
    <3>4. now \in Seq(S \cup {b})
      BY <3>2, <3>3
    <3> QED BY <3>2, <3>3, <3>4 DEF OneMore, IsList
  <2>8. /\ IsList(now) /\ Len(now) = calls + 1 /\ now[calls + 1] = b
        /\ \A i \in 1..calls : now[i] = held[i]
    BY <2>5, <2>7 DEF OneMore
  <2>9. \A i \in 1..(calls + 1) : now[i] \in Nat /\ now[i] < (calls + 1) + TextBlocks(more)
    <3> SUFFICES ASSUME NEW i \in 1..(calls + 1)
                 PROVE  now[i] \in Nat /\ now[i] < (calls + 1) + TextBlocks(more)
      OBVIOUS
    <3>1. CASE i = calls + 1
      BY <1>1, <2>6, <2>8, <3>1
    <3>2. CASE i # calls + 1
      <4>1. i \in 1..calls
        BY <3>2
      <4>2. now[i] \in Nat /\ now[i] < calls + TextBlocks(events)
        BY <2>5, <2>8, <4>1
      <4> QED BY <1>1, <4>2
    <3> QED BY <3>1, <3>2
  <2>10. \A i, j \in 1..(calls + 1) : i < j => now[i] < now[j]
    <3> SUFFICES ASSUME NEW i \in 1..(calls + 1), NEW j \in 1..(calls + 1), i < j
                 PROVE  now[i] < now[j]
      OBVIOUS
    <3>1. i \in 1..calls
      OBVIOUS
    <3>2. CASE j = calls + 1
      BY <2>5, <2>6, <2>8, <3>1, <3>2
    <3>3. CASE j # calls + 1
      <4>1. j \in 1..calls
        BY <3>3
      <4> QED BY <2>5, <2>8, <3>1, <4>1
    <3> QED BY <3>2, <3>3
  <2>11. \A i \in OfKind(more, "opens") : now[more[i].call + 1] = more[i].block
    <3> SUFFICES ASSUME NEW i \in OfKind(more, "opens") PROVE now[more[i].call + 1] = more[i].block
      OBVIOUS
    <3>1. CASE i = Len(events) + 1
      <4>1. more[i] = e /\ e.call = calls
        BY <1>3, <3>1 DEF OneMore, InOrder
      <4> QED BY <2>3, <2>8, <4>1
    <3>2. CASE i # Len(events) + 1
      <4>1. i \in OfKind(events, "opens")
        BY <1>3, <3>2, KindsGrow
      <4>2. more[i] = events[i]
        BY <4>1 DEF OfKind, OneMore
      <4>3. PICK c : c = events[i].call
        OBVIOUS
      <4>4. c + 1 \in 1..calls
        BY <4>1, <4>3
      <4> QED BY <2>5, <2>8, <4>1, <4>2, <4>3, <4>4
    <3> QED BY <3>1, <3>2
  <2>12. CallsAfter(calls, e) = calls + 1 /\ u.tools = calls + 1
    BY <1>3, <2>1, <2>5 DEF CallsAfter
  <2> QED BY <2>4, <2>8, <2>9, <2>10, <2>11, <2>12 DEF Numbered
<1> QED BY <1>2, <1>3

\* Reading on, whatever the dialect.
LEMMA CallsStayOpen ==
    ASSUME NEW t, NEW events, ReadInv(t, events), wire # "gemini", NEW e,
           InOrder(e, CallsOpened(events)), NEW more, OneMore(more, events, e)
    PROVE  \A i \in OfKind(more, "opens") : more[i].call \in 0..(CallsOpened(more) - 1)
<1>1. PICK calls : calls = CallsOpened(events)
  OBVIOUS
<1>2. /\ calls \in Nat /\ IsList(events) /\ CallsOpened(more) = CallsAfter(calls, e)
      /\ \A i \in OfKind(events, "opens") : events[i].call \in 0..(calls - 1)
  BY <1>1, CallsGrow DEF ReadInv
<1> SUFFICES ASSUME NEW i \in OfKind(more, "opens") PROVE more[i].call \in 0..(CallsOpened(more) - 1)
  OBVIOUS
<1>3. CASE i \in OfKind(events, "opens")
  <2>1. more[i] = events[i]
    BY <1>3 DEF OfKind, OneMore
  <2>2. events[i].call \in 0..(calls - 1) /\ CallsAfter(calls, e) \in {calls, calls + 1}
    BY <1>2, <1>3 DEF CallsAfter
  <2> QED BY <1>2, <2>1, <2>2
<1>4. CASE i \notin OfKind(events, "opens")
  <2>1. e.kind = "opens" /\ i = Len(events) + 1
    BY <1>2, <1>4, KindsGrow
  <2>2. more[i] = e /\ e.call = calls
    BY <1>1, <2>1 DEF OneMore, InOrder
  <2>3. CallsAfter(calls, e) = calls + 1
    BY <2>1 DEF CallsAfter
  <2> QED BY <1>2, <2>2, <2>3
<1> QED BY <1>3, <1>4

\* What is told after an event, where calls are the provider's.
LEMMA TellsOn ==
    ASSUME wire # "gemini", NEW t, NEW events, NEW texts, NEW calls, NEW args,
           ReadInv(t, events), Told(texts, calls, args), Tells(t, events, texts, calls, args),
           NEW e, NEW more, OneMore(more, events, e), NEW n, n = Len(events) + 1, NEW u
    PROVE  Tells(u, more, TextsAfter(texts, e, n), CallsAfter(calls, e), ArgsAfter(args, e, n))
<1>1. texts = TextsOf(events) /\ calls = CallsOpened(events)
      /\ \A c \in Nat : args[c] = FragmentsOf(events, c)
  BY DEF Tells
<1>2. TextsAfter(texts, e, n) = TextsOf(more)
  BY <1>1, TextsGrow
<1>3. CallsAfter(calls, e) = CallsOpened(more)
  BY <1>1, CallsGrow DEF ReadInv
<1>4. ASSUME NEW c \in Nat PROVE ArgsAfter(args, e, n)[c] = FragmentsOf(more, c)
  <2>1. FragmentsOf(more, c) = IF e.kind = "args" /\ e.call = c
                               THEN args[c] \cup {n} ELSE args[c]
    BY <1>1, FragmentsGrow
  <2>2. n # 0
    BY DEF OneMore
  <2>3. CASE e.kind = "args"
    BY <2>1, <2>2, <2>3 DEF ArgsAfter, Adding
  <2>4. CASE e.kind # "args"
    BY <2>1, <2>4 DEF ArgsAfter
  <2> QED BY <2>3, <2>4
<1> QED BY <1>2, <1>3, <1>4 DEF Tells

LEMMA ReadTells ==
    ASSUME client \in Dialects, wire \in Dialects, NEW t, IsTranslator(t), NEW events,
           ReadInv(t, events), NEW acc, NEW texts, NEW calls, NEW args,
           ShownBy(acc, texts, calls, args), Tells(t, events, texts, calls, args),
           NEW e \in ProviderSends(events), NEW n, n = Len(events) + 1,
           NEW read, read = Translate(t, e, n), NEW more, OneMore(more, events, e)
    PROVE  /\ ReadInv(read.t, more)
           /\ \E x, k, a : /\ ShownBy(AllWritten(acc, read.chunks), x, k, a)
                           /\ Tells(read.t, more, x, k, a)
<1>0. n \in Nat /\ n # 0 /\ Told(texts, calls, args)
  BY DEF OneMore, ShownBy, ShownAll
<1>1. /\ IsList(more) /\ IsFiniteSet(OfKind(more, "opens")) /\ CallsOpened(more) \in Nat
      /\ CallsOpened(more) = CallsAfter(CallsOpened(events), e)
  BY CallsGrow DEF ReadInv, OneMore
<1>2. CASE wire = "openai"
  <2>1. e \in OpenaiSends(events) /\ read = ReadOpenai(t, e, n)
    BY <1>2 DEF ProviderSends, Translate
  <2>2. calls = CallsOpened(events)
    BY <1>2 DEF Tells
  <2>3. InOrder(e, calls)
    BY <1>2, <2>1, <2>2, OpenaiOrder
  <2>4. e.kind \in {"done", "noise", "usage", "finish", "text", "opens", "args"}
    BY <2>1, OpenaiProvides
  <2>5. PICK chunks : chunks = read.chunks
    OBVIOUS
  <2>6. ShownBy(AllWritten(acc, chunks), TextsAfter(texts, e, n), CallsAfter(calls, e),
                ArgsAfter(args, e, n))
    <3>1. chunks = ReadOpenai(t, e, n).chunks
      BY <2>1, <2>5
    <3> QED BY <1>0, <2>3, <2>4, <3>1, OpenaiIsShown
  <2>7. Tells(read.t, more, TextsAfter(texts, e, n), CallsAfter(calls, e), ArgsAfter(args, e, n))
    BY <1>0, <1>2, TellsOn
  <2>8. ReadInv(read.t, more)
    BY <1>1, <1>2, <2>2, <2>3, CallsStayOpen DEF ReadInv
  <2> QED BY <2>5, <2>6, <2>7, <2>8
<1>3. CASE wire = "anthropic"
  <2>1. e \in AnthropicSends(events) /\ read = ReadAnthropic(t, e, n)
    BY <1>3 DEF ProviderSends, Translate
  <2>2. calls = CallsOpened(events) /\ calls \in Nat /\ Numbered(t, events, calls) /\ t.tools = calls
    BY <1>3 DEF Tells, ReadInv, Numbered
  <2>3. /\ InOrder(e, calls)
        /\ e.kind = "opens" => e.block = calls + TextBlocks(events)
        /\ e.kind = "args" => ToolIndexByBlock(t, e.block) = e.call
    BY <1>3, <2>1, <2>2, AnthropicOrder
  <2>4. e.kind \in {"start", "noise", "fault", "finish", "text", "think", "opens", "args"}
    BY <2>1, AnthropicProvides
  <2>5. PICK chunks : chunks = read.chunks
    OBVIOUS
  <2>6. ShownBy(AllWritten(acc, chunks), TextsAfter(texts, e, n), CallsAfter(calls, e),
                ArgsAfter(args, e, n))
    <3>1. chunks = ReadAnthropic(t, e, n).chunks
      BY <2>1, <2>5
    <3> QED BY <1>0, <2>2, <2>3, <2>4, <3>1, AnthropicIsShown
  <2>7. Tells(read.t, more, TextsAfter(texts, e, n), CallsAfter(calls, e), ArgsAfter(args, e, n))
    BY <1>0, <1>3, TellsOn
  <2>8. PICK u : u = read.t
    OBVIOUS
  <2>9. Numbered(u, more, CallsAfter(calls, e))
    <3>1. u = ReadAnthropic(t, e, n).t
      BY <2>1, <2>8
    <3>2. IsList(events) /\ \A i \in OfKind(events, "opens") : events[i].call \in 0..(calls - 1)
      BY <1>3, <2>2 DEF ReadInv
    <3> QED BY <1>3, <2>2, <2>3, <2>4, <3>1, <3>2, StaysNumbered
  <2>10. \A i \in OfKind(more, "opens") : more[i].call \in 0..(CallsOpened(more) - 1)
    BY <1>3, <2>2, <2>3, CallsStayOpen
  <2>11. ReadInv(u, more)
    BY <1>1, <1>3, <2>2, <2>9, <2>10 DEF ReadInv
  <2> QED BY <2>5, <2>6, <2>7, <2>8, <2>11
<1>4. CASE wire = "gemini"
  <2>1. e \in GeminiSends(events) /\ read = ReadGemini(t, e, n)
    BY <1>4 DEF ProviderSends, Translate
  <2>2. calls = t.tools /\ t.tools \in Nat /\ texts = TextsOf(events)
    BY <1>4 DEF Tells, ReadInv
  <2>3. TextsOf(more) = TextsAfter(texts, e, n)
    BY <2>2, TextsGrow
  <2>4. CASE e.kind = "noise"
    <3>1. read.t = t /\ read.chunks = <<>>
      BY <2>1, <2>4 DEF ReadGemini
    <3>2. TextsAfter(texts, e, n) = texts
      BY <2>4 DEF TextsAfter, Speaks
    <3>3. Tells(read.t, more, texts, calls, args)
      BY <1>4, <2>2, <2>3, <3>1, <3>2 DEF Tells
    <3>4. AllWritten(acc, read.chunks) = acc
      BY <3>1, NoneWritten
    <3>5. ReadInv(read.t, more)
      BY <1>1, <1>4, <2>2, <3>1 DEF ReadInv
    <3> QED BY <3>3, <3>4, <3>5
  <2>5. CASE e.kind # "noise"
    <3>1. e.kind = "frame" /\ e.text \in BOOLEAN /\ e.finish \in BOOLEAN /\ e.call \in BOOLEAN
      BY <2>1, <2>5, GeminiFrames
    <3>2. PICK chunks : chunks = read.chunks
      OBVIOUS
    <3>3. chunks = ReadGemini(t, e, n).chunks
      BY <2>1, <3>2
    <3>4. PICK a : ShownBy(AllWritten(acc, chunks), TextsAfter(texts, e, n),
                           IF e.call THEN calls + 1 ELSE calls, a)
      BY <1>0, <2>2, <3>1, <3>3, GeminiIsShown
    <3>5. read.t.tools = IF e.call THEN t.tools + 1 ELSE t.tools
      <4>1. read.t = [t EXCEPT !.done = @ \/ e.finish, !.sentRole = TRUE,
                               !.tools = IF e.call THEN @ + 1 ELSE @,
                               !.usage = [prompt |-> e.report, out |-> e.report]]
        BY <2>1, <2>5 DEF ReadGemini
      <4>2. DOMAIN t = {"done", "sentRole", "tools", "blocks", "usage"}
        BY DEF IsTranslator
      <4> QED BY <4>1, <4>2
    <3>6. PICK k : k = IF e.call THEN calls + 1 ELSE calls
      OBVIOUS
    <3>7. Tells(read.t, more, TextsAfter(texts, e, n), k, a)
      BY <1>4, <2>2, <2>3, <3>5, <3>6 DEF Tells
    <3>8. ReadInv(read.t, more)
      BY <1>1, <1>4, <2>2, <3>5 DEF ReadInv
    <3> QED BY <3>2, <3>4, <3>6, <3>7, <3>8
  <2> QED BY <2>4, <2>5
<1> QED BY <1>2, <1>3, <1>4 DEF Dialects

\* What the client has, when nothing more comes.
AnswerInv ==
    /\ client \in Dialects /\ ReadInv(translator, seen)
    /\ phase \in {"open", "ended", "cut", "broken", "hung up"}
    /\ \E acc, texts, calls, args :
          /\ ShownBy(acc, texts, calls, args) /\ Tells(translator, seen, texts, calls, args)
          /\ ~Closed => framer = acc.f /\ frames = acc.out
          /\ Closed => \/ frames = acc.out \o ClosingFrames(acc.f)
                       \/ frames = Append(acc.out, [type |-> "error"]) \o ClosingFrames(acc.f)

LEMMA AnswerBegins == StreamInit => AnswerInv
<1> SUFFICES ASSUME StreamInit PROVE AnswerInv
  OBVIOUS
<1>1. /\ client \in Dialects /\ wire \in Dialects /\ seen = <<>> /\ translator = NewTranslator
      /\ framer = NewFramer /\ frames = StartFrames /\ phase = "open"
  BY DEF StreamInit
<1>2. translator.tools = 0 /\ translator.blocks = <<>>
  BY <1>1 DEF NewTranslator
<1>3. IsList(seen) /\ DOMAIN seen = {}
  BY <1>1, NoneIsList
<1>4. \A k : OfKind(seen, k) = {}
  BY <1>3 DEF OfKind
<1>5. CallsOpened(seen) = 0 /\ IsFiniteSet(OfKind(seen, "opens"))
  BY <1>4, FS_EmptySet DEF CallsOpened
<1>6. Numbered(translator, seen, 0)
  BY <1>2, <1>4, NoneIsList DEF Numbered
<1>7. ReadInv(translator, seen)
  BY <1>2, <1>3, <1>4, <1>5, <1>6 DEF ReadInv
<1>8. PICK acc : acc = [f |-> NewFramer, out |-> StartFrames]
  OBVIOUS
<1>9. ShownBy(acc, {}, 0, NoArgs)
  BY <1>1, <1>8, NothingIsShown DEF ShownBy
<1>10. TextsOf(seen) = {} /\ \A c : FragmentsOf(seen, c) = {}
  BY <1>3 DEF TextsOf, FragmentsOf
<1>11. Tells(translator, seen, {}, 0, NoArgs)
  BY <1>2, <1>5, <1>10 DEF Tells, NoArgs
<1>12. framer = acc.f /\ frames = acc.out /\ ~Closed
  BY <1>1, <1>8 DEF Closed
<1> QED BY <1>1, <1>2, <1>7, <1>9, <1>11, <1>12 DEF AnswerInv

\* Where the stream stands for the client.
Standing(acc, ph, f, out) ==
    IF ph \in {"ended", "cut", "broken"}
    THEN \/ out = acc.out \o ClosingFrames(acc.f)
         \/ out = Append(acc.out, [type |-> "error"]) \o ClosingFrames(acc.f)
    ELSE f = acc.f /\ out = acc.out

LEMMA AnswerStands ==
    ASSUME client' = client, wire' = wire, client \in Dialects,
           NEW t, NEW events, translator' = t, seen' = events, ReadInv(t, events),
           phase' \in {"open", "ended", "cut", "broken", "hung up"},
           NEW acc, NEW texts, NEW calls, NEW args,
           ShownBy(acc, texts, calls, args), Tells(t, events, texts, calls, args),
           Standing(acc, phase', framer', frames')
    PROVE  AnswerInv'
<1>1. ReadInv(translator, seen)'
  BY DEF ReadInv, OfKind, CallsOpened, Numbered, TextBlocks, Has
<1>2. ShownBy(acc, texts, calls, args)'
  BY DEF ShownBy, ShownAll
<1>3. Tells(translator, seen, texts, calls, args)'
  BY DEF Tells, CallsOpened, OfKind, TextsOf, FragmentsOf
<1>4. (~Closed => framer = acc.f /\ frames = acc.out)'
  BY DEF Standing, Closed
<1>5. (Closed => \/ frames = acc.out \o ClosingFrames(acc.f)
                 \/ frames = Append(acc.out, [type |-> "error"]) \o ClosingFrames(acc.f))'
  BY DEF Standing, Closed, ClosingFrames
<1> QED BY <1>1, <1>2, <1>3, <1>4, <1>5 DEF AnswerInv

LEMMA AnswerIs ==
    ASSUME AnswerInv
    PROVE  \E acc, texts, calls, args :
              /\ ShownBy(acc, texts, calls, args) /\ Tells(translator, seen, texts, calls, args)
              /\ Standing(acc, phase, framer, frames)
BY DEF AnswerInv, Standing, Closed

LEMMA PullShows == StreamInv /\ AnswerInv /\ Pull => AnswerInv'
<1> SUFFICES ASSUME StreamInv, AnswerInv, Pull PROVE AnswerInv'
  OBVIOUS
<1>1. /\ phase = "open" /\ client' = client /\ wire' = wire
      /\ \E e \in ProviderSends(seen) : Pulls(e)
  BY PullPulls
<1>2. PICK e \in ProviderSends(seen) : Pulls(e)
  BY <1>1
<1>3. /\ client \in Dialects /\ wire \in Dialects /\ IsTranslator(translator)
      /\ ReadInv(translator, seen) /\ IsList(seen)
  BY DEF AnswerInv, StreamInv, ReadInv
<1>4. PICK acc, texts, calls, args :
         /\ ShownBy(acc, texts, calls, args) /\ Tells(translator, seen, texts, calls, args)
         /\ Standing(acc, phase, framer, frames)
  BY AnswerIs
<1>5. framer = acc.f /\ frames = acc.out
  BY <1>1, <1>4 DEF Standing
<1>6. PICK now : now = [f |-> framer, out |-> frames]
  OBVIOUS
<1>7. ShownBy(now, texts, calls, args)
  BY <1>4, <1>5, <1>6 DEF ShownBy
<1>8. PICK n : n = Len(seen) + 1
  OBVIOUS
<1>9. PICK read : read = Translate(translator, e, n)
  OBVIOUS
<1>10. PICK more : more = Append(seen, e)
  OBVIOUS
<1>11. OneMore(more, seen, e)
  <2>1. PICK S : seen \in Seq(S)
    BY <1>3 DEF IsList
  <2>2. seen \in Seq(S \cup {e})
    BY <2>1
  <2>3. more \in Seq(S \cup {e})
    BY <1>10, <2>2
  <2> QED BY <1>10, <2>2, <2>3 DEF OneMore, IsList
<1>12. PICK written : written = AllWritten(now, read.chunks)
  OBVIOUS
<1>13. /\ ReadInv(read.t, more)
       /\ \E x, k, a : ShownBy(AllWritten(now, read.chunks), x, k, a) /\ Tells(read.t, more, x, k, a)
  BY <1>3, <1>4, <1>7, <1>8, <1>9, <1>11, ReadTells
<1>14. PICK x, k, a : ShownBy(written, x, k, a) /\ Tells(read.t, more, x, k, a)
  BY <1>12, <1>13
<1>15. /\ seen' = more /\ translator' = read.t
       /\ \/ phase' = "ended" /\ frames' = written.out \o ClosingFrames(written.f)
          \/ phase' = phase /\ framer' = written.f /\ frames' = written.out
  BY <1>2, <1>6, <1>8, <1>9, <1>10, <1>12, Zenon DEF Pulls
<1>16. PICK t : t = read.t
  OBVIOUS
<1>17. Standing(written, phase', framer', frames') /\ phase' \in {"open", "ended"}
  BY <1>1, <1>15 DEF Standing
<1>18. /\ translator' = t /\ seen' = more /\ ReadInv(t, more)
       /\ Tells(t, more, x, k, a)
  BY <1>13, <1>14, <1>15, <1>16
<1> QED BY <1>1, <1>3, <1>14, <1>17, <1>18, AnswerStands

LEMMA AnswerStep == StreamInv /\ AnswerInv /\ [StreamNext]_streamVars => AnswerInv'
<1> SUFFICES ASSUME StreamInv, AnswerInv, [StreamNext]_streamVars PROVE AnswerInv'
  OBVIOUS
<1>1. CASE Pull
  BY <1>1, PullShows
<1>2. CASE UpstreamEnds \/ UpstreamBreaks \/ HangUp \/ UNCHANGED streamVars
  <2>1. /\ client' = client /\ wire' = wire /\ seen' = seen /\ translator' = translator
        /\ \/ phase = "open" /\ phase' = "cut" /\ frames' = frames \o ClosingFrames(framer)
           \/ /\ phase = "open" /\ phase' = "broken"
              /\ frames' = Append(frames, [type |-> "error"]) \o ClosingFrames(framer)
           \/ phase = "open" /\ phase' = "hung up" /\ framer' = framer /\ frames' = frames
           \/ phase' = phase /\ framer' = framer /\ frames' = frames
    BY <1>2 DEF UpstreamEnds, UpstreamBreaks, HangUp, FinishStream, streamVars
  <2>2. PICK acc, texts, calls, args :
           /\ ShownBy(acc, texts, calls, args) /\ Tells(translator, seen, texts, calls, args)
           /\ Standing(acc, phase, framer, frames)
    BY AnswerIs
  <2>3. phase = "open" => framer = acc.f /\ frames = acc.out
    BY <2>2 DEF Standing
  <2>4. Standing(acc, phase', framer', frames')
    BY <2>1, <2>2, <2>3 DEF Standing
  <2>5. phase' \in {"open", "ended", "cut", "broken", "hung up"}
    BY <2>1 DEF AnswerInv
  <2>6. client \in Dialects /\ ReadInv(translator, seen)
    BY DEF AnswerInv
  <2>7. PICK t, events : t = translator /\ events = seen
    OBVIOUS
  <2>8. /\ translator' = t /\ seen' = events /\ ReadInv(t, events)
        /\ Tells(t, events, texts, calls, args)
    BY <2>1, <2>2, <2>6, <2>7
  <2> QED BY <2>1, <2>2, <2>4, <2>5, <2>6, <2>8, AnswerStands
<1> QED BY <1>1, <1>2 DEF StreamNext

LEMMA AnswerAlways == StreamSpec => [](StreamInv /\ AnswerInv)
<1>1. StreamInit => StreamInv /\ AnswerInv
  BY StreamBegins, AnswerBegins
<1>2. (StreamInv /\ AnswerInv) /\ [StreamNext]_streamVars => (StreamInv /\ AnswerInv)'
  BY StreamStep, AnswerStep
<1> QED BY <1>1, <1>2, PTL DEF StreamSpec

-----------------------------------------------------------------------------
(* What that says of the frames.                                           *)

\* Before the tail: what was shown, and at most the failure's frame.
Leads(s, out) ==
    /\ IsList(s) /\ IsList(out) /\ Len(out) \in Nat /\ Len(s) \in Nat /\ Len(out) <= Len(s)
    /\ DOMAIN s = 1..Len(s) /\ DOMAIN out = 1..Len(out)
    /\ \A i \in 1..Len(out) : s[i] = out[i]
    /\ \A i \in 1..Len(s) : i > Len(out) => s[i].type = "error"

LEMMA ShownIsList ==
    ASSUME client \in Dialects, NEW f, NEW out, NEW texts, NEW calls, NEW args,
           ShownAll(f, out, texts, calls, args)
    PROVE  IsList(out)
BY DEF ShownAll, ShownOpenai, ShownGemini, ShownAnthropic, Blocks, Tree, Dialects

LEMMA LeadsTo ==
    ASSUME NEW out, IsList(out), NEW z
    PROVE  /\ Leads(out, out)
           /\ \E s : Leads(s, out) /\ Append(out, [type |-> "error"]) \o z = s \o z
<1>1. Len(out) \in Nat /\ DOMAIN out = 1..Len(out)
  BY ListIs
<1>2. Leads(out, out)
  BY <1>1 DEF Leads
<1>3. PICK s : s = Append(out, [type |-> "error"])
  OBVIOUS
<1>4. Leads(s, out)
  <2>1. PICK x : x = [type |-> "error"]
    OBVIOUS
  <2>2. PICK S : out \in Seq(S)
    BY DEF IsList
  <2>3. out \in Seq(S \cup {x}) /\ s = Append(out, x)
    BY <1>3, <2>1, <2>2
  <2>4. s \in Seq(S \cup {x}) /\ Len(s) = Len(out) + 1 /\ s[Len(out) + 1] = x
        /\ \A i \in 1..Len(out) : s[i] = out[i]
    BY <2>3
  <2>5. IsList(s) /\ DOMAIN s = 1..Len(s)
    BY <2>4 DEF IsList
  <2>6. x.type = "error"
    BY <2>1
  <2>7. \A i \in 1..Len(s) : i > Len(out) => s[i].type = "error"
    BY <1>1, <2>4, <2>6
  <2> QED BY <1>1, <2>4, <2>5, <2>7 DEF Leads
<1> QED BY <1>2, <1>3, <1>4

LEMMA AnswerSays ==
    ASSUME AnswerInv
    PROVE  \E f, out, s, texts, calls, args :
              /\ ShownAll(f, out, texts, calls, args) /\ Tells(translator, seen, texts, calls, args)
              /\ Leads(s, out)
              /\ Closed => frames = s \o ClosingFrames(f)
              /\ ~Closed => frames = out
<1>1. PICK acc, texts, calls, args :
          /\ ShownBy(acc, texts, calls, args) /\ Tells(translator, seen, texts, calls, args)
          /\ ~Closed => framer = acc.f /\ frames = acc.out
          /\ Closed => \/ frames = acc.out \o ClosingFrames(acc.f)
                       \/ frames = Append(acc.out, [type |-> "error"]) \o ClosingFrames(acc.f)
  BY DEF AnswerInv
<1>2. PICK f, out : f = acc.f /\ out = acc.out
  OBVIOUS
<1>3. ShownAll(f, out, texts, calls, args) /\ client \in Dialects
  BY <1>1, <1>2 DEF ShownBy, AnswerInv
<1>4. IsList(out)
  BY <1>3, ShownIsList
<1>5. PICK z : z = ClosingFrames(f)
  OBVIOUS
<1>6. Leads(out, out)
  BY <1>4, LeadsTo
<1>7. PICK s : Leads(s, out) /\ Append(out, [type |-> "error"]) \o z = s \o z
  BY <1>4, LeadsTo
<1>8. PICK r : /\ Leads(r, out) /\ (Closed => frames = r \o z)
  <2>1. CASE frames = out \o z
    BY <1>6, <2>1
  <2>2. CASE frames # out \o z
    BY <1>1, <1>2, <1>5, <1>7, <2>2
  <2> QED BY <2>1, <2>2
<1> QED BY <1>1, <1>2, <1>3, <1>5, <1>8

\* One frame closes it.
LEMMA ClosesWithOne ==
    ASSUME NEW out, NEW s, Leads(s, out), NEW x, NEW fs, fs = s \o <<x>>
    PROVE  /\ Len(fs) = Len(s) + 1 /\ Len(fs) \in Nat /\ DOMAIN fs = 1..Len(fs) /\ fs[Len(fs)] = x
           /\ \A i \in DOMAIN out : i \in DOMAIN fs /\ fs[i] = out[i]
           /\ \A i \in DOMAIN fs : i \in DOMAIN out \/ i = Len(fs) \/ fs[i].type = "error"
<1>1. OneMore(fs, s, x)
  BY ListAppends DEF Leads
<1> QED BY <1>1 DEF OneMore, Leads

LEMMA OpenaiHears ==
    ASSUME AnswerInv, client = "openai" PROVE StreamIsWellFormed /\ AnswerArrives
<1>1. PICK f, out, s, texts, calls, args :
          /\ ShownAll(f, out, texts, calls, args) /\ Tells(translator, seen, texts, calls, args)
          /\ Leads(s, out)
          /\ Closed => frames = s \o ClosingFrames(f)
          /\ ~Closed => frames = out
  BY AnswerSays
<1>2. ShownOpenai(out, texts, args) /\ Told(texts, calls, args)
  BY <1>1 DEF ShownAll
<1>3. /\ \A i \in DOMAIN out : i \in DOMAIN frames /\ frames[i] = out[i]
      /\ Closed => /\ Len(frames) \in DOMAIN frames /\ frames[Len(frames)].type = "DONE"
                   /\ Len(frames) \notin DOMAIN out
                   /\ \A i \in DOMAIN frames :
                         i \in DOMAIN out \/ i = Len(frames) \/ frames[i].type = "error"
      /\ ~Closed => DOMAIN frames = DOMAIN out
  <2>1. CASE Closed
    <3>1. PICK x : x = [type |-> "DONE"]
      OBVIOUS
    <3>2. frames = s \o <<x>> /\ x.type = "DONE"
      BY <1>1, <2>1, <3>1 DEF ClosingFrames
    <3>3. /\ Len(frames) = Len(s) + 1 /\ Len(frames) \in Nat /\ DOMAIN frames = 1..Len(frames)
          /\ frames[Len(frames)] = x
          /\ \A i \in DOMAIN out : i \in DOMAIN frames /\ frames[i] = out[i]
          /\ \A i \in DOMAIN frames : i \in DOMAIN out \/ i = Len(frames) \/ frames[i].type = "error"
      <4>1. Leads(s, out) /\ frames = s \o <<x>>
        BY <1>1, <3>2
      <4> QED BY ONLY <4>1, ClosesWithOne
    <3>4. Len(frames) \in DOMAIN frames /\ Len(frames) \notin DOMAIN out
      BY <1>1, <3>3 DEF Leads
    <3> QED BY <2>1, <3>2, <3>3, <3>4
  <2>2. CASE ~Closed
    BY <1>1, <2>2
  <2> QED BY <2>1, <2>2
<1>4. \A i \in DOMAIN out : out[i].type = "chunk"
  BY <1>2 DEF ShownOpenai
<1>5. Positions("chunk") = DOMAIN out
  BY <1>3, <1>4 DEF Positions
<1>6. Positions("DONE") = IF Closed THEN {Len(frames)} ELSE {}
  BY <1>3, <1>4 DEF Positions
<1>7. \A ch : ch \in ChunksRead <=> \E i \in DOMAIN out : ch = out[i].chunk
  BY <1>3, <1>5 DEF ChunksRead
<1>8. {ch.text : ch \in ChunksRead} \ {0} = SentText
  <2>1. \A n : n \in {ch.text : ch \in ChunksRead} <=> \E i \in DOMAIN out : out[i].chunk.text = n
    BY <1>7
  <2>2. texts = SentText
    BY <1>1 DEF Tells, TextsOf, SentText, Speaks
  <2>3. \A n : n # 0 => (n \in texts <=> \E i \in DOMAIN out : out[i].chunk.text = n)
    BY <1>2 DEF ShownOpenai
  <2>4. 0 \notin texts
    BY <1>2 DEF Told
  <2> QED BY <2>1, <2>2, <2>3, <2>4
<1>9. ASSUME wire # "gemini", NEW c \in 0..(CallsOpened(seen) - 1)
      PROVE  UNION {{k.args : k \in {x \in ToSet(ch.calls) : x.index = c}} \ {0} :
                       ch \in ChunksRead} = SentArgs(c)
  <2> DEFINE part(ch) == {k.args : k \in {x \in ToSet(ch.calls) : x.index = c}} \ {0}
  <2>0. c \in Nat
    OBVIOUS
  <2>1. \A ch, n : n \in part(ch) <=>
            n # 0 /\ \E j \in DOMAIN ch.calls : ch.calls[j].index = c /\ ch.calls[j].args = n
    BY DEF ToSet
  <2> HIDE DEF part
  <2>2. \A n : n \in UNION {part(ch) : ch \in ChunksRead} <=>
            \E i \in DOMAIN out : n \in part(out[i].chunk)
    BY <1>7
  <2>3. args[c] = SentArgs(c) /\ 0 \notin args[c]
    BY <1>1, <1>2, <1>9, <2>0 DEF Tells, Told, FragmentsOf, SentArgs
  <2>4. \A n : n # 0 => (n \in args[c] <=> \E i \in DOMAIN out : CarriesPart(out[i].chunk, c, n))
    BY <1>2, <2>0 DEF ShownOpenai
  <2>5. \A ch, n : n # 0 => (CarriesPart(ch, c, n) <=> n \in part(ch))
    <3> TAKE ch, n
    <3>1. CASE ch.calls = <<>>
      BY <2>1, <3>1 DEF CarriesPart
    <3>2. CASE ch.calls # <<>>
      BY <2>1, <3>2 DEF CarriesPart
    <3> QED BY <3>1, <3>2
  <2>6. \A n : n \in UNION {part(ch) : ch \in ChunksRead} <=> n \in args[c]
    <3> TAKE n
    <3>1. CASE n = 0
      <4>1. \A ch : 0 \notin part(ch)
        BY <2>1
      <4> QED BY <2>2, <2>3, <3>1, <4>1
    <3>2. CASE n # 0
      BY <2>2, <2>4, <2>5, <3>2
    <3> QED BY <3>1, <3>2
  <2> QED BY <2>3, <2>6 DEF part
<1>10. StreamIsWellFormed
  BY <1>6 DEF StreamIsWellFormed
<1>11. AnswerArrives
  BY <1>8, <1>9, Zenon DEF AnswerArrives
<1> QED BY <1>10, <1>11

LEMMA GeminiHears ==
    ASSUME AnswerInv, client = "gemini" PROVE StreamIsWellFormed /\ AnswerArrives
<1>1. PICK f, out, s, texts, calls, args :
          /\ ShownAll(f, out, texts, calls, args) /\ Tells(translator, seen, texts, calls, args)
          /\ Leads(s, out)
          /\ Closed => frames = s \o ClosingFrames(f)
          /\ ~Closed => frames = out
  BY AnswerSays
<1>2. ShownGemini(f, out, texts) /\ Told(texts, calls, args)
  BY <1>1 DEF ShownAll
<1>3. /\ \A i \in DOMAIN out : i \in DOMAIN frames /\ frames[i] = out[i]
      /\ Closed => /\ Len(frames) \in DOMAIN frames /\ frames[Len(frames)].type = "usage"
                   /\ ~f.sawFinish => frames[Len(frames)].finish
                   /\ Len(frames) \notin DOMAIN out
                   /\ \A i \in DOMAIN frames :
                         i \in DOMAIN out \/ i = Len(frames) \/ frames[i].type = "error"
      /\ ~Closed => DOMAIN frames = DOMAIN out
  <2>1. CASE Closed
    <3>1. PICK x : x = [type |-> "usage", finish |-> ~f.sawFinish]
      OBVIOUS
    <3>2. frames = s \o <<x>> /\ x.type = "usage" /\ (~f.sawFinish => x.finish)
      BY <1>1, <2>1, <3>1 DEF ClosingFrames
    <3>3. /\ Len(frames) = Len(s) + 1 /\ Len(frames) \in Nat /\ DOMAIN frames = 1..Len(frames)
          /\ frames[Len(frames)] = x
          /\ \A i \in DOMAIN out : i \in DOMAIN frames /\ frames[i] = out[i]
          /\ \A i \in DOMAIN frames : i \in DOMAIN out \/ i = Len(frames) \/ frames[i].type = "error"
      <4>1. Leads(s, out) /\ frames = s \o <<x>>
        BY <1>1, <3>2
      <4> QED BY ONLY <4>1, ClosesWithOne
    <3>4. Len(frames) \in DOMAIN frames /\ Len(frames) \notin DOMAIN out
      BY <1>1, <3>3 DEF Leads
    <3> QED BY <2>1, <3>2, <3>3, <3>4
  <2>2. CASE ~Closed
    BY <1>1, <2>2
  <2> QED BY <2>1, <2>2
<1>4. \A i \in DOMAIN out : out[i].type = "candidate"
  BY <1>2 DEF ShownGemini
<1>5. Positions("candidate") = DOMAIN out
  BY <1>3, <1>4 DEF Positions
<1>6. Positions("usage") = IF Closed THEN {Len(frames)} ELSE {}
  BY <1>3, <1>4 DEF Positions
<1>7. Closed => \E i \in Positions("candidate") \cup Positions("usage") : frames[i].finish
  <2> SUFFICES ASSUME Closed PROVE \E i \in DOMAIN out \cup {Len(frames)} : frames[i].finish
    BY <1>5, <1>6
  <2>1. CASE f.sawFinish
    <3>1. PICK i \in DOMAIN out : out[i].finish
      BY <1>2, <2>1 DEF ShownGemini
    <3> QED BY <1>3, <3>1
  <2>2. CASE ~f.sawFinish
    BY <1>3, <2>2
  <2> QED BY <2>1, <2>2
<1>8. {frames[i].text : i \in Positions("candidate")} \ {0} = SentText
  <2>1. \A n : n \in {frames[i].text : i \in Positions("candidate")} <=>
                 \E i \in DOMAIN out : out[i].text = n
    BY <1>3, <1>5
  <2>2. texts = SentText
    BY <1>1 DEF Tells, TextsOf, SentText, Speaks
  <2>3. \A n : n # 0 => (n \in texts <=> \E i \in DOMAIN out : out[i].text = n)
    BY <1>2 DEF ShownGemini
  <2>4. 0 \notin texts
    BY <1>2 DEF Told
  <2> QED BY <2>1, <2>2, <2>3, <2>4
<1>10. StreamIsWellFormed
  BY <1>6, <1>7 DEF StreamIsWellFormed
<1>11. AnswerArrives
  BY <1>8 DEF AnswerArrives
<1> QED BY <1>10, <1>11

\* Where the stops stand: after p, the youngest first, and then the message's end.
Stops(fs, p, n) ==
    /\ p \in Nat /\ Len(fs) = p + n + 2 /\ DOMAIN fs = 1..(p + n + 2)
    /\ \A i \in 1..n : fs[p + i].type = "block_stop" /\ fs[p + i].index = n - i
    /\ fs[p + n + 1].type = "message_delta" /\ fs[p + n + 2].type = "message_stop"

\* A tail that closes n blocks behind what was shown, an error frame at most between.
Closes(fs, out, p, n) ==
    /\ Stops(fs, p, n) /\ Len(out) <= p /\ Len(out) \in Nat
    /\ \A i \in DOMAIN out : i \in DOMAIN fs /\ fs[i] = out[i]
    /\ \A i \in 1..p : i \notin DOMAIN out => fs[i].type = "error"

LEMMA TreeCloses ==
    ASSUME client = "anthropic", NEW f, NEW n, n = f.nextIndex, n \in Nat, NEW out, NEW s, Leads(s, out),
           NEW fs, fs = s \o ClosingFrames(f)
    PROVE  Closes(fs, out, Len(s), n)
<1>1. PICK b : b = [i \in 1..n |-> [type |-> "block_stop", index |-> n - i]]
  OBVIOUS
<1>2. PICK d : d = [type |-> "message_delta", stop |-> f.stopReason]
  OBVIOUS
<1>3. PICK m : m = [type |-> "message_stop"]
  OBVIOUS
<1>4. PICK e : e = <<d, m>>
  OBVIOUS
<1>5. IsList(e) /\ Len(e) = 2 /\ e[1] = d /\ e[2] = m
  <2>1. e \in Seq({d, m}) /\ Len(e) = 2 /\ e[1] = d /\ e[2] = m
    BY <1>4
  <2> QED BY <2>1 DEF IsList
<1>6. IsList(b) /\ Len(b) = n /\ \A i \in 1..n : b[i].type = "block_stop" /\ b[i].index = n - i
  <2>1. PICK S : S = {b[i] : i \in 1..n}
    OBVIOUS
  <2>2. b \in [1..n -> S]
    BY <1>1, <2>1
  <2>3. b \in Seq(S) /\ Len(b) = n
    BY <2>2
  <2>4. \A i \in 1..n : b[i].type = "block_stop" /\ b[i].index = n - i
    BY <1>1
  <2> QED BY <2>3, <2>4 DEF IsList
<1>7. d.type = "message_delta" /\ m.type = "message_stop"
  BY <1>2, <1>3
<1>8. PICK z : z = b \o e
  OBVIOUS
<1>9. ClosingFrames(f) = z
  BY <1>1, <1>2, <1>3, <1>4, <1>8 DEF ClosingFrames
<1>10. GoesOn(z, b, e)
  BY <1>5, <1>6, <1>8, ListGoesOn
<1>11. /\ IsList(z) /\ Len(z) = n + 2 /\ (\A i \in 1..n : z[i] = b[i])
       /\ z[n + 1] = d /\ z[n + 2] = m
  BY <1>5, <1>6, <1>10 DEF GoesOn
<1>12. PICK p : p = Len(s)
  OBVIOUS
<1>13. p \in Nat /\ IsList(s) /\ DOMAIN s = 1..p
  BY <1>12 DEF Leads
<1>14. GoesOn(fs, s, z)
  <2>1. fs = s \o z
    BY <1>9
  <2> QED BY <1>11, <1>13, <2>1, ListGoesOn
<1>15. /\ Len(fs) = p + (n + 2) /\ DOMAIN fs = 1..(p + (n + 2))
       /\ (\A i \in 1..p : fs[i] = s[i]) /\ \A i \in 1..(n + 2) : fs[p + i] = z[i]
  BY <1>11, <1>12, <1>14 DEF GoesOn
<1>16. \A i \in 1..n : fs[p + i] = b[i]
  <2> SUFFICES ASSUME NEW i \in 1..n PROVE fs[p + i] = b[i]
    OBVIOUS
  <2>1. i \in 1..(n + 2)
    OBVIOUS
  <2> QED BY <1>11, <1>15, <2>1
<1>17. fs[p + n + 1] = d /\ fs[p + n + 2] = m
  <2>1. p + n + 1 = p + (n + 1) /\ p + n + 2 = p + (n + 2)
    BY <1>13
  <2>2. n + 1 \in 1..(n + 2) /\ n + 2 \in 1..(n + 2)
    OBVIOUS
  <2> QED BY <1>11, <1>15, <2>1, <2>2
<1>18. Stops(fs, p, n)
  <2>1. p + (n + 2) = p + n + 2
    BY <1>13
  <2> QED BY <1>6, <1>7, <1>13, <1>15, <1>16, <1>17, <2>1 DEF Stops
<1>19. Len(out) <= p /\ Len(out) \in Nat /\ DOMAIN out = 1..Len(out)
  BY <1>12 DEF Leads
<1>20. \A i \in DOMAIN out : i \in DOMAIN fs /\ fs[i] = out[i]
  <2> SUFFICES ASSUME NEW i \in 1..Len(out) PROVE i \in DOMAIN fs /\ fs[i] = out[i]
    BY <1>19
  <2>1. i \in 1..p /\ s[i] = out[i]
    BY <1>12, <1>19 DEF Leads
  <2> QED BY <1>13, <1>15, <2>1
<1>21. \A i \in 1..p : i \notin DOMAIN out => fs[i].type = "error"
  BY <1>12, <1>15, <1>19 DEF Leads
<1>22. Closes(fs, out, p, n)
  BY <1>18, <1>19, <1>20, <1>21 DEF Closes
<1> QED BY <1>12, <1>22

\* As many as are numbered 0 to k - 1, each by one number.
LEMMA NumberedAre ==
    ASSUME NEW S, NEW k \in Nat, NEW g, \A x \in S : g[x] \in 0..(k - 1),
           \A x, y \in S : g[x] = g[y] => x = y, \A m \in 0..(k - 1) : \E x \in S : g[x] = m
    PROVE  Cardinality(S) = k
<1>1. PICK T : T = 0..(k - 1)
  OBVIOUS
<1>2. IsFiniteSet(T) /\ Cardinality(T) = k
  <2>1. IsFiniteSet(0..(k - 1)) /\ Cardinality(0..(k - 1)) =
           IF 0 > k - 1 THEN 0 ELSE (k - 1) - 0 + 1
    BY FS_Interval
  <2> QED BY <1>1, <2>1
<1>3. PICK h : h = [m \in T |-> CHOOSE x \in S : g[x] = m]
  OBVIOUS
<1>4. \A m \in T : h[m] \in S /\ g[h[m]] = m
  BY <1>1, <1>3
<1>5. h \in [T -> S]
  BY <1>3, <1>4
<1>6. \A m, n \in T : h[m] = h[n] => m = n
  BY <1>4
<1>7. \A x \in S : \E m \in T : h[m] = x
  <2> SUFFICES ASSUME NEW x \in S PROVE \E m \in T : h[m] = x
    OBVIOUS
  <2>1. g[x] \in T
    BY <1>1
  <2>2. h[g[x]] \in S /\ g[h[g[x]]] = g[x]
    BY <1>4, <2>1
  <2>3. h[g[x]] = x
    BY <2>2
  <2> QED BY <2>1, <2>3
<1>8. h \in Bijection(T, S)
  BY <1>5, <1>6, <1>7 DEF Bijection, Injection, Surjection, IsInjective
<1> QED BY <1>2, <1>8, FS_Bijection DEF ExistsBijection

\* Where blocks begin, and where they go on.
Starts(out) == {i \in DOMAIN out : out[i].type = "block_start"}
Deltas(out) == {i \in DOMAIN out : out[i].type = "block_delta"}

\* One start for each block, in their order.
LEMMA StartsInOrder ==
    ASSUME NEW out, NEW n, Tree(out, n)
    PROVE  /\ n \in Nat
           /\ \A i \in Starts(out) : i \in Nat /\ out[i].index \in 0..(n - 1)
           /\ \A i, j \in Starts(out) : i < j => out[i].index < out[j].index
           /\ \A i, j \in Starts(out) : out[i].index = out[j].index => i = j
           /\ \A i, j \in Starts(out) : out[i].index < out[j].index => i < j
           /\ \A k \in 0..(n - 1) : \E i \in Starts(out) : out[i].index = k
<1>1. n \in Nat /\ IsList(out)
  BY DEF Tree
<1>2. DOMAIN out = 1..Len(out) /\ Len(out) \in Nat
  BY <1>1, ListIs
<1>3. \A i \in Starts(out) : i \in Nat /\ out[i].index \in 0..(n - 1)
  BY <1>2 DEF Tree, Starts
<1>4. \A i, j \in Starts(out) : i < j => out[i].index < out[j].index
  BY DEF Tree, Starts
<1>5. \A i, j \in Starts(out) : i = j \/ i < j \/ j < i
  BY <1>3
<1>6. \A i, j \in Starts(out) :
         /\ out[i].index = out[j].index => i = j
         /\ out[i].index < out[j].index => i < j
  <2> SUFFICES ASSUME NEW i \in Starts(out), NEW j \in Starts(out)
               PROVE  /\ out[i].index = out[j].index => i = j
                      /\ out[i].index < out[j].index => i < j
    OBVIOUS
  <2>1. PICK a, b : a = out[i].index /\ b = out[j].index
    OBVIOUS
  <2>2. a \in 0..(n - 1) /\ b \in 0..(n - 1)
    BY <1>3, <2>1
  <2>3. (i < j => a < b) /\ (j < i => b < a) /\ (i = j => a = b)
    BY <1>4, <2>1
  <2>4. i = j \/ i < j \/ j < i
    BY <1>5
  <2>5. (a = b => i = j) /\ (a < b => i < j)
    BY <1>1, <2>2, <2>3, <2>4
  <2> QED BY <2>1, <2>5
<1>7. \A k \in 0..(n - 1) : \E i \in Starts(out) : out[i].index = k
  BY DEF Tree, Starts, BeginsBlock
<1> QED BY <1>1, <1>3, <1>4, <1>6, <1>7

LEMMA StartsCount ==
    ASSUME NEW out, NEW n, Tree(out, n)
    PROVE  /\ Cardinality(Starts(out)) = n
           /\ \A i \in Starts(out) : Cardinality({j \in Starts(out) : j < i}) = out[i].index
<1>0. /\ n \in Nat
      /\ \A i \in Starts(out) : i \in Nat /\ out[i].index \in 0..(n - 1)
      /\ \A i, j \in Starts(out) : i < j => out[i].index < out[j].index
      /\ \A i, j \in Starts(out) : out[i].index = out[j].index => i = j
      /\ \A i, j \in Starts(out) : out[i].index < out[j].index => i < j
      /\ \A k \in 0..(n - 1) : \E i \in Starts(out) : out[i].index = k
  BY StartsInOrder
<1>1. PICK g : g = [i \in Starts(out) |-> out[i].index]
  OBVIOUS
<1>2. Cardinality(Starts(out)) = n
  <2>1. \A x \in Starts(out) : g[x] \in 0..(n - 1)
    BY <1>0, <1>1
  <2>2. \A x, y \in Starts(out) : g[x] = g[y] => x = y
    BY <1>0, <1>1
  <2>3. \A m \in 0..(n - 1) : \E x \in Starts(out) : g[x] = m
    BY <1>0, <1>1
  <2>4. n \in Nat
    BY <1>0
  <2> QED BY ONLY <2>1, <2>2, <2>3, <2>4, NumberedAre
<1>3. ASSUME NEW i \in Starts(out)
      PROVE  Cardinality({j \in Starts(out) : j < i}) = out[i].index
  <2>0. PICK k : k = out[i].index
    OBVIOUS
  <2>1. PICK S : S = {j \in Starts(out) : j < i}
    OBVIOUS
  <2>2. k \in 0..(n - 1) /\ k \in Nat
    BY <1>0, <2>0
  <2>3. \A x \in S : g[x] \in 0..(k - 1)
    <3> SUFFICES ASSUME NEW x \in S PROVE g[x] \in 0..(k - 1)
      OBVIOUS
    <3>1. x \in Starts(out) /\ x < i
      BY <2>1
    <3>2. out[x].index \in 0..(n - 1) /\ out[x].index < k
      BY <1>0, <2>0, <3>1
    <3> QED BY <1>0, <1>1, <2>2, <3>1, <3>2
  <2>4. \A x, y \in S : g[x] = g[y] => x = y
    BY <1>0, <1>1, <2>1
  <2>5. \A m \in 0..(k - 1) : \E x \in S : g[x] = m
    <3> SUFFICES ASSUME NEW m \in 0..(k - 1) PROVE \E x \in S : g[x] = m
      OBVIOUS
    <3>1. m \in 0..(n - 1) /\ m < k
      BY <1>0, <2>2
    <3>2. PICK x \in Starts(out) : out[x].index = m
      BY <1>0, <3>1
    <3>3. x < i
      BY <1>0, <2>0, <3>1, <3>2
    <3> QED BY <1>1, <2>1, <3>2, <3>3
  <2>6. Cardinality(S) = k
    BY ONLY <2>2, <2>3, <2>4, <2>5, NumberedAre
  <2> QED BY <2>0, <2>1, <2>6
<1> QED BY <1>2, <1>3

\* The blocks of the calls, among themselves.
Tools(out) == {i \in Starts(out) : out[i].tool = TRUE}

\* The c-th among them is block ToolAt(tx, c).
ToolsStand(out, tx, calls) ==
    /\ \A i \in Tools(out) : \E c \in 0..(calls - 1) : out[i].index = ToolAt(tx, c)
    /\ \A c \in 0..(calls - 1) : \E i \in Tools(out) : out[i].index = ToolAt(tx, c)
    /\ \A i \in Tools(out), c \in 0..(calls - 1) :
          out[i].index = ToolAt(tx, c) => Cardinality({j \in Tools(out) : j < i}) = c

LEMMA ToolsCount ==
    ASSUME NEW n, NEW tx, NEW blocks, NEW out, NEW texts, NEW calls, NEW args, calls \in Nat,
           Blocks(n, tx, blocks, out, texts, calls, args)
    PROVE  ToolsStand(out, tx, calls)
<1>0. /\ n \in Nat
      /\ \A i \in Starts(out) : i \in Nat /\ out[i].index \in 0..(n - 1)
      /\ \A i, j \in Starts(out) : i < j => out[i].index < out[j].index
      /\ \A i, j \in Starts(out) : out[i].index = out[j].index => i = j
      /\ \A i, j \in Starts(out) : out[i].index < out[j].index => i < j
      /\ \A k \in 0..(n - 1) : \E i \in Starts(out) : out[i].index = k
  <2>1. Tree(out, n)
    BY DEF Blocks
  <2> QED BY ONLY <2>1, StartsInOrder
<1>1. /\ tx \in Int /\ -1 <= tx /\ tx <= calls /\ n = IF tx = -1 THEN calls ELSE calls + 1
      /\ \A i \in Starts(out) : out[i].tool = (out[i].index # tx)
  BY DEF Blocks, Starts
<1>2. \A i \in Starts(out) : i \in Tools(out) <=> out[i].index # tx
  BY <1>1 DEF Tools
<1>3. \A c \in 0..(calls - 1) : ToolAt(tx, c) \in 0..(n - 1) /\ ToolAt(tx, c) # tx
  BY <1>1 DEF ToolAt
<1>4. \A k \in 0..(n - 1) : k # tx => \E c \in 0..(calls - 1) : k = ToolAt(tx, c)
  <2> SUFFICES ASSUME NEW k \in 0..(n - 1), k # tx PROVE \E c \in 0..(calls - 1) : k = ToolAt(tx, c)
    OBVIOUS
  <2>1. CASE tx = -1 \/ k < tx
    <3>1. k \in 0..(calls - 1) /\ ToolAt(tx, k) = k
      BY <1>1, <2>1 DEF ToolAt
    <3> QED BY <3>1
  <2>2. CASE ~(tx = -1 \/ k < tx)
    <3>1. k - 1 \in 0..(calls - 1) /\ ToolAt(tx, k - 1) = k
      BY <1>0, <1>1, <2>2 DEF ToolAt
    <3> QED BY <3>1
  <2> QED BY <2>1, <2>2
<1>5. \A c, d \in 0..(calls - 1) :
         /\ ToolAt(tx, c) = ToolAt(tx, d) => c = d
         /\ ToolAt(tx, c) < ToolAt(tx, d) <=> c < d
  BY <1>1 DEF ToolAt
<1>6. ASSUME NEW i \in Tools(out)
      PROVE  \E c \in 0..(calls - 1) : out[i].index = ToolAt(tx, c)
  <2>1. i \in Starts(out)
    BY DEF Tools
  <2> QED BY <1>0, <1>2, <1>4, <2>1
<1>7. ASSUME NEW c \in 0..(calls - 1)
      PROVE  \E i \in Tools(out) : out[i].index = ToolAt(tx, c)
  <2>1. PICK i \in Starts(out) : out[i].index = ToolAt(tx, c)
    BY <1>0, <1>3
  <2> QED BY <1>2, <1>3, <2>1
<1>8. ASSUME NEW i \in Tools(out), NEW c \in 0..(calls - 1), out[i].index = ToolAt(tx, c)
      PROVE  Cardinality({j \in Tools(out) : j < i}) = c
  <2>1. PICK S : S = {j \in Tools(out) : j < i}
    OBVIOUS
  <2>2. PICK g : g = [j \in Tools(out) |-> CHOOSE d \in 0..(calls - 1) : out[j].index = ToolAt(tx, d)]
    OBVIOUS
  <2>3. \A j \in Tools(out) : g[j] \in 0..(calls - 1) /\ out[j].index = ToolAt(tx, g[j])
    BY <1>6, <2>2
  <2>4. \A j \in Tools(out) : j \in Starts(out)
    BY DEF Tools
  <2>5. c \in Nat
    OBVIOUS
  <2>6. \A x \in S : g[x] \in 0..(c - 1)
    <3> SUFFICES ASSUME NEW x \in S PROVE g[x] \in 0..(c - 1)
      OBVIOUS
    <3>1. x \in Tools(out) /\ x < i
      BY <2>1
    <3>2. out[x].index < out[i].index
      BY <1>0, <2>4, <3>1
    <3>3. PICK d \in 0..(calls - 1) : d = g[x]
      BY <2>3, <3>1
    <3>4. ToolAt(tx, d) < ToolAt(tx, c)
      BY <1>8, <2>3, <3>1, <3>2, <3>3
    <3>5. d < c
      BY <1>5, <3>4
    <3> QED BY <3>3, <3>5
  <2>7. \A x, y \in S : g[x] = g[y] => x = y
    BY <1>0, <2>1, <2>3, <2>4
  <2>8. \A m \in 0..(c - 1) : \E x \in S : g[x] = m
    <3> SUFFICES ASSUME NEW m \in 0..(c - 1) PROVE \E x \in S : g[x] = m
      OBVIOUS
    <3>1. m \in 0..(calls - 1) /\ m < c
      OBVIOUS
    <3>2. PICK x \in Tools(out) : out[x].index = ToolAt(tx, m)
      BY <1>7, <3>1
    <3>3. ToolAt(tx, m) < ToolAt(tx, c)
      BY <1>5, <3>1
    <3>4. x < i
      BY <1>0, <1>8, <2>4, <3>2, <3>3
    <3>5. g[x] = m
      BY <1>5, <2>3, <3>1, <3>2
    <3> QED BY <2>1, <3>2, <3>4, <3>5
  <2>9. Cardinality(S) = c
    BY ONLY <2>5, <2>6, <2>7, <2>8, NumberedAre
  <2> QED BY <2>1, <2>9
<1> QED BY <1>6, <1>7, <1>8 DEF ToolsStand

\* The frames of a stream whose client reads blocks: those shown, and the tail.
Framed(out, n, p) ==
    /\ Len(out) \in Nat /\ DOMAIN out = 1..Len(out)
    /\ \A i \in DOMAIN out : i \in DOMAIN frames /\ frames[i] = out[i]
    /\ ~Closed => frames = out
    /\ Closed => /\ Stops(frames, p, n) /\ Len(out) <= p
                 /\ \A i \in 1..p : i \notin DOMAIN out => frames[i].type = "error"

LEMMA AnthropicSays ==
    ASSUME AnswerInv, client = "anthropic"
    PROVE  \E f, out, p, texts, calls, args :
              /\ Blocks(f.nextIndex, f.textIndex, f.openToolBlocks, out, texts, calls, args)
              /\ Told(texts, calls, args) /\ Tells(translator, seen, texts, calls, args)
              /\ Framed(out, f.nextIndex, p)
<1>1. PICK f, out, s, texts, calls, args :
          /\ ShownAll(f, out, texts, calls, args) /\ Tells(translator, seen, texts, calls, args)
          /\ Leads(s, out)
          /\ Closed => frames = s \o ClosingFrames(f)
          /\ ~Closed => frames = out
  BY AnswerSays
<1>2. /\ Blocks(f.nextIndex, f.textIndex, f.openToolBlocks, out, texts, calls, args)
      /\ Told(texts, calls, args)
  BY <1>1 DEF ShownAll, ShownAnthropic
<1>3. PICK n, p : n = f.nextIndex /\ p = Len(s)
  OBVIOUS
<1>4. n \in Nat
  BY <1>2, <1>3 DEF Blocks, Tree
<1>5. Len(out) \in Nat /\ DOMAIN out = 1..Len(out)
  BY <1>1 DEF Leads
<1>6. CASE Closed
  <2>1. PICK fs : fs = s \o ClosingFrames(f)
    OBVIOUS
  <2>2. Closes(fs, out, p, n)
    <3>1. n = f.nextIndex /\ n \in Nat /\ Leads(s, out) /\ client = "anthropic"
      BY <1>1, <1>3, <1>4
    <3>2. Closes(fs, out, Len(s), n)
      BY ONLY <2>1, <3>1, TreeCloses
    <3> QED BY <1>3, <3>2
  <2>3. frames = fs
    BY <1>1, <1>6, <2>1
  <2>4. Framed(out, n, p)
    BY <1>5, <1>6, <2>2, <2>3 DEF Framed, Closes
  <2> QED BY <1>1, <1>2, <1>3, <2>4
<1>7. CASE ~Closed
  <2>1. Framed(out, n, p)
    BY <1>1, <1>5, <1>7 DEF Framed
  <2> QED BY <1>1, <1>2, <1>3, <2>1
<1> QED BY <1>6, <1>7

\* Where the frames of each sort stand.
LEMMA FramesStand ==
    ASSUME NEW out, NEW n, NEW p, Tree(out, n), Framed(out, n, p)
    PROVE  /\ Positions("block_start") = Starts(out) /\ Positions("block_delta") = Deltas(out)
           /\ Positions("message_start") = {1}
           /\ \A i \in Starts(out) \cup Deltas(out) : frames[i] = out[i] /\ i \in 1..Len(out)
           /\ ~Closed => Positions("block_stop") \cup Positions("message_stop") = {}
           /\ Closed => /\ Positions("block_stop") = {p + k : k \in 1..n}
                        /\ Positions("message_stop") = {Len(frames)}
                        /\ Positions("message_delta") = {Len(frames) - 1}
<1>1. /\ Len(out) \in Nat /\ DOMAIN out = 1..Len(out) /\ n \in Nat /\ Len(out) >= 1
      /\ \A i \in DOMAIN out : i \in DOMAIN frames /\ frames[i] = out[i]
      /\ out[1].type = "message_start"
      /\ \A i \in 2..Len(out) : out[i].type \in {"block_start", "block_delta"}
  BY DEF Framed, Tree
<1>2. \A i \in DOMAIN out : i # 1 => out[i].type \in {"block_start", "block_delta"}
  BY <1>1
<1>3. \A i \in Starts(out) \cup Deltas(out) : frames[i] = out[i] /\ i \in 1..Len(out)
  BY <1>1 DEF Starts, Deltas
<1>4. CASE ~Closed
  <2>1. DOMAIN frames = DOMAIN out /\ frames = out
    BY <1>4 DEF Framed
  <2>2. Positions("block_start") = Starts(out) /\ Positions("block_delta") = Deltas(out)
    BY <2>1 DEF Positions, Starts, Deltas
  <2>3. Positions("message_start") = {1}
    BY <1>1, <1>2, <2>1 DEF Positions
  <2>4. Positions("block_stop") \cup Positions("message_stop") = {}
    BY <1>1, <1>2, <2>1 DEF Positions
  <2> QED BY <1>3, <1>4, <2>2, <2>3, <2>4
<1>5. CASE Closed
  <2>1. /\ p \in Nat /\ Len(frames) = p + n + 2 /\ DOMAIN frames = 1..(p + n + 2)
        /\ \A i \in 1..n : frames[p + i].type = "block_stop"
        /\ frames[p + n + 1].type = "message_delta" /\ frames[p + n + 2].type = "message_stop"
        /\ Len(out) <= p
        /\ \A i \in 1..p : i \notin DOMAIN out => frames[i].type = "error"
    BY <1>5 DEF Framed, Stops
  <2>2. \A i \in DOMAIN frames : \/ i \in DOMAIN out
                                 \/ i \in 1..p /\ i \notin DOMAIN out
                                 \/ \E k \in 1..n : i = p + k
                                 \/ i = p + n + 1
                                 \/ i = p + n + 2
    <3> SUFFICES ASSUME NEW i \in 1..(p + n + 2), i > p, i # p + n + 1, i # p + n + 2
                 PROVE  \E k \in 1..n : i = p + k
      BY <2>1
    <3>1. i - p \in 1..n /\ i = p + (i - p)
      BY <1>1, <2>1
    <3> QED BY <3>1
  <2>3. \A i \in DOMAIN frames :
           /\ i \in DOMAIN out => frames[i] = out[i]
           /\ i \in 1..p /\ i \notin DOMAIN out => frames[i].type = "error"
           /\ (\E k \in 1..n : i = p + k) => frames[i].type = "block_stop"
           /\ i = p + n + 1 => frames[i].type = "message_delta"
           /\ i = p + n + 2 => frames[i].type = "message_stop"
    BY <1>1, <2>1
  <2>3a. \A i \in DOMAIN out :
            out[i].type \in {"message_start", "block_start", "block_delta"}
    BY <1>1, <1>2
  <2>3b. \A i \in DOMAIN frames :
            \/ frames[i].type \in {"message_start", "block_start", "block_delta", "error", "block_stop"}
            \/ i = p + n + 1 /\ frames[i].type = "message_delta"
            \/ i = p + n + 2 /\ frames[i].type = "message_stop"
    BY <2>2, <2>3, <2>3a
  <2>4. Positions("block_start") = Starts(out)
    BY <1>1, <2>2, <2>3 DEF Positions, Starts
  <2>5. Positions("block_delta") = Deltas(out)
    BY <1>1, <2>2, <2>3 DEF Positions, Deltas
  <2>6. Positions("message_start") = {1}
    BY <1>1, <1>2, <2>2, <2>3 DEF Positions
  <2>7. Positions("block_stop") = {p + k : k \in 1..n}
    <3>1. \A k \in 1..n : p + k \in DOMAIN frames
      BY <1>1, <2>1
    <3> QED BY <1>1, <1>2, <2>1, <2>2, <2>3, <3>1 DEF Positions
  <2>8. Positions("message_stop") = {Len(frames)}
    <3>1. p + n + 2 \in DOMAIN frames
      BY <1>1, <2>1
    <3> QED BY <2>1, <2>3b, <3>1 DEF Positions
  <2>9. Positions("message_delta") = {Len(frames) - 1}
    <3>1. p + n + 1 \in DOMAIN frames /\ Len(frames) - 1 = p + n + 1
      BY <1>1, <2>1
    <3> QED BY <2>1, <2>3b, <3>1 DEF Positions
  <2> QED BY <1>3, <1>5, <2>4, <2>5, <2>6, <2>7, <2>8, <2>9
<1> QED BY <1>4, <1>5

LEMMA TreeShows ==
    ASSUME NEW out, NEW n, NEW p, Tree(out, n), Framed(out, n, p) PROVE TreeIsWellFormed
<1>0. /\ Positions("block_start") = Starts(out) /\ Positions("block_delta") = Deltas(out)
      /\ Positions("message_start") = {1}
      /\ \A i \in Starts(out) \cup Deltas(out) : frames[i] = out[i] /\ i \in 1..Len(out)
      /\ ~Closed => Positions("block_stop") \cup Positions("message_stop") = {}
      /\ Closed => /\ Positions("block_stop") = {p + k : k \in 1..n}
                   /\ Positions("message_stop") = {Len(frames)}
                   /\ Positions("message_delta") = {Len(frames) - 1}
  BY FramesStand
<1>1. /\ n \in Nat
      /\ \A i \in Starts(out) : i \in Nat /\ out[i].index \in 0..(n - 1)
  BY StartsInOrder
<1>2. /\ Cardinality(Starts(out)) = n
      /\ \A i \in Starts(out) : Cardinality({j \in Starts(out) : j < i}) = out[i].index
  BY StartsCount
<1>3. PICK starts, stops, deltas :
         starts = Starts(out) /\ stops = Positions("block_stop") /\ deltas = Deltas(out)
  OBVIOUS
<1>4. \A i \in starts : frames[i].index = Cardinality({j \in starts : j < i})
  BY <1>0, <1>2, <1>3
<1>5. \A d \in deltas : \E i \in starts : i < d /\ frames[i].index = frames[d].index
  <2> SUFFICES ASSUME NEW d \in deltas PROVE \E i \in starts : i < d /\ frames[i].index = frames[d].index
    OBVIOUS
  <2>1. d \in DOMAIN out /\ out[d].type = "block_delta" /\ frames[d] = out[d]
    BY <1>0, <1>3 DEF Deltas
  <2>2. PICK j \in DOMAIN out : j < d /\ BeginsBlock(out[j], out[d].index)
    BY <2>1 DEF Tree
  <2>3. j \in starts /\ out[j].index = out[d].index
    BY <1>3, <2>2 DEF Starts, BeginsBlock
  <2> QED BY <1>0, <1>3, <2>1, <2>2, <2>3
<1>6. \A d \in deltas, s \in stops : d < s
  <2>1. CASE Closed
    <3>1. \A d \in deltas : d \in Nat /\ d <= Len(out)
      BY <1>0, <1>3
    <3>2. p \in Nat /\ Len(out) <= p /\ Len(out) \in Nat
      BY <2>1 DEF Framed, Stops
    <3>3. \A s \in stops : s \in Nat /\ s > p
      BY <1>0, <1>3, <2>1, <3>2
    <3> QED BY <3>1, <3>2, <3>3
  <2>2. CASE ~Closed
    BY <1>0, <1>3, <2>2
  <2> QED BY <2>1, <2>2
<1>7. ASSUME Closed
      PROVE  /\ \A i \in starts : Cardinality({s \in stops : frames[s].index = frames[i].index}) = 1
             /\ Cardinality(stops) = Cardinality(starts)
  <2>1. p \in Nat /\ stops = {p + k : k \in 1..n} /\ \A k \in 1..n : frames[p + k].index = n - k
    BY <1>0, <1>3, <1>7 DEF Framed, Stops
  <2>2. ASSUME NEW i \in starts
        PROVE  Cardinality({s \in stops : frames[s].index = frames[i].index}) = 1
    <3>1. PICK k : k = out[i].index
      OBVIOUS
    <3>2. k \in 0..(n - 1) /\ frames[i].index = k
      BY <1>0, <1>1, <1>3, <3>1
    <3>3. {s \in stops : frames[s].index = k} = {p + (n - k)}
      <4>1. \A s \in stops : frames[s].index = k => s = p + (n - k)
        <5> SUFFICES ASSUME NEW s \in stops, frames[s].index = k PROVE s = p + (n - k)
          OBVIOUS
        <5>1. PICK m \in 1..n : s = p + m
          BY <2>1
        <5>2. n - m = k
          BY <2>1, <5>1
        <5>3. m = n - k
          BY <1>1, <3>2, <5>2
        <5> QED BY <5>1, <5>3
      <4>2. n - k \in 1..n /\ n - (n - k) = k
        BY <1>1, <3>2
      <4>3. p + (n - k) \in stops /\ frames[p + (n - k)].index = k
        BY <2>1, <4>2
      <4> QED BY <4>1, <4>3
    <3> QED BY <3>2, <3>3, FS_Singleton
  <2>3. Cardinality(stops) = n
    <3>1. PICK g : g = [s \in stops |-> s - p - 1]
      OBVIOUS
    <3>2. \A s \in stops : g[s] \in 0..(n - 1)
      <4> SUFFICES ASSUME NEW k \in 1..n PROVE g[p + k] \in 0..(n - 1)
        BY <2>1
      <4>1. g[p + k] = (p + k) - p - 1
        BY <2>1, <3>1
      <4>2. (p + k) - p - 1 = k - 1
        BY <2>1
      <4> QED BY <1>1, <4>1, <4>2
    <3>3. \A s, t \in stops : g[s] = g[t] => s = t
      <4> SUFFICES ASSUME NEW k \in 1..n, NEW m \in 1..n, g[p + k] = g[p + m] PROVE p + k = p + m
        BY <2>1
      <4>1. g[p + k] = (p + k) - p - 1 /\ g[p + m] = (p + m) - p - 1
        BY <2>1, <3>1
      <4>2. (p + k) - p - 1 = k - 1 /\ (p + m) - p - 1 = m - 1
        BY <2>1
      <4>3. g[p + k] = g[p + m]
        OBVIOUS
      <4>4. k - 1 = m - 1
        BY <4>1, <4>2, <4>3
      <4> QED BY <4>4
    <3>4. \A m \in 0..(n - 1) : \E s \in stops : g[s] = m
      <4> SUFFICES ASSUME NEW m \in 0..(n - 1) PROVE \E s \in stops : g[s] = m
        OBVIOUS
      <4>1. m + 1 \in 1..n
        BY <1>1
      <4>2. p + (m + 1) \in stops
        BY <2>1, <4>1
      <4>3. g[p + (m + 1)] = (p + (m + 1)) - p - 1
        BY <3>1, <4>2
      <4>4. (p + (m + 1)) - p - 1 = m
        BY <2>1
      <4> QED BY <4>2, <4>3, <4>4
    <3>5. n \in Nat
      BY <1>1
    <3> QED BY ONLY <3>2, <3>3, <3>4, <3>5, NumberedAre
  <2> QED BY <1>2, <1>3, <2>2, <2>3
<1>8. starts = Positions("block_start") /\ stops = Positions("block_stop")
      /\ deltas = Positions("block_delta")
  BY <1>0, <1>3
<1>9. /\ Positions("message_start") = {1}
      /\ Closed => /\ Positions("message_stop") = {Len(frames)}
                   /\ Positions("message_delta") = {Len(frames) - 1}
      /\ ~Closed => stops \cup Positions("message_stop") = {}
  BY <1>0, <1>8
<1> QED BY <1>4, <1>5, <1>6, <1>7, <1>8, <1>9, Zenon DEF TreeIsWellFormed

\* What the client finds in a block.
LEMMA PartsAre ==
    ASSUME NEW out, NEW n, NEW p, Tree(out, n), Framed(out, n, p), NEW k
    PROVE  \A m : m \in PartsOf(k) <=> Within(out, k, m)
<1>1. Positions("block_delta") = Deltas(out) /\ \A i \in Deltas(out) : frames[i] = out[i]
  BY FramesStand
<1>2. \A m : m \in PartsOf(k) <=> \E i \in Deltas(out) : out[i].index = k /\ out[i].part = m
  BY <1>1 DEF PartsOf
<1> QED BY <1>2 DEF Deltas, Within, Part

\* Every block holds what was told for it.
Arrives(texts, calls, args) ==
    /\ texts # {} => PartsOf(NthBlock(FALSE, 0)) = texts
    /\ \A c \in 0..(calls - 1) : PartsOf(NthBlock(TRUE, c)) = args[c]

LEMMA BlockArrives ==
    ASSUME NEW n, NEW tx, NEW blocks, NEW out, NEW texts, NEW calls, NEW args, NEW p, calls \in Nat,
           Blocks(n, tx, blocks, out, texts, calls, args), Framed(out, n, p)
    PROVE  Arrives(texts, calls, args)
<1>0. Tree(out, n)
  BY DEF Blocks
<1>1. /\ \A i, j \in Starts(out) : out[i].index = out[j].index => i = j
      /\ \A k \in 0..(n - 1) : \E i \in Starts(out) : out[i].index = k
  BY <1>0, StartsInOrder
<1>2. Positions("block_start") = Starts(out) /\ \A i \in Starts(out) : frames[i] = out[i]
  BY <1>0, FramesStand
<1>3. \A i \in Starts(out) : out[i].tool = (out[i].index # tx)
  BY DEF Blocks, Starts
<1>4. ASSUME texts # {} PROVE PartsOf(NthBlock(FALSE, 0)) = texts
  <2>1. PICK m : m \in texts
    BY <1>4
  <2>2. Within(out, tx, m)
    BY <2>1 DEF Blocks
  <2>3. tx \in 0..(n - 1)
    BY <1>0, <2>2, NothingWithin
  <2>4. PICK i \in Starts(out) : out[i].index = tx
    BY <1>1, <2>3
  <2>5. {j \in Positions("block_start") : frames[j].tool = FALSE} = {i}
    <3>1. \A j \in Starts(out) : frames[j].tool = FALSE <=> out[j].index = tx
      BY <1>2, <1>3
    <3>2. \A j \in Starts(out) : out[j].index = tx <=> j = i
      BY <1>1, <2>4
    <3> QED BY <1>2, <2>4, <3>1, <3>2
  <2>6. NthBlock(FALSE, 0) = frames[CHOOSE j \in {i} : Cardinality({k \in {i} : k < j}) = 0].index
    BY <2>5 DEF NthBlock
  <2>7. {k \in {i} : k < i} = {}
    <3>1. i \in Nat
      BY <1>0, StartsInOrder
    <3> QED BY <3>1
  <2>8. Cardinality({k \in {i} : k < i}) = 0
    BY <2>7, FS_EmptySet
  <2>9. (CHOOSE j \in {i} : Cardinality({k \in {i} : k < j}) = 0) = i
    BY <2>8
  <2>10. NthBlock(FALSE, 0) = tx
    BY <1>2, <2>4, <2>6, <2>9
  <2>11. \A q : q \in PartsOf(tx) <=> Within(out, tx, q)
    BY <1>0, PartsAre
  <2>12. \A q : q \in texts <=> Within(out, tx, q)
    BY DEF Blocks
  <2> QED BY <2>10, <2>11, <2>12
<1>5. ASSUME NEW c \in 0..(calls - 1) PROVE PartsOf(NthBlock(TRUE, c)) = args[c]
  <2>0. ToolsStand(out, tx, calls)
    <3>1. Blocks(n, tx, blocks, out, texts, calls, args) /\ calls \in Nat
      OBVIOUS
    <3> QED BY ONLY <3>1, ToolsCount
  <2>1. /\ \A i \in Tools(out) : \E d \in 0..(calls - 1) : out[i].index = ToolAt(tx, d)
        /\ \E i \in Tools(out) : out[i].index = ToolAt(tx, c)
        /\ \A i \in Tools(out), d \in 0..(calls - 1) :
              out[i].index = ToolAt(tx, d) => Cardinality({j \in Tools(out) : j < i}) = d
    BY <2>0 DEF ToolsStand
  <2>2. PICK sort : sort = Tools(out)
    OBVIOUS
  <2>3. {j \in Positions("block_start") : frames[j].tool = TRUE} = sort
    BY <1>2, <2>2 DEF Tools
  <2>4. PICK i : i = CHOOSE x \in sort : Cardinality({j \in sort : j < x}) = c
    OBVIOUS
  <2>5. NthBlock(TRUE, c) = frames[i].index
    BY <2>3, <2>4 DEF NthBlock
  <2>6. i \in sort /\ Cardinality({j \in sort : j < i}) = c
    <3>1. \E x \in sort : Cardinality({j \in sort : j < x}) = c
      BY <2>1, <2>2
    <3> QED BY <2>4, <3>1
  <2>7. out[i].index = ToolAt(tx, c)
    BY <2>1, <2>2, <2>6
  <2>8. frames[i].index = ToolAt(tx, c)
    BY <1>2, <2>2, <2>6, <2>7 DEF Tools
  <2>9. \A q : q \in PartsOf(ToolAt(tx, c)) <=> Within(out, ToolAt(tx, c), q)
    BY <1>0, PartsAre
  <2>10. \A q : q \in args[c] <=> Within(out, ToolAt(tx, c), q)
    <3>1. c \in Nat /\ c < calls
      OBVIOUS
    <3> QED BY <3>1 DEF Blocks
  <2> QED BY <2>5, <2>8, <2>9, <2>10
<1> QED BY <1>4, <1>5 DEF Arrives

LEMMA AnthropicHears ==
    ASSUME AnswerInv, client = "anthropic" PROVE StreamIsWellFormed /\ AnswerArrives
<1>1. PICK f, out, p, texts, calls, args :
          /\ Blocks(f.nextIndex, f.textIndex, f.openToolBlocks, out, texts, calls, args)
          /\ Told(texts, calls, args) /\ Tells(translator, seen, texts, calls, args)
          /\ Framed(out, f.nextIndex, p)
  BY AnthropicSays
<1>2. PICK n, tx, blocks : n = f.nextIndex /\ tx = f.textIndex /\ blocks = f.openToolBlocks
  OBVIOUS
<1>3. Blocks(n, tx, blocks, out, texts, calls, args) /\ Framed(out, n, p) /\ calls \in Nat
      /\ Tree(out, n)
  BY <1>1, <1>2 DEF Told, Blocks
<1>4. TreeIsWellFormed
  BY <1>3, TreeShows
<1>5. Arrives(texts, calls, args)
  BY ONLY <1>3, BlockArrives
<1>6. texts = SentText
  BY <1>1 DEF Tells, TextsOf, SentText, Speaks
<1>7. wire # "gemini" => calls = CallsOpened(seen) /\ \A c \in Nat : args[c] = SentArgs(c)
  BY <1>1 DEF Tells, FragmentsOf, SentArgs
<1>8. wire # "gemini" => \A c \in 0..(CallsOpened(seen) - 1) : PartsOf(NthBlock(TRUE, c)) = SentArgs(c)
  <2> SUFFICES ASSUME wire # "gemini", NEW c \in 0..(CallsOpened(seen) - 1)
               PROVE  PartsOf(NthBlock(TRUE, c)) = SentArgs(c)
    OBVIOUS
  <2>1. calls = CallsOpened(seen) /\ c \in Nat
    BY <1>7
  <2>2. args[c] = SentArgs(c)
    BY <1>7, <2>1
  <2>3. c \in 0..(calls - 1)
    BY <2>1
  <2>4. PartsOf(NthBlock(TRUE, c)) = args[c]
    BY <1>5, <2>3 DEF Arrives
  <2> QED BY <2>2, <2>4
<1>9. AnswerArrives
  BY <1>5, <1>6, <1>8 DEF AnswerArrives, Arrives
<1> QED BY <1>4, <1>9 DEF StreamIsWellFormed

\* Whatever dialects meet and whatever a provider sends: the client's frames are
\* well-formed and end the stream once, every text and every fragment of a call reaches
\* it in its place, and what the loop ends is billed for the last report.
THEOREM TranslationAlwaysFaithful == StreamSpec => []TranslationIsFaithful
<1>1. StreamInv /\ AnswerInv => TranslationIsFaithful
  <2>1. AnswerInv => StreamIsWellFormed /\ AnswerArrives
    <3>1. AnswerInv => client \in Dialects
      BY DEF AnswerInv
    <3> QED BY <3>1, OpenaiHears, GeminiHears, AnthropicHears DEF Dialects
  <2> QED BY <2>1, BillIsLastReport DEF TranslationIsFaithful
<1> QED BY <1>1, AnswerAlways, PTL

(***************************************************************************)
(* RequestEdge.  The address the caller has is the one the first trusted   *)
(* proxy appended, because every proxy appends one; a sequence of bytes    *)
(* begins with the bits of another exactly where whole bytes are the same  *)
(* and the next has the same upper half; and a text that parses has the    *)
(* bytes it means.                                                         *)
(***************************************************************************)

LEMMA CallersAddress ==
    ASSUME NEW k \in Nat, NEW pre \in [1..k -> Machines \cup {Noise}], NEW n \in Nat \ {0}
    PROVE  GetClientIp(Forwarded(pre, n), n) = "caller"
<1> DEFINE tail == [i \in 1..n |-> IF i = 1 THEN "caller" ELSE "proxy"]
           xff == Forwarded(pre, n)
           parts == Parts(xff)
           Right(i) == Cardinality({j \in parts : j >= i})
           E == Machines \cup {Noise}
<1>1. /\ pre \in Seq(E) /\ Len(pre) = k
      /\ tail \in Seq(E) /\ Len(tail) = n /\ tail[1] = "caller"
      /\ \A i \in 1..n : tail[i] \in {"caller", "proxy"}
  BY DEF Machines
<1>2. xff = pre \o tail
  BY DEF Forwarded
<1> HIDE DEF tail, xff, E
<1>3. /\ xff \in Seq(E) /\ Len(xff) = k + n
      /\ \A i \in 1..(k + n) : xff[i] = IF i <= k THEN pre[i] ELSE tail[i - k]
  <2>1. /\ pre \o tail \in Seq(E) /\ Len(pre \o tail) = Len(pre) + Len(tail)
        /\ \A i \in 1..(Len(pre) + Len(tail)) :
             (pre \o tail)[i] = IF i <= Len(pre) THEN pre[i] ELSE tail[i - Len(pre)]
    <3>1. pre \in Seq(E) /\ tail \in Seq(E)
      BY <1>1
    <3> QED BY <3>1, ConcatProperties
  <2> QED BY <2>1, <1>1, <1>2
<1>4. DOMAIN xff = 1..(k + n)
  BY <1>3
<1>5. ASSUME NEW i \in (k + 1)..(k + n) PROVE xff[i] \in {"caller", "proxy"} /\ i \in 1..(k + n)
  <2>1. i \in 1..(k + n) /\ ~(i <= k) /\ i - k \in 1..n
    OBVIOUS
  <2> QED BY <2>1, <1>1, <1>3
<1>6. parts \subseteq 1..(k + n) /\ (k + 1)..(k + n) \subseteq parts
  BY <1>4, <1>5 DEF Parts, NormalizeIp, Noise
<1>7. xff[k + 1] = "caller" /\ k + 1 \in (k + 1)..(k + n)
  <2>1. k + 1 \in 1..(k + n) /\ ~(k + 1 <= k) /\ (k + 1) - k = 1
    OBVIOUS
  <2> QED BY <2>1, <1>1, <1>3
<1> DEFINE far == (k + 1)..(k + n)
<1>8. IsFiniteSet(parts) /\ IsFiniteSet(far) /\ Cardinality(far) = n
  <2>1. IsFiniteSet(1..(k + n))
    BY FS_Interval
  <2>2. IsFiniteSet(far) /\ Cardinality(far) = n
    <3>1. k + 1 \in Int /\ k + n \in Int /\ (k + n) - (k + 1) + 1 = n /\ ~(k + 1 > k + n)
      OBVIOUS
    <3> QED BY <3>1, FS_Interval
  <2>3. IsFiniteSet(parts)
    BY <1>6, <2>1, FS_Subset
  <2> QED BY <2>2, <2>3
<1> HIDE DEF parts
<1>9. Right(k + 1) = n
  <2>1. {j \in parts : j >= k + 1} = far
    <3>1. ASSUME NEW j \in far PROVE j \in parts /\ j >= k + 1
      BY <1>6
    <3>2. ASSUME NEW j \in parts, j >= k + 1 PROVE j \in far
      <4>1. j \in 1..(k + n)
        BY <1>6
      <4> QED BY <4>1, <3>2
    <3> HIDE DEF far
    <3> QED BY <3>1, <3>2
  <2> QED BY <2>1, <1>8
<1>10. ASSUME NEW i \in parts, i # k + 1 PROVE Right(i) # n
  <2> DEFINE later == {j \in parts : j >= i}
  <2>1. i \in 1..(k + n) /\ IsFiniteSet(later)
    BY <1>6, <1>8, FS_Subset
  <2>2. CASE i < k + 1
    <3>1. far \cup {i} \subseteq later /\ i \notin far
      BY <2>1, <2>2, <1>6
    <3>2. Cardinality(far \cup {i}) = n + 1
      BY <3>1, <1>8, FS_AddElement
    <3>3. Cardinality(far \cup {i}) <= Cardinality(later) /\ Cardinality(later) \in Nat
      BY <3>1, <2>1, FS_Subset, FS_CardinalityType
    <3> QED BY <3>2, <3>3
  <2>3. CASE i > k + 1
    <3>1. later \subseteq far \ {k + 1}
      <4>1. ASSUME NEW j \in later PROVE j \in far \ {k + 1}
        <5>1. j \in 1..(k + n) /\ j >= i
          BY <1>6
        <5> QED BY <5>1, <2>1, <2>3
      <4> QED BY <4>1
    <3>2. IsFiniteSet(far \ {k + 1}) /\ Cardinality(far \ {k + 1}) = n - 1
      <4> DEFINE x == k + 1
      <4>1. x \in far /\ IsFiniteSet(far)
        BY <1>7, <1>8
      <4> HIDE DEF far, x
      <4>2. IsFiniteSet(far \ {x}) /\ Cardinality(far \ {x}) = Cardinality(far) - 1
        BY <4>1, FS_RemoveElement
      <4> QED BY <4>2, <1>8 DEF x
    <3>3. Cardinality(later) <= n - 1 /\ Cardinality(later) \in Nat
      BY <3>1, <3>2, <2>1, FS_Subset, FS_CardinalityType
    <3> QED BY <3>3
  <2>4. i < k + 1 \/ i > k + 1
    BY <2>1, <1>10
  <2> QED BY <2>2, <2>3, <2>4
<1>11. Cardinality(parts) >= n /\ Cardinality(parts) \in Nat
  BY <1>6, <1>8, FS_Subset, FS_CardinalityType
<1>12. parts # {} /\ k + 1 \in parts
  BY <1>6, <1>7
<1> DEFINE back == IF n > 1 THEN n ELSE 1
           index == IF Cardinality(parts) > back THEN back ELSE Cardinality(parts)
<1>13. index = n
  BY <1>11
<1> HIDE DEF index, back
<1>14. (CHOOSE i \in parts : Right(i) = index) = k + 1
  BY <1>9, <1>10, <1>12, <1>13
<1>15. GetClientIp(xff, n) = xff[CHOOSE i \in parts : Right(i) = index]
  BY <1>12 DEF GetClientIp, parts, index, back
<1> QED BY <1>7, <1>14, <1>15 DEF xff

-----------------------------------------------------------------------------
LEMMA FirstPlace ==
    ASSUME NEW n \in Nat, NEW T, T \subseteq 1..n, T # {}
    PROVE  First(T) \in T /\ \A j \in T : First(T) <= j
<1>1. T \subseteq 0..n
  OBVIOUS
<1>2. \E i \in T : \A j \in T : i <= j
  BY <1>1, LeastNumber
<1> QED BY <1>2 DEF First

LEMMA CredentialIntended ==
    ASSUME NEW held \in [{Places[i] : i \in DOMAIN Places} -> Holdings],
           NEW offered \in Offers(held["websocket"])
    PROVE  LET key == ExtractCredential(held)
           IN  /\ RealtimeAcceptProtocol(offered) # "key"
               /\ key = "none" => \A p \in DOMAIN held : held[p] # "key"
               /\ key # "none" =>
                    \A i, j \in DOMAIN Places :
                       Places[j] = key /\ i < j => held[Places[i]] # "key"
<1>1. DOMAIN Places = 1..7
  BY DEF Places
<1>2. \A i, j \in 1..7 : Places[i] = Places[j] => i = j
  BY DEF Places
<1>3. \A i \in 1..7 : Places[i] # "none"
  BY DEF Places
<1> DEFINE full == {i \in DOMAIN Places : held[Places[i]] = "key"}
           key == ExtractCredential(held)
<1>4. RealtimeAcceptProtocol(offered) # "key"
  <2> DEFINE plain == {i \in DOMAIN offered : offered[i] # "key"}
  <2>1. Len(offered) \in Nat /\ DOMAIN offered = 1..Len(offered)
    BY DEF Offers
  <2>2. plain # {} => First(plain) \in plain
    <3>1. plain \subseteq 1..Len(offered)
      BY <2>1
    <3> HIDE DEF plain
    <3> QED BY <2>1, <3>1, FirstPlace
  <2>3. plain # {} => offered[First(plain)] # "key"
    BY <2>2
  <2> QED BY <2>3, EdgeAssumption DEF RealtimeAcceptProtocol
<1>5. CASE full = {}
  <2>1. key = "none"
    BY <1>5 DEF ExtractCredential
  <2>2. ASSUME NEW p \in DOMAIN held PROVE held[p] # "key"
    BY <1>5
  <2> QED BY <2>1, <2>2, <1>4
<1>6. CASE full # {}
  <2>1. key = Places[First(full)]
    BY <1>6 DEF ExtractCredential
  <2>2. full \subseteq 1..7
    BY <1>1
  <2> HIDE DEF full, key
  <2>3. First(full) \in full /\ \A j \in full : First(full) <= j
    BY <2>2, <1>6, FirstPlace
  <2>4. key # "none"
    BY <2>1, <2>2, <2>3, <1>3
  <2>5. ASSUME NEW i \in 1..7, NEW j \in 1..7, Places[j] = key, i < j
        PROVE  held[Places[i]] # "key"
    <3>1. j = First(full)
      BY <2>1, <2>2, <2>3, <2>5, <1>2
    <3>2. i \notin full
      BY <3>1, <2>3, <2>5, <2>2
    <3> QED BY <3>2, <1>1 DEF full
  <2> QED BY <2>4, <2>5, <1>1, <1>4 DEF key
<1> QED BY <1>5, <1>6

-----------------------------------------------------------------------------
\* A byte is its two bits, and its upper half the first.
LEMMA BitsOfByte ==
    ASSUME NEW x \in Byte, NEW y \in Byte
    PROVE  /\ x = y <=> Bit(x, 1) = Bit(y, 1) /\ Bit(x, 2) = Bit(y, 2)
           /\ x \div 2 = y \div 2 <=> Bit(x, 1) = Bit(y, 1)
<1>1. /\ Bit(0, 1) = 0 /\ Bit(0, 2) = 0 /\ Bit(1, 1) = 0 /\ Bit(1, 2) = 1
      /\ Bit(2, 1) = 1 /\ Bit(2, 2) = 0 /\ Bit(3, 1) = 1 /\ Bit(3, 2) = 1
  BY DEF Bit, Power, ByteBits
<1>2. 0 \div 2 = 0 /\ 1 \div 2 = 0 /\ 2 \div 2 = 1 /\ 3 \div 2 = 1
  OBVIOUS
<1>3. x \in {0, 1, 2, 3} /\ y \in {0, 1, 2, 3}
  BY DEF Byte
<1> QED BY <1>1, <1>2, <1>3

\* The i-th bit of a sequence of bytes.
BitOf(b, i) == Bit(b[((i - 1) \div 2) + 1], ((i - 1) % 2) + 1)

\* The first n bits are the bytes they fill and the upper half of the next.
LEMMA PrefixByBytes ==
    ASSUME NEW L \in Nat, NEW b \in Seq(Byte), NEW c \in Seq(Byte), Len(b) = L, Len(c) = L,
           NEW n \in 0..(2 * L)
    PROVE  (\A i \in 1..n : BitOf(b, i) = BitOf(c, i)) <=>
              /\ \A i \in 1..(n \div 2) : c[i] = b[i]
              /\ n % 2 = 0 \/ c[(n \div 2) + 1] \div 2 = b[(n \div 2) + 1] \div 2
<1> DEFINE f == n \div 2
           r == n % 2
<1>1. f \in Nat /\ r \in 0..1 /\ n = 2 * f + r /\ f <= L /\ (r = 1 => f + 1 <= L)
  OBVIOUS
<1>2. \A i \in 1..L : b[i] \in Byte /\ c[i] \in Byte
  OBVIOUS
<1> HIDE DEF f, r
<1>3. ASSUME NEW i \in 1..L
      PROVE  /\ BitOf(b, 2 * i - 1) = Bit(b[i], 1) /\ BitOf(b, 2 * i) = Bit(b[i], 2)
             /\ BitOf(c, 2 * i - 1) = Bit(c[i], 1) /\ BitOf(c, 2 * i) = Bit(c[i], 2)
  <2>1. /\ (((2 * i - 1) - 1) \div 2) + 1 = i /\ (((2 * i - 1) - 1) % 2) + 1 = 1
        /\ ((2 * i - 1) \div 2) + 1 = i /\ ((2 * i - 1) % 2) + 1 = 2
    OBVIOUS
  <2> QED BY <2>1 DEF BitOf
<1>4. ASSUME \A i \in 1..n : BitOf(b, i) = BitOf(c, i)
      PROVE  /\ \A i \in 1..f : c[i] = b[i]
             /\ r = 0 \/ c[f + 1] \div 2 = b[f + 1] \div 2
  <2>1. ASSUME NEW i \in 1..f PROVE c[i] = b[i]
    <3>1. i \in 1..L /\ 2 * i - 1 \in 1..n /\ 2 * i \in 1..n
      BY <1>1
    <3>2. Bit(b[i], 1) = Bit(c[i], 1) /\ Bit(b[i], 2) = Bit(c[i], 2)
      BY <3>1, <1>3, <1>4
    <3> QED BY <3>1, <3>2, <1>2, BitsOfByte
  <2>2. ASSUME r = 1 PROVE c[f + 1] \div 2 = b[f + 1] \div 2
    <3>1. f + 1 \in 1..L /\ 2 * (f + 1) - 1 \in 1..n
      BY <1>1, <2>2
    <3>2. Bit(b[f + 1], 1) = Bit(c[f + 1], 1)
      BY <3>1, <1>3, <1>4
    <3> QED BY <3>1, <3>2, <1>2, BitsOfByte
  <2> QED BY <2>1, <2>2, <1>1
<1>5. ASSUME \A i \in 1..f : c[i] = b[i], r = 0 \/ c[f + 1] \div 2 = b[f + 1] \div 2,
             NEW i \in 1..n
      PROVE  BitOf(b, i) = BitOf(c, i)
  <2> DEFINE q == ((i - 1) \div 2) + 1
  <2>1. q \in 1..(f + r) /\ (q = f + 1 => r = 1 /\ ((i - 1) % 2) + 1 = 1) /\ q \in Nat
    BY <1>1
  <2>2. BitOf(b, i) = Bit(b[q], ((i - 1) % 2) + 1) /\ BitOf(c, i) = Bit(c[q], ((i - 1) % 2) + 1)
    BY DEF BitOf
  <2> HIDE DEF q
  <2>3. CASE q \in 1..f
    BY <2>2, <2>3, <1>5
  <2>4. CASE q = f + 1
    <3>1. r = 1 /\ ((i - 1) % 2) + 1 = 1 /\ f + 1 \in 1..L
      BY <2>1, <2>4, <1>1
    <3>2. c[f + 1] \div 2 = b[f + 1] \div 2
      BY <3>1, <1>5
    <3>3. Bit(b[f + 1], 1) = Bit(c[f + 1], 1)
      BY <3>1, <3>2, <1>2, BitsOfByte
    <3> QED BY <2>2, <2>4, <3>1, <3>3
  <2> QED BY <2>1, <2>3, <2>4, <1>1
<1> QED BY <1>4, <1>5 DEF f, r

\* The dotted part of a text is two bytes.
LEMMA DottedIsBytes ==
    ASSUME NEW d \in {<<>>} \cup (Byte \X Byte), d # <<>>
    PROVE  d \in Seq(Byte) /\ Len(d) = 2
<1>1. PICK x \in Byte, y \in Byte : d = <<x, y>>
  OBVIOUS
<1> QED BY <1>1

\* A text that parses gives the bytes it means.
LEMMA ParsedIsMeant ==
    ASSUME NEW text \in AddressTexts
    PROVE  /\ Legal(text) => /\ IpToBytes(text) = Denoted(text)
                             /\ Denoted(text) \in Seq(Byte) /\ Len(Denoted(text)) \in {2, 4}
           /\ ~Legal(text) => IpToBytes(text) = Unknown
<1> DEFINE v6 == ParseIpv6(text)
           h == Spelt(text.head)
           t == Spelt(text.tail)
<1>1. CASE text.v4 # <<>>
  <2>1. text.v4 \in {<<>>} \cup (Byte \X Byte)
    BY DEF AddressTexts
  <2>2. text.v4 \in Seq(Byte) /\ Len(text.v4) = 2
    BY <1>1, <2>1, DottedIsBytes
  <2> QED BY <1>1, <2>2 DEF Legal, IpToBytes, Denoted
<1>2. CASE text.v4 = <<>> /\ v6 = Unknown
  BY <1>2 DEF Legal, IpToBytes
<1>3. CASE text.v4 = <<>> /\ v6 # Unknown
  <2>1. ASSUME NEW side \in Sides PROVE Spelt(side) \in Seq(Byte)
    <3>1. side.groups \in Seq(Byte) /\ side.dotted \in {<<>>} \cup (Byte \X Byte)
      BY DEF Sides
    <3>2. side.dotted \in Seq(Byte)
      <4>1. CASE side.dotted = <<>>
        BY <4>1
      <4>2. CASE side.dotted # <<>>
        BY <3>1, <4>2, DottedIsBytes
      <4> QED BY <4>1, <4>2
    <3> QED BY <3>1, <3>2, ConcatProperties DEF Spelt
  <2>2. h \in Seq(Byte) /\ t \in Seq(Byte)
    BY <2>1 DEF AddressTexts
  <2>3. EmitGroups(text.head) \in {h, Unknown} /\ EmitGroups(text.tail) \in {t, Unknown}
    BY DEF EmitGroups, Spelt
  <2>4. EmitGroups(text.head) = h /\ EmitGroups(text.tail) = t
    BY <2>3, <1>3 DEF ParseIpv6
  <2>5. v6 = IF ~text.compressed THEN IF Len(h) = 4 /\ t = <<>> THEN h ELSE Unknown
             ELSE IF Len(h) + Len(t) > 3 THEN Unknown
             ELSE h \o [i \in 1..(4 - Len(h) - Len(t)) |-> 0] \o t
    BY <2>2, <2>4, EdgeAssumption DEF ParseIpv6
  <2>6. Len(h) \in Nat /\ Len(t) \in Nat
    BY <2>2
  <2>7. v6 \in Seq(Byte) /\ Len(v6) = 4 /\ \A i \in 1..4 : v6[i] = Long(text)[i]
    <3> HIDE DEF h, t, v6
    <3>0. \A i \in 1..4 : Long(text)[i] =
             IF i <= Len(h) THEN h[i] ELSE IF i > 4 - Len(t) THEN t[i - (4 - Len(t))] ELSE 0
      BY DEF Long, h, t
    <3>1. CASE ~text.compressed
      <4>1. Len(h) = 4 /\ v6 = h
        BY <3>1, <2>5, <1>3
      <4> QED BY <4>1, <3>0, <2>2
    <3>2. CASE text.compressed
      <4> DEFINE z == 4 - Len(h) - Len(t)
                 zeros == [i \in 1..z |-> 0]
                 front == h \o zeros
      <4>1. Len(h) + Len(t) <= 3 /\ v6 = front \o t
        BY <3>2, <2>5, <2>6, <1>3
      <4>2. z \in Nat /\ zeros \in Seq(Byte) /\ Len(zeros) = z /\ \A i \in 1..z : zeros[i] = 0
        BY <4>1, <2>6 DEF Byte
      <4> HIDE DEF z, zeros
      <4>3. /\ front \in Seq(Byte) /\ Len(front) = Len(h) + z
            /\ \A i \in 1..(Len(h) + z) : front[i] = IF i <= Len(h) THEN h[i] ELSE zeros[i - Len(h)]
        BY <4>2, <2>2, ConcatProperties
      <4> HIDE DEF front
      <4>4. /\ front \o t \in Seq(Byte) /\ Len(front \o t) = Len(front) + Len(t)
            /\ \A i \in 1..(Len(front) + Len(t)) :
                 (front \o t)[i] = IF i <= Len(front) THEN front[i] ELSE t[i - Len(front)]
        BY <4>3, <2>2, ConcatProperties
      <4>5. Len(front) = 4 - Len(t) /\ Len(front) + Len(t) = 4
        BY <4>1, <4>3, <2>6 DEF z
      <4>6. ASSUME NEW i \in 1..4 PROVE v6[i] = Long(text)[i]
        <5>1. CASE i <= Len(h)
          <6>1. i \in 1..(Len(h) + z) /\ i <= Len(front)
            BY <5>1, <4>2, <4>3, <2>6
          <6> QED BY <5>1, <6>1, <4>1, <4>3, <4>4, <4>5, <3>0
        <5>2. CASE ~(i <= Len(h)) /\ i <= Len(front)
          <6>1. i \in 1..(Len(h) + z) /\ i - Len(h) \in 1..z /\ ~(i > 4 - Len(t))
            BY <5>2, <4>2, <4>3, <4>5, <2>6
          <6> QED BY <5>2, <6>1, <4>1, <4>2, <4>3, <4>4, <4>5, <3>0
        <5>3. CASE ~(i <= Len(front))
          <6>1. ~(i <= Len(h)) /\ i > 4 - Len(t)
            BY <5>3, <4>1, <4>5, <2>6
          <6> QED BY <5>3, <6>1, <4>1, <4>4, <4>5, <3>0
        <5> QED BY <5>1, <5>2, <5>3
      <4> QED BY <4>1, <4>4, <4>5, <4>6
    <3> QED BY <3>1, <3>2
  <2> HIDE DEF h, t, v6
  <2>8. Long(text) = v6
    BY <2>7 DEF Long
  <2>9. v6[1] \in Byte /\ v6[2] \in Byte /\ v6[3] \in Byte /\ v6[4] \in Byte
    <3>1. ASSUME NEW i \in 1..4 PROVE v6[i] \in Byte
      BY <2>7, ElementOfSeq
    <3> QED BY <3>1
  <2>10. <<v6[3], v6[4]>> \in Seq(Byte) /\ Len(<<v6[3], v6[4]>>) = 2
    BY <2>9
  <2>11. IpToBytes(text) = IF v6[1] = 0 /\ v6[2] = 3 THEN <<v6[3], v6[4]>> ELSE v6
    BY <1>3 DEF IpToBytes, v6
  <2>12. Denoted(text) = IF v6[1] = 0 /\ v6[2] = 3 THEN <<v6[3], v6[4]>> ELSE v6
    BY <1>3, <2>8 DEF Denoted
  <2>13. Legal(text)
    BY <1>3 DEF Legal, v6
  <2> QED BY <2>7, <2>10, <2>11, <2>12, <2>13
<1> QED BY <1>1, <1>2, <1>3

LEMMA RuleByPrefix ==
    ASSUME NEW rule, rule.text \in AddressTexts, rule.bits \in Nat, NEW text \in AddressTexts
    PROVE  CidrContains(rule, text) <=>
             /\ Legal(rule.text) /\ Legal(text)
             /\ Len(Bits(rule.text)) = Len(Bits(text))
             /\ rule.bits <= Len(Bits(rule.text))
             /\ \A i \in 1..rule.bits : Bits(rule.text)[i] = Bits(text)[i]
<1> DEFINE b == Denoted(rule.text)
           c == Denoted(text)
           n == rule.bits
           cidr == ParseCidr(rule)
<1>1. CASE ~Legal(rule.text)
  <2>1. cidr = Unknown
    BY <1>1, ParsedIsMeant DEF ParseCidr
  <2> QED BY <1>1, <2>1 DEF CidrContains
<1>2. CASE ~Legal(text)
  <2>1. IpToBytes(text) = Unknown
    BY <1>2, ParsedIsMeant
  <2> QED BY <1>2, <2>1 DEF CidrContains
<1>3. CASE Legal(rule.text) /\ Legal(text)
  <2>1. /\ IpToBytes(rule.text) = b /\ b \in Seq(Byte) /\ Len(b) \in {2, 4}
        /\ IpToBytes(text) = c /\ c \in Seq(Byte) /\ Len(c) \in {2, 4}
    BY <1>3, ParsedIsMeant
  <2>2. b # Unknown /\ c # Unknown
    BY <2>1, EdgeAssumption
  <2>3. /\ Bits(rule.text) = [i \in 1..(2 * Len(b)) |-> BitOf(b, i)]
        /\ Bits(text) = [i \in 1..(2 * Len(c)) |-> BitOf(c, i)]
    BY DEF Bits, BitOf, ByteBits
  <2> HIDE DEF b, c, cidr
  <2>4. /\ Len(Bits(rule.text)) = 2 * Len(b) /\ Len(Bits(text)) = 2 * Len(c)
        /\ \A i \in 1..(2 * Len(b)) : Bits(rule.text)[i] = BitOf(b, i)
        /\ \A i \in 1..(2 * Len(c)) : Bits(text)[i] = BitOf(c, i)
    BY <2>1, <2>3
  <2>5. CASE n > 2 * Len(b)
    <3>1. cidr = Unknown
      BY <2>1, <2>5 DEF ParseCidr, ByteBits, cidr
    <3>2. ~CidrContains(rule, text)
      BY <3>1 DEF CidrContains, cidr
    <3>3. ~(n <= 2 * Len(b))
      BY <2>1, <2>5
    <3> QED BY <3>2, <3>3, <2>4
  <2>6. CASE ~(n > 2 * Len(b)) /\ Len(c) # Len(b)
    <3>1. cidr = [bytes |-> b, bits |-> n]
      BY <2>1, <2>2, <2>6 DEF ParseCidr, ByteBits, cidr
    <3>2. ~CidrContains(rule, text)
      BY <3>1, <2>1, <2>6 DEF CidrContains, cidr
    <3>3. 2 * Len(b) # 2 * Len(c)
      BY <2>1, <2>6
    <3> QED BY <3>2, <3>3, <2>4
  <2>7. CASE ~(n > 2 * Len(b)) /\ Len(c) = Len(b)
    <3>1. cidr = [bytes |-> b, bits |-> n]
      BY <2>1, <2>2, <2>7 DEF ParseCidr, ByteBits, cidr
    <3>2. cidr # Unknown /\ cidr.bytes = b /\ cidr.bits = n
      BY <3>1, <2>1, EdgeAssumption
    <3>3. Power(2 - (n % 2)) = IF n % 2 = 0 THEN 4 ELSE 2
      BY DEF Power
    <3>4. CidrContains(rule, text) <=>
            /\ \A i \in 1..(n \div 2) : c[i] = b[i]
            /\ n % 2 = 0 \/ c[(n \div 2) + 1] \div 2 = b[(n \div 2) + 1] \div 2
      BY <3>2, <3>3, <2>1, <2>2, <2>7 DEF CidrContains, ByteBits, cidr
    <3>5. Len(b) \in Nat /\ n \in 0..(2 * Len(b))
      BY <2>1, <2>7
    <3>6. (\A i \in 1..n : BitOf(b, i) = BitOf(c, i)) <=> CidrContains(rule, text)
      <4>1. (\A i \in 1..n : BitOf(b, i) = BitOf(c, i)) <=>
               /\ \A i \in 1..(n \div 2) : c[i] = b[i]
               /\ n % 2 = 0 \/ c[(n \div 2) + 1] \div 2 = b[(n \div 2) + 1] \div 2
        <5> HIDE DEF n
        <5> QED BY <3>5, <2>1, <2>7, PrefixByBytes
      <4> QED BY <4>1, <3>4
    <3>7. (\A i \in 1..n : Bits(rule.text)[i] = Bits(text)[i]) <=>
          (\A i \in 1..n : BitOf(b, i) = BitOf(c, i))
      <4>1. \A i \in 1..n : i \in 1..(2 * Len(b)) /\ i \in 1..(2 * Len(c))
        BY <3>5, <2>7
      <4> QED BY <4>1, <2>4
    <3>8. n <= 2 * Len(b) /\ 2 * Len(b) = 2 * Len(c)
      BY <3>5, <2>7
    <3> QED BY <3>6, <3>7, <3>8, <2>4, <1>3
  <2> QED BY <2>5, <2>6, <2>7
<1> QED BY <1>1, <1>2, <1>3

-----------------------------------------------------------------------------
LEMMA AnswerIsHonest ==
    ASSUME NEW fault \in Faults, NEW dialect \in ClientDialects
    PROVE  LET told == Answer(fault, dialect)
           IN  /\ told.status \in (400..599) \ {499}
               /\ told.advice \in {"key", "permission"} => fault.thrown \in {"badKey", "forbidden"}
               /\ told.retried => fault.upstream \in UpstreamStatuses \ {200, 408, 499, 504, 524}
<1> DEFINE error == ErrorOf(fault)
           told == Answer(fault, dialect)
<1>1. CASE fault.upstream = Unknown /\ fault.thrown \in Thrown
  <2>1. StatusOf(fault.thrown) \in {400, 401, 402, 403, 408, 413, 429, 499, 500, 502, 503, 504}
    BY <1>1 DEF StatusOf, Thrown
  <2>2. StatusOf(fault.thrown) \in {401, 403} => fault.thrown \in {"badKey", "forbidden"}
    BY <1>1 DEF StatusOf, Thrown
  <2>3. error.status = StatusOf(fault.thrown) /\ error.upstream = Unknown /\ error.retryable = FALSE
    BY <1>1 DEF ErrorOf
  <2>4. ~ShouldRetryError(error)
    BY <2>3 DEF ShouldRetryError
  <2>5. AdviceOf(error.status, dialect) \in {"key", "permission"} => error.status \in {401, 403}
    BY DEF AdviceOf
  <2> HIDE DEF error
  <2> QED BY <2>1, <2>2, <2>3, <2>4, <2>5 DEF Answer, error
<1>2. CASE fault.upstream \in UpstreamStatuses
  <2> DEFINE s == fault.upstream
  <2>1. s # Unknown /\ s \in 100..599
    BY <1>2, EdgeAssumption
  <2>2. /\ error.status = NormalizeUpstreamStatus(s) /\ error.upstream = s
        /\ error.malformed = FALSE
    BY <2>1 DEF ErrorOf
  <2>3. NormalizeUpstreamStatus(s) \in (400..599) \ {401, 403}
    BY <2>1 DEF NormalizeUpstreamStatus
  <2>4. ShouldRetryError(error) => s \notin {200, 408, 499, 504, 524}
    BY <2>1, <2>2 DEF ShouldRetryError, IsRetryableStatus, NormalizeUpstreamStatus
  <2>5. AdviceOf(error.status, dialect) \in {"key", "permission"} => error.status \in {401, 403}
    BY DEF AdviceOf
  <2> HIDE DEF error
  <2> QED BY <1>2, <2>2, <2>3, <2>4, <2>5 DEF Answer, error
<1> QED BY <1>1, <1>2 DEF Faults

-----------------------------------------------------------------------------
\* What was made of the subject is what the function makes of it.
EdgeInv ==
    /\ task \in DOMAIN Subjects /\ subject \in Subjects[task]
    /\ outcome # Unknown =>
         \/ task = "address" /\ outcome = GetClientIp(subject.xff, subject.hops)
         \/ task = "credential" /\ outcome = [key |-> ExtractCredential(subject.held),
                                              echoed |-> RealtimeAcceptProtocol(subject.offered)]
         \/ task = "rule" /\ outcome = [matched |-> MatchesAnyCidr(subject.rules, subject.text)]
         \/ task = "failure" /\ outcome = Answer(subject.fault, subject.dialect)

LEMMA EdgeInvHolds == EdgeSpec => []EdgeInv
<1>1. EdgeInit => EdgeInv
  BY DEF EdgeInit, EdgeInv
<1>2. EdgeInv /\ [EdgeNext]_edgeVars => EdgeInv'
  BY DEF EdgeInv, EdgeNext, ReadAddress, ReadCredential, MatchRules, Explain, edgeVars
<1> QED BY <1>1, <1>2, PTL DEF EdgeSpec

\* Behind any number of proxies the address is the caller's whatever the caller
\* prepended (getClientIp); a key in an earlier place wins and is never echoed
\* (auth/extract.ts); a rule matches the addresses that begin with its bits, in
\* whatever form either is written (auth/cidr.ts); a failure is told truthfully
\* whatever status a provider answered with (http/errors.ts).
THEOREM EdgeStaysExact == EdgeSpec => []EdgeIsExact
<1>1. EdgeInv => AddressIsTheCallers
  <2> SUFFICES ASSUME EdgeInv, task = "address", outcome # Unknown PROVE outcome = "caller"
    BY DEF AddressIsTheCallers, Done
  <2>1. subject \in Subjects.address /\ outcome = GetClientIp(subject.xff, subject.hops)
    BY DEF EdgeInv
  <2>2. PICK pre \in UNION {[1..k -> Machines \cup {Noise}] : k \in 0..MaxPrepended},
             n \in 1..MaxProxies : subject = [xff |-> Forwarded(pre, n), hops |-> n]
    BY <2>1 DEF Subjects
  <2>3. PICK k \in 0..MaxPrepended : pre \in [1..k -> Machines \cup {Noise}]
    OBVIOUS
  <2>4. k \in Nat /\ n \in Nat \ {0}
    BY EdgeAssumption
  <2> QED BY <2>1, <2>2, <2>3, <2>4, CallersAddress
<1>2. EdgeInv => KeyIsTheIntended
  <2> SUFFICES ASSUME EdgeInv, task = "credential", outcome # Unknown PROVE KeyIsTheIntended
    BY DEF KeyIsTheIntended, Done
  <2>1. /\ subject \in Subjects.credential
        /\ outcome = [key |-> ExtractCredential(subject.held),
                      echoed |-> RealtimeAcceptProtocol(subject.offered)]
    BY DEF EdgeInv
  <2> DEFINE Filled == [{Places[i] : i \in DOMAIN Places} -> Holdings]
             Known(held) == {[held |-> held, offered |-> offered] :
                               offered \in Offers(held["websocket"])}
  <2>2. PICK held \in Filled :
          \E offered \in Offers(held["websocket"]) : subject = [held |-> held, offered |-> offered]
    <3>1. Subjects.credential = UNION {Known(held) : held \in Filled}
      BY DEF Subjects
    <3> HIDE DEF Filled
    <3>2. PICK held \in Filled : subject \in Known(held)
      BY <2>1, <3>1
    <3> QED BY <3>2
  <2>3. PICK offered \in Offers(held["websocket"]) : subject = [held |-> held, offered |-> offered]
    BY <2>2
  <2>4. /\ outcome.key = ExtractCredential(held) /\ outcome.echoed = RealtimeAcceptProtocol(offered)
        /\ subject.held = held
    BY <2>1, <2>3
  <2> QED BY <2>4, CredentialIntended DEF KeyIsTheIntended
<1>3. EdgeInv => RulesMatchPrefixes
  <2> SUFFICES ASSUME EdgeInv, task = "rule", outcome # Unknown PROVE RulesMatchPrefixes
    BY DEF RulesMatchPrefixes, Done
  <2>1. /\ subject \in Subjects.rule
        /\ outcome = [matched |-> MatchesAnyCidr(subject.rules, subject.text)]
    BY DEF EdgeInv
  <2>2. PICK t \in Texts, b \in 0..9, ip \in Texts :
          subject = [rules |-> {[text |-> t, bits |-> b]}, text |-> ip]
    BY <2>1 DEF Subjects
  <2> DEFINE rule == [text |-> t, bits |-> b]
  <2>3. t \in AddressTexts /\ ip \in AddressTexts /\ b \in Nat
    BY EdgeAssumption
  <2>4. subject.rules = {rule} /\ subject.text = ip /\ rule.text = t /\ rule.bits = b
    BY <2>2
  <2> HIDE DEF rule
  <2>5. outcome.matched <=> CidrContains(rule, ip)
    BY <2>1, <2>4 DEF MatchesAnyCidr
  <2>6. CidrContains(rule, ip) <=>
           /\ Legal(rule.text) /\ Legal(ip)
           /\ Len(Bits(rule.text)) = Len(Bits(ip))
           /\ rule.bits <= Len(Bits(rule.text))
           /\ \A i \in 1..rule.bits : Bits(rule.text)[i] = Bits(ip)[i]
    BY <2>3, <2>4, RuleByPrefix
  <2> QED BY <2>4, <2>5, <2>6 DEF RulesMatchPrefixes
<1>4. EdgeInv => FailuresAreHonest
  <2> SUFFICES ASSUME EdgeInv, task = "failure", outcome # Unknown PROVE FailuresAreHonest
    BY DEF FailuresAreHonest, Done
  <2>1. subject.fault \in Faults /\ subject.dialect \in ClientDialects
        /\ outcome = Answer(subject.fault, subject.dialect)
    BY DEF EdgeInv, Subjects
  <2> QED BY <2>1, AnswerIsHonest DEF FailuresAreHonest
<1> QED BY <1>1, <1>2, <1>3, <1>4, EdgeInvHolds, PTL DEF EdgeIsExact
=============================================================================
