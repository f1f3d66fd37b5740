---------------------------- MODULE SchedulerSetup ----------------------------
(***************************************************************************)
(* Provisioning the maintenance jobs at cron-job.org                       *)
(* (src/lib/setup/cron-job-org.ts): setups started by several operators    *)
(* over one account of the provider, under a lease that expires, with      *)
(* answers that get lost, instances that die or stall, and an owner who    *)
(* changes the account meanwhile.                                          *)
(*                                                                         *)
(* The provider is external: it has applied a request, or never will, by   *)
(* the time the request is answered or given up.                           *)
(***************************************************************************)
EXTENDS Naturals, FiniteSets, FiniteSetsExt

CONSTANTS
    Setups,         \* invocations of the setup
    MaxSetupClock,  \* bound: the clock
    MaxOwnerEdits,  \* bound: changes the owner of the account makes
    NoLease         \* a model value: no lease, no record, no job, no list

ASSUME SetupAssumption ==
    /\ MaxSetupClock \in Nat /\ MaxOwnerEdits \in Nat
    /\ NoLease \notin [owner : Setups, until : Nat]

VARIABLES
    hour,        \* the clock
    lease,       \* setup_leases: who owns the one lease, and until when
    setupState,  \* setup_state: the jobs of the last setup that finished
    jobs,        \* the provider's jobs: [id, name, ours, saved]
    made,        \* ids of jobs so far, the next one is Cardinality(made) + 1
    setups,      \* where each invocation is
    ownerEdits

setupVars == <<hour, lease, setupState, jobs, made, setups, ownerEdits>>

JobNames == {"flush-usage", "poll-tasks"}     \* two of CRON_PLAN's eight
PlanOrder == [flush |-> "flush-usage", poll |-> "poll-tasks"]
CallTime == 1       \* the deadline of the calls, 200 s in the code
LeaseTime == 2      \* what the lease lasts, 300 s

NewSetup == [at |-> "idle", deadline |-> 0, plan |-> NoLease, recorded |-> {}]

SetupInit ==
    /\ hour = 0
    /\ lease = NoLease
    /\ setupState = NoLease
    /\ \E foreign \in SUBSET JobNames :
         jobs = {[id |-> 0, name |-> n, ours |-> FALSE, saved |-> FALSE] : n \in foreign}
    /\ made = {}
    /\ setups = [s \in Setups |-> NewSetup]
    /\ ownerEdits = 0

At(s, where) == setups[s].at = where
\* On its way out an invocation keeps nothing but what it is doing.
SetupGoes(s, where) == setups' = [setups EXCEPT ![s] = [NewSetup EXCEPT !.at = where]]

\* A slip: a lease is taken over while it lasts.
BadReclaimable == lease # NoLease

\* The insert of a lease fails on an id that is there, and a lease is taken over
\* once its date has passed.
Reclaimable == lease # NoLease /\ lease.until <= hour

TakeLease(s) ==
    /\ At(s, "idle")
    /\ IF lease = NoLease \/ Reclaimable
         THEN /\ lease' = [owner |-> s, until |-> hour + LeaseTime]
              /\ setups' = [setups EXCEPT ![s] =
                     [NewSetup EXCEPT !.at = "listing", !.deadline = hour + CallTime]]
         ELSE SetupGoes(s, "ended") /\ UNCHANGED lease       \* "already running"
    /\ UNCHANGED <<hour, setupState, jobs, made, ownerEdits>>

\* call: nothing is asked of the provider past the deadline.
InTime(s) == hour < setups[s].deadline

\* The plan: the job at each route, if there is one.  Two of them, or one that
\* is not ours, end the setup before anything is written.
Matches(n) == {j \in jobs : j.name = n}
Conflict(n) == Cardinality(Matches(n)) > 1 \/ \E j \in Matches(n) : ~j.ours
Planned == [n \in JobNames |-> IF Matches(n) = {} THEN 0 ELSE (CHOOSE j \in Matches(n) : TRUE).id]

ListJobs(s) ==
    /\ At(s, "listing") /\ InTime(s)
    /\ \/ SetupGoes(s, "releasing")                        \* unreachable, refused, incomplete
       \/ /\ \E n \in JobNames : Conflict(n)
          /\ SetupGoes(s, "releasing")
       \/ /\ \A n \in JobNames : ~Conflict(n)
          /\ setups' = [setups EXCEPT ![s].at = "saving", ![s].plan = Planned]
    /\ UNCHANGED <<hour, lease, setupState, jobs, made, ownerEdits>>

\* The jobs are saved in the order of CRON_PLAN.
Unsaved(s) == JobNames \ {r.name : r \in setups[s].recorded}
NextName(s) == IF PlanOrder.flush \in Unsaved(s) THEN PlanOrder.flush ELSE PlanOrder.poll
Recorded(s, id) ==
    setups' = [setups EXCEPT ![s].recorded = @ \cup {[name |-> NextName(s), id |-> id]}]

\* PATCH of a job that was listed: refused when it is gone, saved and answered,
\* or saved without an answer.
UpdateJob(s) ==
    LET id == setups[s].plan[NextName(s)] IN
    /\ At(s, "saving") /\ Unsaved(s) # {} /\ InTime(s) /\ id # 0
    /\ \/ SetupGoes(s, "releasing") /\ UNCHANGED jobs
       \/ \E j \in jobs :
            /\ j.id = id /\ j.ours
            /\ jobs' = (jobs \ {j}) \cup {[j EXCEPT !.saved = TRUE]}
            /\ Recorded(s, id) \/ SetupGoes(s, "releasing")
    /\ UNCHANGED <<hour, lease, setupState, made, ownerEdits>>

\* PUT of one that was not: made and answered, made without an answer, or not
\* made.
CreateJob(s) ==
    LET id == Cardinality(made) + 1 IN
    /\ At(s, "saving") /\ Unsaved(s) # {} /\ InTime(s)
    /\ setups[s].plan[NextName(s)] = 0
    /\ \/ SetupGoes(s, "releasing") /\ UNCHANGED <<jobs, made>>
       \/ /\ jobs' = jobs \cup {[id |-> id, name |-> NextName(s), ours |-> TRUE, saved |-> TRUE]}
          /\ made' = made \cup {[id |-> id, name |-> NextName(s)]}
          /\ Recorded(s, id) \/ SetupGoes(s, "releasing")
    /\ UNCHANGED <<hour, lease, setupState, ownerEdits>>

\* call, past the deadline: what is saved stays saved.
RunOutOfTime(s) ==
    /\ At(s, "listing") \/ (At(s, "saving") /\ Unsaved(s) # {})
    /\ ~InTime(s)
    /\ SetupGoes(s, "releasing")
    /\ UNCHANGED <<hour, lease, setupState, jobs, made, ownerEdits>>

\* The record of a setup that saved every job; it has no deadline, and the
\* database may fail it.
RecordState(s) ==
    /\ At(s, "saving") /\ Unsaved(s) = {}
    /\ setupState' \in {setupState, setups[s].recorded}
    /\ SetupGoes(s, "releasing")
    /\ UNCHANGED <<hour, lease, jobs, made, ownerEdits>>

\* A slip: whatever lease is there is released.
BadReleases(s) == lease # NoLease

\* The owner token: a late invocation does not release a newer one's lease.
Releases(s) == lease # NoLease /\ lease.owner = s

\* finally: the release is best effort.
ReleaseLease(s) ==
    /\ At(s, "releasing")
    /\ lease' \in {lease, IF Releases(s) THEN NoLease ELSE lease}
    /\ SetupGoes(s, "ended")
    /\ UNCHANGED <<hour, setupState, jobs, made, ownerEdits>>

InstanceDies(s) ==
    /\ setups[s].at \in {"listing", "saving", "releasing"}
    /\ SetupGoes(s, "ended")
    /\ UNCHANGED <<hour, lease, setupState, jobs, made, ownerEdits>>

HourPasses ==
    /\ hour < MaxSetupClock /\ hour' = hour + 1
    /\ UNCHANGED <<lease, setupState, jobs, made, setups, ownerEdits>>

\* The owner of the account removes a job, or makes one of their own for a route.
OwnerEdits ==
    /\ ownerEdits < MaxOwnerEdits /\ ownerEdits' = ownerEdits + 1
    /\ \/ \E j \in jobs : jobs' = jobs \ {j}
       \/ \E n \in JobNames : jobs' = jobs \cup {[id |-> 0, name |-> n, ours |-> FALSE, saved |-> FALSE]}
    /\ UNCHANGED <<hour, lease, setupState, made, setups>>

SetupNext ==
    \/ \E s \in Setups :
         \/ TakeLease(s) \/ ListJobs(s) \/ UpdateJob(s) \/ CreateJob(s)
         \/ RunOutOfTime(s) \/ RecordState(s) \/ ReleaseLease(s) \/ InstanceDies(s)
    \/ HourPasses \/ OwnerEdits

SetupSpec == SetupInit /\ [][SetupNext]_setupVars

-----------------------------------------------------------------------------
(* Properties *)

\* schedulerStatus: every job of the plan has an id on record.
ShownConfigured == setupState # NoLease /\ {r.name : r \in setupState} = JobNames

\* docs/SCHEDULER-SETUP.md: "Setup uses a shared owner-token lease to prevent
\* concurrent duplicate provisioning."  However setups fail halfway, stall past
\* their lease, lose an answer or are started again, no route is called by two
\* jobs of ours, and a job that is not ours is never written.
NoDuplicateJobs ==
    /\ \A n \in JobNames : Cardinality({j \in Matches(n) : j.ours}) <= 1
    /\ \A j \in jobs : ~j.ours => ~j.saved

\* The record names jobs that were made for its routes, whichever setup wrote it.
RecordIsTrue ==
    setupState # NoLease => ShownConfigured /\ setupState \subseteq made

SetupIsSafe == NoDuplicateJobs /\ RecordIsTrue
=============================================================================
