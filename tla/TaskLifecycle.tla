---------------------------- MODULE TaskLifecycle ----------------------------
(***************************************************************************)
(* Asynchronous jobs, from submission to their last status: lib/tasks.     *)
(*                                                                         *)
(* handleTaskSubmit holds quota, offers the job to candidate channels      *)
(* until one request was really sent, charges when a provider accepted,    *)
(* and creates the task row that pollDueTasks then follows.  The cron that *)
(* polls takes no lock: invocations overlap, each works through the        *)
(* snapshot of rows it read at its start, and its writes name the task     *)
(* only, not the state it was in.                                          *)
(*                                                                         *)
(* One job per request, so the request also names its task.  A fault is a  *)
(* call that fails or loses its reply, or the death of a process.          *)
(***************************************************************************)
EXTENDS Integers, FiniteSets, Sequences

CONSTANTS
    Requests,
    Channels,     \* of the platform, enabled and in the caller's group
    MaxChannels,  \* options.maxChannels
    Price,        \* what accepting a job costs
    Pollers,      \* concurrent invocations of pollDueTasks
    BatchLimit,   \* rows one invocation reads
    MaxPolls,     \* MAX_POLL_COUNT
    MaxFaults     \* bound: faults in one behaviour

ASSUME TaskAssumption ==
    /\ MaxChannels \in Nat \ {0}
    /\ Price \in Nat
    /\ BatchLimit \in Nat \ {0}
    /\ MaxPolls \in Nat \ {0}
    /\ MaxFaults \in Nat

VARIABLES
    pc,        \* [Requests -> where its handleTaskSubmit stands]
    tried,     \* [Requests -> channels the loop has been through]
    reserved,  \* requests whose handler would still release the hold
    hold,      \* [Requests -> [phase, charge]]: the journal row
    accepted,  \* [Requests -> channels whose provider took the job]
    job,       \* [Requests -> state of the job at the provider]
    rows,      \* [Requests -> usage rows]
    status,    \* [Requests -> status of the task row, or "none"]
    linked,    \* requests whose task row has an upstreamTaskId
    polls,     \* [Requests -> pollCount]
    line,      \* tasks whose nextPollAt has passed, in that order
    age,       \* [Requests -> Ages]
    gone,      \* channels the operator deleted
    poller,    \* [Pollers -> [pc, batch, entry, verdict]]
    struck,    \* history: requests that met a fault
    faults     \* history: faults so far (bounded by MaxFaults)

submission == <<pc, tried, reserved, hold, accepted, rows>>
task == <<status, linked, polls, line>>
world == <<job, age, gone>>
counters == <<struck, faults>>
vars == <<submission, task, world, poller, counters>>

----------------------------------------------------------------------------
Ended == {"ended", "failed", "crashed"}
Phases == {"new", "attempt", "finalize", "body", "create", "mark", "finish", "row",
           "catch", "errorRow"} \cup Ended

Terminal == {"success", "failure", "expired"}
Active == {"pending", "submitted", "in_progress"}
Verdicts == {"in_progress", "success", "failure"}

\* Young: no cron run that started during the submission is over yet.  Old:
\* TASK_MAX_AGE_MS have passed.
Ages == {"young", "grown", "old"}

\* A row as dueTasks read it.
Entries == [task: Requests, polls: 0..MaxPolls, linked: BOOLEAN, young: BOOLEAN]

NoEntry == [task |-> "none"]
\* An invocation with these rows before it: none is left, none runs.
Looking(entries) == [pc |-> IF entries = {} THEN "idle" ELSE "look", batch |-> entries,
                     entry |-> NoEntry, verdict |-> "in_progress"]
Resting == Looking({})

Init ==
    /\ pc = [r \in Requests |-> "new"]
    /\ tried = [r \in Requests |-> {}]
    /\ reserved = {}
    /\ hold = [r \in Requests |-> [phase |-> "none", charge |-> 0]]
    /\ accepted = [r \in Requests |-> {}]
    /\ job = [r \in Requests |-> "none"]
    /\ rows = [r \in Requests |-> {}]
    /\ status = [r \in Requests |-> "none"]
    /\ linked = {}
    /\ polls = [r \in Requests |-> 0]
    /\ line = <<>>
    /\ age = [r \in Requests |-> "young"]
    /\ gone = {}
    /\ poller = [p \in Pollers |-> Resting]
    /\ struck = {}
    /\ faults = 0

NoFault == UNCHANGED counters
Fault(r) == /\ faults < MaxFaults
            /\ faults' = faults + 1
            /\ struck' = struck \cup {r}

At(r, phase) == pc[r] = phase
Goto(r, phase) == pc' = [pc EXCEPT ![r] = phase]

----------------------------------------------------------------------------
(* The hold: see QuotaLedger and SettlementReplay.                         *)

Close(r, charge, phase) ==
    hold' = [hold EXCEPT ![r] = IF hold[r].phase = "pending"
                                THEN [phase |-> phase, charge |-> charge] ELSE hold[r]]

\* Applied, or queued because Mongo did not answer.
Closes(r, charge) ==
    \/ NoFault /\ Close(r, charge, "closed")
    \/ Fault(r) /\ Close(r, charge, "queued")

CloseThrows(r, charge) ==
    /\ Fault(r)
    /\ UNCHANGED hold \/ Close(r, charge, "closed") \/ Close(r, charge, "queued")

Replay(r) ==
    /\ hold[r].phase = "queued"
    /\ hold' = [hold EXCEPT ![r] = [phase |-> "closed", charge |-> hold[r].charge]]
    /\ UNCHANGED <<pc, tried, reserved, accepted, rows, task, world, poller, counters>>

\* recordUsage, whose failure is swallowed.
RecordUsage(r, row) ==
    \/ NoFault /\ rows' = [rows EXCEPT ![r] = @ \cup {row}]
    \/ Fault(r) /\ UNCHANGED rows

----------------------------------------------------------------------------
(* handleTaskSubmit.                                                       *)

\* Checks that refuse come before the hold and leave nothing: stuttering.
Reserve(r) ==
    /\ At(r, "new")
    /\ hold' = [hold EXCEPT ![r] = [phase |-> "pending", charge |-> 0]]
    /\ reserved' = reserved \cup {r}
    /\ Goto(r, "attempt")
    /\ UNCHANGED <<tried, accepted, rows, task, world, poller, counters>>

\* It fails before the hold is taken or after, and is not rolled back.
ReserveFails(r) ==
    /\ At(r, "new")
    /\ Fault(r)
    /\ \/ hold' = [hold EXCEPT ![r] = [phase |-> "pending", charge |-> 0]]
       \/ UNCHANGED hold
    /\ Goto(r, "failed")
    /\ UNCHANGED <<tried, reserved, accepted, rows, task, world, poller>>

Candidates(r) == Channels \ tried[r]
MayTry(r) == Cardinality(tried[r]) < MaxChannels /\ Candidates(r) # {}

\* The channel has no usable key: nothing was sent, the loop goes on.
NotSent(r) ==
    /\ At(r, "attempt")
    /\ MayTry(r)
    /\ \E c \in Candidates(r) : tried' = [tried EXCEPT ![r] = @ \cup {c}]
    /\ UNCHANGED <<pc, reserved, hold, accepted, rows, task, world, poller, counters>>

\* The provider takes the job: it may finish now, later, or never be heard of.
Accept(r, c) ==
    /\ accepted' = [accepted EXCEPT ![r] = @ \cup {c}]
    /\ job' = [job EXCEPT ![r] = "running"]

\* Its answer arrives: from here on the hold is no longer refundable.
Accepted(r) ==
    /\ At(r, "attempt")
    /\ MayTry(r)
    /\ \E c \in Candidates(r) :
          /\ Accept(r, c)
          /\ tried' = [tried EXCEPT ![r] = @ \cup {c}]
    /\ reserved' = reserved \ {r}
    /\ Goto(r, "finalize")
    /\ UNCHANGED <<hold, rows, task, age, gone, poller, counters>>

BadSentFails(r) ==
    /\ At(r, "attempt")
    /\ MayTry(r)
    /\ \E c \in Candidates(r) :
          /\ tried' = [tried EXCEPT ![r] = @ \cup {c}]
          /\ \/ NoFault /\ UNCHANGED <<accepted, job>>
             \/ Fault(r) /\ Accept(r, c)
    /\ UNCHANGED <<pc, reserved, hold, rows, task, age, gone, poller>>

\* The request was sent and failed: refused by the provider, or accepted and the
\* answer lost.  The loop ends either way.
SentFails(r) ==
    /\ At(r, "attempt")
    /\ MayTry(r)
    /\ \E c \in Candidates(r) :
          /\ tried' = [tried EXCEPT ![r] = @ \cup {c}]
          /\ \/ NoFault /\ UNCHANGED <<accepted, job>>
             \/ Fault(r) /\ Accept(r, c)
    /\ Goto(r, "catch")
    /\ UNCHANGED <<reserved, hold, rows, task, age, gone, poller>>

NoChannelLeft(r) ==
    /\ At(r, "attempt")
    /\ ~MayTry(r)
    /\ Goto(r, "catch")
    /\ UNCHANGED <<tried, reserved, hold, accepted, rows, task, world, poller, counters>>

Finalize(r) ==
    /\ At(r, "finalize")
    /\ Closes(r, Price)
    /\ Goto(r, "body")
    /\ UNCHANGED <<tried, reserved, accepted, rows, task, world, poller>>

BadFinalizeThrows(r) ==
    /\ At(r, "finalize")
    /\ CloseThrows(r, Price)
    /\ Goto(r, "body")
    /\ UNCHANGED <<tried, reserved, accepted, rows, task, world, poller>>

FinalizeThrows(r) ==
    /\ At(r, "finalize")
    /\ CloseThrows(r, Price)
    /\ Goto(r, "catch")
    /\ UNCHANGED <<tried, reserved, accepted, rows, task, world, poller>>

\* The accepting answer is read and searched for the provider's id, or is not a
\* JSON object.
ReadBody(r) ==
    /\ At(r, "body")
    /\ \E next \in {"create", "catch"} : Goto(r, next)
    /\ UNCHANGED <<tried, reserved, hold, accepted, rows, task, world, poller, counters>>

InsertRow(r) == status' = [status EXCEPT ![r] = "pending"]

CreateTask(r) ==
    /\ At(r, "create")
    /\ NoFault
    /\ InsertRow(r)
    /\ Goto(r, "mark")
    /\ UNCHANGED <<tried, reserved, hold, accepted, rows, linked, polls, line, world, poller>>

CreateTaskFails(r) ==
    /\ At(r, "create")
    /\ Fault(r)
    /\ InsertRow(r) \/ UNCHANGED status
    /\ Goto(r, "catch")
    /\ UNCHANGED <<tried, reserved, hold, accepted, rows, linked, polls, line, world, poller>>

\* The line without r, where each task stands at most once.
Off(r) ==
    IF \E i \in DOMAIN line : line[i] = r
    THEN LET i == CHOOSE i \in DOMAIN line : line[i] = r
         IN  SubSeq(line, 1, i - 1) \o SubSeq(line, i + 1, Len(line))
    ELSE line

\* updateTask sets what it is given, whatever the row is by now; a status that
\* is not final comes with the next poll.
Write(r, word) ==
    /\ status' = [status EXCEPT ![r] = word]
    /\ line' = IF word \in Active THEN Off(r) ELSE line

\* markSubmitted.
Link(r) ==
    /\ Write(r, "submitted")
    /\ linked' = linked \cup {r}
    /\ UNCHANGED polls

\* No id to poll: what came back is the result.
Conclude(r) ==
    /\ Write(r, "success")
    /\ UNCHANGED <<linked, polls>>

MarkTask(r) ==
    /\ At(r, "mark")
    /\ NoFault
    /\ Link(r) \/ Conclude(r)
    /\ Goto(r, "row")
    /\ UNCHANGED <<tried, reserved, hold, accepted, rows, world, poller>>

MarkTaskFails(r) ==
    /\ At(r, "mark")
    /\ Fault(r)
    /\ Link(r) \/ Conclude(r) \/ UNCHANGED task
    /\ Goto(r, "catch")
    /\ UNCHANGED <<tried, reserved, hold, accepted, rows, world, poller>>

RecordSubmission(r) ==
    /\ At(r, "row")
    /\ RecordUsage(r, [ok |-> TRUE, quota |-> Price])
    /\ Goto(r, "ended")
    /\ UNCHANGED <<tried, reserved, hold, accepted, task, world, poller>>

Catch(r) ==
    /\ At(r, "catch")
    /\ IF r \in reserved THEN Closes(r, 0) \/ CloseThrows(r, 0)
                         ELSE UNCHANGED <<hold, counters>>
    /\ Goto(r, "errorRow")
    /\ UNCHANGED <<tried, reserved, accepted, rows, task, world, poller>>

BadRecordError(r) ==
    /\ At(r, "errorRow")
    /\ RecordUsage(r, [ok |-> FALSE, quota |-> 0])
    /\ Goto(r, "failed")
    /\ UNCHANGED <<tried, reserved, hold, accepted, task, world, poller>>

\* quota: reserved ? 0 : quota.
RecordError(r) ==
    /\ At(r, "errorRow")
    /\ RecordUsage(r, [ok |-> FALSE, quota |-> IF r \in reserved THEN 0 ELSE Price])
    /\ Goto(r, "failed")
    /\ UNCHANGED <<tried, reserved, hold, accepted, task, world, poller>>

Crash(r) ==
    /\ pc[r] \notin Ended \cup {"new"}
    /\ Fault(r)
    /\ Goto(r, "crashed")
    /\ UNCHANGED <<tried, reserved, hold, accepted, rows, task, world, poller>>

----------------------------------------------------------------------------
(* The world: the provider, the clock, the operator.                       *)

JobFinishes(r) ==
    /\ job[r] = "running"
    /\ \E end \in {"succeeded", "failed"} : job' = [job EXCEPT ![r] = end]
    /\ UNCHANGED <<submission, task, age, gone, poller, counters>>

\* nextPollAt passes.  A handler is over long before its task has been polled
\* MAX_POLL_COUNT times.
FallsDue(r) ==
    /\ status[r] \in Active
    /\ pc[r] \in Ended \/ polls[r] + 1 < MaxPolls
    /\ \A i \in DOMAIN line : line[i] # r
    /\ line' = Append(line, r)
    /\ UNCHANGED <<submission, status, linked, polls, world, poller, counters>>

Held(p) == poller[p].batch \cup
           IF poller[p].pc \in {"answer", "backoff"} THEN {poller[p].entry} ELSE {}

\* A handler and a cron run last minutes, a task is tracked for a day.
GrowsOld(r) ==
    /\ pc[r] \in Ended
    /\ \/ age[r] = "young" /\ age' = [age EXCEPT ![r] = "grown"]
       \/ /\ age[r] = "grown"
          /\ \A p \in Pollers : \A e \in Held(p) : e.task = r => ~e.young
          /\ age' = [age EXCEPT ![r] = "old"]
    /\ UNCHANGED <<submission, task, job, gone, poller, counters>>

DeleteChannel(c) ==
    /\ c \notin gone
    /\ gone' = gone \cup {c}
    /\ UNCHANGED <<submission, task, job, age, poller, counters>>

----------------------------------------------------------------------------
(* pollDueTasks.                                                           *)

EntryOf(r) == [task |-> r, polls |-> polls[r], linked |-> r \in linked,
               young |-> age[r] = "young"]

\* The first BatchLimit rows among those at the positions of the line given.
FirstOf(positions) ==
    {EntryOf(line[i]) : i \in {i \in positions :
        Cardinality({j \in positions : j <= i}) <= BatchLimit}}

Begin(p, entries) ==
    /\ poller[p].pc = "idle"
    /\ entries # {}
    /\ poller' = [poller EXCEPT ![p] = Looking(entries)]
    /\ UNCHANGED <<submission, task, world, counters>>

BadSnapshot(p) == Begin(p, FirstOf(DOMAIN line))

\* dueTasks: the most overdue rows that are not in a terminal status.
Snapshot(p) == Begin(p, FirstOf({i \in DOMAIN line : status[line[i]] \in Active}))

BadExpired(e) == e.polls > MaxPolls \/ age[e.task] = "old"

\* isExpired: the count is the snapshot's, the clock is not.
Expired(e) == e.polls >= MaxPolls \/ age[e.task] = "old"

\* Entry e is done with; the run ends with its batch.
Proceed(p, e) == poller' = [poller EXCEPT ![p] = Looking(poller[p].batch \ {e})]

\* The invocation is about to write what it makes of entry e.
Turns(p, state, e, word) ==
    poller' = [poller EXCEPT ![p] = [pc |-> state, batch |-> poller[p].batch \ {e},
                                     entry |-> e, verdict |-> word]]

Looks(p, e) == poller[p].pc = "look" /\ e \in poller[p].batch

Postpone(e) ==
    /\ polls' = [polls EXCEPT ![e.task] = e.polls + 1]
    /\ line' = Off(e.task)
    /\ UNCHANGED <<status, linked>>

BadExpire(p, e) ==
    /\ Looks(p, e)
    /\ Expired(e)
    /\ Proceed(p, e)
    /\ UNCHANGED <<task, submission, world, counters>>

Expire(p, e) ==
    /\ Looks(p, e)
    /\ Expired(e)
    /\ Write(e.task, "expired")
    /\ Proceed(p, e)
    /\ UNCHANGED <<linked, polls, submission, world, counters>>

\* Outside the try block: the failing write ends the run.
ExpireFails(p, e) ==
    /\ Looks(p, e)
    /\ Expired(e)
    /\ Fault(e.task)
    /\ Write(e.task, "expired") \/ UNCHANGED <<status, line>>
    /\ poller' = [poller EXCEPT ![p] = Resting]
    /\ UNCHANGED <<linked, polls, submission, world>>

\* The provider never told what to poll.
SkipUnlinked(p, e) ==
    /\ Looks(p, e)
    /\ ~Expired(e)
    /\ ~e.linked
    /\ Postpone(e)
    /\ Proceed(p, e)
    /\ UNCHANGED <<submission, world, counters>>

ChannelGone(p, e) ==
    /\ Looks(p, e)
    /\ ~Expired(e)
    /\ e.linked
    /\ accepted[e.task] \subseteq gone
    /\ Write(e.task, "failure")
    /\ Proceed(p, e)
    /\ UNCHANGED <<linked, polls, submission, world, counters>>

\* A lookup or one of these writes fails, maybe after taking effect: the catch
\* block postpones.
LookFails(p, e) ==
    /\ Looks(p, e)
    /\ ~Expired(e)
    /\ Fault(e.task)
    /\ \/ UNCHANGED task
       \/ ~e.linked /\ Postpone(e)
       \/ /\ e.linked /\ accepted[e.task] \subseteq gone
          /\ Write(e.task, "failure")
          /\ UNCHANGED <<linked, polls>>
    /\ Turns(p, "backoff", e, "in_progress")
    /\ UNCHANGED <<submission, world>>

BadVerdictsOn(r) ==
    IF job[r] = "succeeded" THEN {"success"} ELSE {"failure", "in_progress"}

\* interpretPollResult: a word nobody knows is progress.
VerdictsOn(r) ==
    CASE job[r] = "succeeded" -> {"success", "in_progress"}
      [] job[r] = "failed"    -> {"failure", "in_progress"}
      [] OTHER                -> {"in_progress"}

\* The poll is answered, or the key is unusable, the provider refuses or does
\* not answer.
Ask(p, e) ==
    /\ Looks(p, e)
    /\ ~Expired(e)
    /\ e.linked
    /\ ~(accepted[e.task] \subseteq gone)
    /\ \/ \E word \in VerdictsOn(e.task) : Turns(p, "answer", e, word)
       \/ Turns(p, "backoff", e, "in_progress")
    /\ UNCHANGED <<submission, task, world, counters>>

Patch(e, word) ==
    /\ Write(e.task, word)
    /\ polls' = [polls EXCEPT ![e.task] = e.polls + 1]
    /\ UNCHANGED linked

Answer(p) ==
    LET e == poller[p].entry
    IN  /\ poller[p].pc = "answer"
        /\ Patch(e, poller[p].verdict)
        /\ Proceed(p, e)
        /\ UNCHANGED <<submission, world, counters>>

\* The write fails, maybe after taking effect: the catch block postpones.
AnswerFails(p) ==
    LET e == poller[p].entry
    IN  /\ poller[p].pc = "answer"
        /\ Fault(e.task)
        /\ Patch(e, poller[p].verdict) \/ UNCHANGED task
        /\ Turns(p, "backoff", e, "in_progress")
        /\ UNCHANGED <<submission, world>>

Backoff(p) ==
    LET e == poller[p].entry
    IN  /\ poller[p].pc = "backoff"
        /\ Postpone(e)
        /\ Proceed(p, e)
        /\ UNCHANGED <<submission, world, counters>>

\* .catch(() => {}): the run goes on.
BackoffFails(p) ==
    LET e == poller[p].entry
    IN  /\ poller[p].pc = "backoff"
        /\ Fault(e.task)
        /\ Postpone(e) \/ UNCHANGED task
        /\ Proceed(p, e)
        /\ UNCHANGED <<submission, world>>

PollerCrash(p) ==
    /\ poller[p].pc # "idle"
    /\ faults < MaxFaults
    /\ faults' = faults + 1
    /\ poller' = [poller EXCEPT ![p] = Resting]
    /\ UNCHANGED <<submission, task, world, struck>>

----------------------------------------------------------------------------
SubmitStep(r) ==
    \/ Reserve(r) \/ ReserveFails(r)
    \/ NotSent(r) \/ Accepted(r) \/ SentFails(r) \/ NoChannelLeft(r)
    \/ Finalize(r) \/ FinalizeThrows(r) \/ ReadBody(r)
    \/ CreateTask(r) \/ CreateTaskFails(r) \/ MarkTask(r) \/ MarkTaskFails(r)
    \/ RecordSubmission(r) \/ Catch(r) \/ RecordError(r) \/ Crash(r) \/ Replay(r)

PollEntry(p, e) ==
    Expire(p, e) \/ SkipUnlinked(p, e) \/ ChannelGone(p, e) \/ Ask(p, e)

PollStep(p) ==
    \/ Snapshot(p) \/ Answer(p) \/ Backoff(p)
    \/ \E e \in poller[p].batch : PollEntry(p, e)

PollFails(p) ==
    \/ AnswerFails(p) \/ BackoffFails(p) \/ PollerCrash(p)
    \/ \E e \in poller[p].batch : ExpireFails(p, e) \/ LookFails(p, e)

Next ==
    \/ \E r \in Requests : SubmitStep(r) \/ JobFinishes(r) \/ FallsDue(r) \/ GrowsOld(r)
    \/ \E p \in Pollers : PollStep(p) \/ PollFails(p)
    \/ \E c \in Channels : DeleteChannel(c)

Spec == Init /\ [][Next]_vars

\* The cron keeps running, a handler ends within its function's time limit and
\* time passes; a provider may work for ever.
FairSpec ==
    /\ Spec
    /\ \A p \in Pollers : WF_vars(PollStep(p))
    /\ \A r \in Requests :
          WF_vars(SubmitStep(r)) /\ WF_vars(FallsDue(r)) /\ WF_vars(GrowsOld(r))

----------------------------------------------------------------------------
(* Properties.                                                             *)

\* Every variable has its type.
TypeOK ==
    /\ pc \in [Requests -> Phases]
    /\ tried \in [Requests -> SUBSET Channels]
    /\ reserved \subseteq Requests
    /\ hold \in [Requests -> [phase: {"none", "pending", "queued", "closed"},
                              charge: {0, Price}]]
    /\ accepted \in [Requests -> SUBSET Channels]
    /\ job \in [Requests -> {"none", "running", "succeeded", "failed"}]
    /\ rows \in [Requests -> SUBSET [ok: BOOLEAN, quota: {0, Price}]]
    /\ status \in [Requests -> {"none"} \cup Active \cup Terminal]
    /\ linked \subseteq Requests
    /\ polls \in [Requests -> 0..MaxPolls]
    /\ line \in Seq(Requests)
    /\ age \in [Requests -> Ages]
    /\ gone \subseteq Channels
    /\ poller \in [Pollers -> [pc: {"idle", "look", "answer", "backoff"},
                               batch: SUBSET Entries, entry: Entries \cup {NoEntry},
                               verdict: Verdicts]]
    /\ struck \subseteq Requests
    /\ faults \in 0..MaxFaults

\* Creating a task is not idempotent: whatever fails and is retried, at most one
\* provider has accepted the job.
OneJobPerRequest == \A r \in Requests : Cardinality(accepted[r]) <= 1

\* A client that can poll a task has paid for it, in the ledger or in the
\* settlement queue, however its submission went on and whatever polls did since.
TasksArePaid ==
    \A r \in Requests :
        status[r] # "none" => hold[r].phase \in {"queued", "closed"} /\ hold[r].charge = Price

\* A submission that met no fault is charged exactly when a provider took its job,
\* even if no task came of it, and its one usage row says so.
ChargedForAcceptance ==
    \A r \in Requests :
        pc[r] \in {"ended", "failed"} /\ r \notin struck =>
            /\ hold[r] = [phase |-> "closed", charge |-> IF accepted[r] = {} THEN 0 ELSE Price]
            /\ \E row \in rows[r] : rows[r] = {row} /\ row.quota = hold[r].charge

\* What the client is told about a polled job happened at its provider, although
\* answers are written late and out of order.
VerdictsAreTrue ==
    \A r \in linked :
        /\ status[r] = "success" => job[r] = "succeeded"
        /\ status[r] = "failure" => job[r] = "failed" \/ accepted[r] \subseteq gone

\* Every task ends and stays ended: the backstop of age and poll count works for
\* jobs nobody finishes, rows nobody linked and channels nobody has any more,
\* and no task waits for ever behind others in the batch limit.
TasksSettle ==
    \A r \in Requests : status[r] # "none" ~> [](status[r] \in Terminal)
=============================================================================
