------------------------------ MODULE UsageLog ------------------------------
(***************************************************************************)
(* The usage ledger of lib/usage/index.ts: one row per request, in a       *)
(* collection per month, and hourly rollups that are incremented in the    *)
(* transaction that inserts the row.  Callers push rows onto a buffer in   *)
(* the shared store; flushUsageBuffer, run by the cron and possibly by     *)
(* overlapping invocations, persists what it peeked and trims it only if   *)
(* it still owns the lock.  A push that fails falls through to Mongo.      *)
(*                                                                         *)
(* A request normally records one row.  When it fails after it settled, or *)
(* its settlement failed, the relay also records an error row with the     *)
(* same id from its catch block (relay/pipeline.ts): a second delivery     *)
(* with other content.                                                     *)
(***************************************************************************)
EXTENDS Integers, FiniteSets, Sequences, FiniteSetsExt, Functions, SequencesExt

CONSTANTS
    Requests,
    UserOf,      \* [Requests -> users]
    Channels,    \* channels a success row names
    Charges,     \* quota of a success row
    LastHour,    \* bound: hours of the clock
    Month,       \* [0..LastHour -> months]: the collection an hour belongs to
    Flushers,    \* concurrent invocations of flushUsageBuffer
    NoOwner,     \* the lock key is not set
    NoChannel,   \* the empty channelId of a request that reached none
    BatchLimit,  \* rows one flush peeks
    MaxFaults    \* bound: faults in one behaviour

ASSUME UsageAssumption ==
    /\ NoOwner \notin Flushers
    /\ NoChannel \notin Channels
    /\ Charges \subseteq Nat
    /\ LastHour \in Nat
    /\ DOMAIN Month = 0..LastHour
    /\ BatchLimit \in Nat \ {0}
    /\ MaxFaults \in Nat

VARIABLES
    caller,    \* [Requests -> [pc, row]]: where its recordUsage call stands
    logs,      \* [months -> rows]: the usage_logs_YYYYMM collections
    rollups,   \* [rollup ids -> totals]: usage_rollups
    buffer,    \* usage:buffer, oldest row first
    lock,      \* owner of lock:usage-flush, or NoOwner
    flusher,   \* [Flushers -> [pc, batch, months]]
    hour,      \* the clock
    faults     \* history: faults so far (bounded by MaxFaults)

vars == <<caller, logs, rollups, buffer, lock, flusher, hour, faults>>

----------------------------------------------------------------------------
Months == {Month[h] : h \in 0..LastHour}
Users == {UserOf[r] : r \in Requests}

\* The fields of a row that the rollups and the properties read.
Rows == [req: Requests, hour: 0..LastHour, quota: Nat, ok: BOOLEAN,
         channel: Channels \cup {NoChannel}]

Collections == [Months -> SUBSET Rows]

\* `${scope}:${key}:${bucket}`; the model scope is as the channel scope.
RollupIds == ({<<"user", u>> : u \in Users} \cup {<<"channel", c>> : c \in Channels}
                \cup {<<"global", "all">>}) \X (0..LastHour)

Totals == [requests: Nat, errors: Nat, quota: Nat]

\* The rollups a row counts in; an empty key is skipped.
ScopesOf(row) ==
    {<<"user", UserOf[row.req]>>, <<"global", "all">>}
        \cup (IF row.channel = NoChannel THEN {} ELSE {<<"channel", row.channel>>})

NoRow(r) == [req |-> r, hour |-> 0, quota |-> 0, ok |-> FALSE, channel |-> NoChannel]

Phases == {"todo", "push", "persist", "again", "done", "lost"}
Idle == [pc |-> "idle", batch |-> <<>>, months |-> {}]

Init ==
    /\ caller = [r \in Requests |-> [pc |-> "todo", row |-> NoRow(r)]]
    /\ logs = [m \in Months |-> {}]
    /\ rollups = [id \in RollupIds |-> [requests |-> 0, errors |-> 0, quota |-> 0]]
    /\ buffer = <<>>
    /\ lock = NoOwner
    /\ flusher = [f \in Flushers |-> Idle]
    /\ hour = 0
    /\ faults = 0

Fault == faults < MaxFaults /\ faults' = faults + 1

----------------------------------------------------------------------------
(* persist, one transaction per month.                                     *)

\* Positions of the rows of one month: byBucket.
BucketOf(rows, m) == {i \in DOMAIN rows : Month[rows[i].hour] = m}

BadFresh(rows, m) == BucketOf(rows, m)

\* The positions a month's transaction still has to insert: an id that is already
\* in the collection, or earlier in the batch, is skipped - the first one wins.
Fresh(rows, m) ==
    {i \in BucketOf(rows, m) :
        /\ \A old \in logs[m] : old.req # rows[i].req
        /\ \A j \in BucketOf(rows, m) : j < i => rows[j].req # rows[i].req}

BadCounted(totals, row) ==
    [requests |-> totals.requests + 1, errors |-> totals.errors,
     quota |-> totals.quota + row.quota]

\* incrementRollups for one row.
Counted(totals, row) ==
    [requests |-> totals.requests + 1,
     errors |-> totals.errors + (IF row.ok THEN 0 ELSE 1),
     quota |-> totals.quota + row.quota]

\* The transaction of one month.
PersistMonth(rows, m) ==
    LET counts(id) == {i \in Fresh(rows, m) : /\ id[1] \in ScopesOf(rows[i])
                                              /\ id[2] = rows[i].hour}
    IN  /\ logs' = [logs EXCEPT ![m] = @ \cup {rows[i] : i \in Fresh(rows, m)}]
        /\ rollups' = [id \in RollupIds |->
              FoldSet(LAMBDA i, t : Counted(t, rows[i]), rollups[id], counts(id))]

----------------------------------------------------------------------------
(* recordUsage.                                                            *)

\* The relay is done with the provider and records what it measured, as a
\* success or, when the client hung up, as aborted.
Record(r) ==
    /\ caller[r].pc = "todo"
    /\ \E q \in Charges, c \in Channels, ok \in BOOLEAN :
          caller' = [caller EXCEPT ![r] =
             [pc |-> "push",
              row |-> [req |-> r, hour |-> hour, quota |-> q, ok |-> ok,
                       channel |-> c]]]
    /\ UNCHANGED <<logs, rollups, buffer, lock, flusher, hour, faults>>

\* The relay's catch block: an error row, the only one of a request that never
\* settled and the second one of a request that had.
RecordFailure(r) ==
    /\ caller[r].pc \in {"todo", "again"}
    /\ caller' = [caller EXCEPT ![r] =
          [pc |-> "push",
           row |-> [req |-> r, hour |-> hour, quota |-> 0, ok |-> FALSE,
                    channel |-> NoChannel]]]
    /\ UNCHANGED <<logs, rollups, buffer, lock, flusher, hour, faults>>

\* recordUsage returns: after settling, the relay may still fail.
Returns(r) ==
    \E pc \in {"done"} \cup (IF caller[r].row.channel = NoChannel THEN {} ELSE {"again"}) :
        caller' = [caller EXCEPT ![r].pc = pc]

Push(r) ==
    /\ caller[r].pc = "push"
    /\ buffer' = Append(buffer, caller[r].row)
    /\ Returns(r)
    /\ UNCHANGED <<logs, rollups, lock, flusher, hour, faults>>

\* The push fails, with or without having taken effect: fall through to Mongo.
PushFails(r) ==
    /\ Fault
    /\ caller[r].pc = "push"
    /\ \/ UNCHANGED buffer
       \/ buffer' = Append(buffer, caller[r].row)
    /\ caller' = [caller EXCEPT ![r].pc = "persist"]
    /\ UNCHANGED <<logs, rollups, lock, flusher, hour>>

PersistOwn(r) ==
    /\ caller[r].pc = "persist"
    /\ PersistMonth(<<caller[r].row>>, Month[caller[r].row.hour])
    /\ Returns(r)
    /\ UNCHANGED <<buffer, lock, flusher, hour, faults>>

\* Mongo fails too, before or after the commit; the relay swallows the error.
PersistOwnFails(r) ==
    /\ Fault
    /\ caller[r].pc = "persist"
    /\ \/ UNCHANGED <<logs, rollups>>
       \/ PersistMonth(<<caller[r].row>>, Month[caller[r].row.hour])
    /\ caller' = [caller EXCEPT ![r].pc = "lost"]
    /\ UNCHANGED <<buffer, lock, flusher, hour>>

CallerCrash(r) ==
    /\ Fault
    /\ caller[r].pc \in {"push", "persist", "again"}
    /\ caller' = [caller EXCEPT ![r].pc = "lost"]
    /\ UNCHANGED <<logs, rollups, buffer, lock, flusher, hour>>

Tick ==
    /\ hour < LastHour
    /\ hour' = hour + 1
    /\ UNCHANGED <<caller, logs, rollups, buffer, lock, flusher, faults>>

----------------------------------------------------------------------------
(* flushUsageBuffer.                                                       *)

At(f, pc) == flusher[f].pc = pc
Goto(f, pc) == flusher' = [flusher EXCEPT ![f].pc = pc]

AcquireLock(f) ==
    /\ At(f, "idle")
    /\ lock = NoOwner
    /\ lock' = f
    /\ Goto(f, "peek")
    /\ UNCHANGED <<caller, logs, rollups, buffer, hour, faults>>

BadPeek(f) ==
    LET n == IF Len(buffer) < BatchLimit THEN Len(buffer) ELSE BatchLimit
        batch == SubSeq(buffer, 1, n)
    IN  /\ At(f, "peek")
        /\ flusher' = [flusher EXCEPT ![f] =
              [pc |-> IF n = 0 THEN "release" ELSE "persist", batch |-> batch,
               months |-> {batch[i].hour : i \in 1..n}]]
        /\ UNCHANGED <<caller, logs, rollups, buffer, lock, hour, faults>>

\* LRANGE; an empty buffer goes straight to the finally block.
Peek(f) ==
    LET n == IF Len(buffer) < BatchLimit THEN Len(buffer) ELSE BatchLimit
        batch == SubSeq(buffer, 1, n)
    IN  /\ At(f, "peek")
        /\ flusher' = [flusher EXCEPT ![f] =
              [pc |-> IF n = 0 THEN "release" ELSE "persist", batch |-> batch,
               months |-> {Month[batch[i].hour] : i \in 1..n}]]
        /\ UNCHANGED <<caller, logs, rollups, buffer, lock, hour, faults>>

\* The month whose transaction is next: byBucket keeps the order of the batch.
DueMonth(f) ==
    LET rows == flusher[f].batch
        due == {i \in DOMAIN rows : Month[rows[i].hour] \in flusher[f].months}
    IN  Month[rows[Min(due)].hour]

\* Month m is written; its successor, or the acknowledgement, follows.
Written(f, m) ==
    flusher' = [flusher EXCEPT
        ![f].pc = IF flusher[f].months = {m} THEN "ack" ELSE "persist",
        ![f].months = @ \ {m}]

\* One month's transaction.
Persist(f) ==
    /\ At(f, "persist")
    /\ PersistMonth(flusher[f].batch, DueMonth(f))
    /\ Written(f, DueMonth(f))
    /\ UNCHANGED <<caller, buffer, lock, hour, faults>>

BadPersistFails(f) ==
    /\ Fault
    /\ At(f, "persist")
    /\ Written(f, DueMonth(f))
    /\ UNCHANGED <<caller, logs, rollups, buffer, lock, hour>>

\* The transaction throws, before or after it committed: the flush ends, months
\* already committed stay committed.
PersistFails(f) ==
    /\ Fault
    /\ At(f, "persist")
    /\ \/ UNCHANGED <<logs, rollups>>
       \/ PersistMonth(flusher[f].batch, DueMonth(f))
    /\ Goto(f, "release")
    /\ UNCHANGED <<caller, buffer, lock, hour>>

BadAck(f) ==
    /\ At(f, "ack")
    /\ buffer' = SubSeq(buffer, Len(flusher[f].batch) + 1, Len(buffer))
    /\ lock' = IF lock = f THEN NoOwner ELSE lock
    /\ Goto(f, "release")
    /\ UNCHANGED <<caller, logs, rollups, hour, faults>>

BadAckKeepsLast(f) ==
    /\ At(f, "ack")
    /\ IF lock = f
         THEN /\ buffer' = SubSeq(buffer, Len(flusher[f].batch), Len(buffer))
              /\ lock' = NoOwner
         ELSE UNCHANGED <<buffer, lock>>
    /\ Goto(f, "release")
    /\ UNCHANGED <<caller, logs, rollups, hour, faults>>

\* ackUsage, one atomic script: trim and unlock only for the lock's owner.
Ack(f) ==
    /\ At(f, "ack")
    /\ IF lock = f
         THEN /\ buffer' = SubSeq(buffer, Len(flusher[f].batch) + 1, Len(buffer))
              /\ lock' = NoOwner
         ELSE UNCHANGED <<buffer, lock>>
    /\ Goto(f, "release")
    /\ UNCHANGED <<caller, logs, rollups, hour, faults>>

\* releaseLock, a compare-and-delete.
ReleaseLock(f) ==
    /\ At(f, "release")
    /\ lock' = IF lock = f THEN NoOwner ELSE lock
    /\ flusher' = [flusher EXCEPT ![f] = Idle]
    /\ UNCHANGED <<caller, logs, rollups, buffer, hour, faults>>

\* The process dies or its last calls fail: the lock stays until its TTL.
FlusherCrash(f) ==
    /\ Fault
    /\ ~At(f, "idle")
    /\ flusher' = [flusher EXCEPT ![f] = Idle]
    /\ UNCHANGED <<caller, logs, rollups, buffer, lock, hour>>

\* The lock's 120 s pass.  A live owner does not notice: that is a fault.
LockExpires ==
    /\ lock # NoOwner
    /\ IF At(lock, "idle") THEN UNCHANGED faults ELSE Fault
    /\ lock' = NoOwner
    /\ UNCHANGED <<caller, logs, rollups, buffer, flusher, hour>>

----------------------------------------------------------------------------
CallerStep(r) ==
    \/ Record(r) \/ RecordFailure(r)
    \/ Push(r) \/ PushFails(r) \/ PersistOwn(r) \/ PersistOwnFails(r)
    \/ CallerCrash(r)

FlusherStep(f) ==
    AcquireLock(f) \/ Peek(f) \/ Persist(f) \/ Ack(f) \/ ReleaseLock(f)

Next ==
    \/ \E r \in Requests : CallerStep(r)
    \/ \E f \in Flushers : FlusherStep(f) \/ PersistFails(f) \/ FlusherCrash(f)
    \/ LockExpires
    \/ Tick

Spec == Init /\ [][Next]_vars

\* The cron keeps invoking the flush; a lock nobody works under expires.
DeadLockExpires == lock # NoOwner /\ At(lock, "idle") /\ LockExpires

FairSpec ==
    /\ Spec
    /\ \A f \in Flushers : WF_vars(FlusherStep(f))
    /\ WF_vars(DeadLockExpires)

----------------------------------------------------------------------------
(* Properties.                                                             *)

\* Every variable has its type.
TypeOK ==
    /\ caller \in [Requests -> [pc: Phases, row: Rows]]
    /\ logs \in Collections
    /\ rollups \in [RollupIds -> Totals]
    /\ buffer \in Seq(Rows)
    /\ lock \in Flushers \cup {NoOwner}
    /\ flusher \in [Flushers -> [pc: {"idle", "peek", "persist", "ack", "release"},
                                 batch: Seq(Rows), months: SUBSET Months]]
    /\ hour \in 0..LastHour
    /\ faults \in 0..MaxFaults

Stored(row) == \E old \in logs[Month[row.hour]] : old.req = row.req
Buffered(row) == \E i \in DOMAIN buffer : buffer[i] = row

\* What a set of rows adds up to.
Tally(rows) ==
    [requests |-> Cardinality(rows),
     errors |-> Cardinality({row \in rows : ~row.ok}),
     quota |-> SumFunctionOnSet([row \in rows |-> row.quota], rows)]

RowsOf(id) ==
    {row \in logs[Month[id[2]]] : id[1] \in ScopesOf(row) /\ row.hour = id[2]}

\* The console's totals are exactly the rows: replays, second deliveries, a
\* fall-through racing the flush of the same row and half-finished flushes never
\* count a row twice or not at all.
RollupsMatchRows == \A id \in RollupIds : rollups[id] = Tally(RowsOf(id))

\* One month holds one row of a request, whatever was delivered.
OneRowPerMonth ==
    \A m \in Months : \A a, b \in logs[m] : a.req = b.req => a = b

\* What recordUsage accepted is not lost: the row is still buffered, or its
\* request has a row in that month.
RecordedIsKept ==
    \A r \in Requests :
        caller[r].pc = "done" => Buffered(caller[r].row) \/ Stored(caller[r].row)

\* As long as the cron keeps running an accepted row reaches Mongo, and the
\* buffer is emptied again and again: no flush that died or lost its lock holds
\* it up for good (flushUsageBuffer).
UsageSettles ==
    /\ \A r \in Requests : caller[r].pc = "done" ~> Stored(caller[r].row)
    /\ []<>(buffer = <<>> /\ lock = NoOwner)

\* usage/index.ts: "Exactly one row per request."  Checked to fail: the id is
\* unique per month only.
OneRowPerRequest ==
    \A m, n \in Months : \A a \in logs[m], b \in logs[n] : a.req = b.req => a = b
=============================================================================
