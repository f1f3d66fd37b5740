------------------------- MODULE SettlementReplay -------------------------
(***************************************************************************)
(* How a measured charge reaches the ledger when something fails.  A relay *)
(* request (caller) holds quota, serves, and calls finalizeQuota or        *)
(* releaseQuota.  If Mongo answers 503 - whether or not the transaction    *)
(* had committed - the caller RPUSHes its measurement onto the settlement  *)
(* queue in the shared store; flushQuotaSettlements, run by the reconcile  *)
(* cron and possibly by several overlapping invocations, replays the queue *)
(* under a lock that expires after 120 s: peek, complete each entry, then  *)
(* trim what was peeked only if the lock is still owned.                   *)
(*                                                                         *)
(* Transport failures, crashes and slow lock holders are faults; a         *)
(* behaviour has at most MaxFaults of them, any number and at any step.    *)
(***************************************************************************)
EXTENDS QuotaLedger, Sequences

CONSTANTS
    Flushers,    \* concurrent invocations of flushQuotaSettlements
    NoOwner,     \* the lock key is not set
    BatchLimit,  \* entries one flush peeks (reconcileQuota passes 500)
    MaxFaults    \* bound: faults in one behaviour

ASSUME ReplayAssumption ==
    /\ NoOwner \notin Flushers
    /\ BatchLimit \in Nat \ {0}
    /\ MaxFaults \in Nat

VARIABLES
    caller,    \* [Requests -> phase of the request that owns the hold]
    measured,  \* [Requests -> charge it measured, NotMeasured before]
    queue,     \* quota:settlements:v2, oldest entry first
    lock,      \* owner of lock:quota-settlements, or NoOwner
    flusher,   \* [Flushers -> [pc, batch, next]]
    lapsed,    \* requests whose hold is older than RESERVATION_TTL_SEC
    faults     \* history: faults so far (bounded by MaxFaults)

replayVars == <<caller, measured, queue, lock, flusher, lapsed, faults>>
allVars == <<vars, replayVars>>

NotMeasured == -1
Phases == {"idle", "serving", "queueing", "answered", "refused", "lost"}
Amounts == Charges \cup {0}       \* what a caller can measure
Entries == [req: Requests, actual: Amounts]
Idle == [pc |-> "idle", batch |-> <<>>, next |-> 1]

\* Every variable has its type; queued entries are {requestId, actual} pairs.
ReplayTypeOK ==
    /\ TypeOK
    /\ caller \in [Requests -> Phases]
    /\ measured \in [Requests -> Amounts \cup {NotMeasured}]
    /\ queue \in Seq(Entries)
    /\ lock \in Flushers \cup {NoOwner}
    /\ flusher \in [Flushers -> [pc: {"idle", "peek", "replay", "ack", "release"},
                                 batch: Seq(Entries), next: Nat]]
    /\ lapsed \in SUBSET Requests
    /\ faults \in 0..MaxFaults

ReplayInit ==
    /\ Init
    /\ caller = [r \in Requests |-> "idle"]
    /\ measured = [r \in Requests |-> NotMeasured]
    /\ queue = <<>>
    /\ lock = NoOwner
    /\ flusher = [f \in Flushers |-> Idle]
    /\ lapsed = {}
    /\ faults = 0

Fault == faults < MaxFaults /\ faults' = faults + 1

Moves(r, from, to) == /\ caller[r] = from
                      /\ caller' = [caller EXCEPT ![r] = to]

----------------------------------------------------------------------------
(* The caller: admission, then exactly one attempt to finalize.            *)

Admit(r, amount) ==
    /\ Moves(r, "idle", "serving")
    /\ ReserveQuota(r, amount)
    /\ UNCHANGED <<measured, queue, lock, flusher, lapsed, faults>>

\* The hold committed but the caller saw an error: it never became its owner.
AdmitUnacknowledged(r, amount) ==
    /\ Fault
    /\ Moves(r, "idle", "refused")
    /\ ReserveQuota(r, amount)
    /\ UNCHANGED <<measured, queue, lock, flusher, lapsed>>

Refuse(r) ==
    /\ Moves(r, "idle", "refused")
    /\ UNCHANGED <<vars, measured, queue, lock, flusher, lapsed, faults>>

\* finalizeQuota (or releaseQuota, for a charge of 0) commits and returns.
Finalize(r, actual) ==
    /\ Moves(r, "serving", "answered")
    /\ FinalizeQuota(r, actual)
    /\ measured' = [measured EXCEPT ![r] = actual]
    /\ UNCHANGED <<queue, lock, flusher, lapsed, faults>>

\* The transaction commits but its acknowledgement is lost: 503 to the caller.
FinalizeUnacknowledged(r, actual) ==
    /\ Fault
    /\ Moves(r, "serving", "queueing")
    /\ FinalizeQuota(r, actual)
    /\ measured' = [measured EXCEPT ![r] = actual]
    /\ UNCHANGED <<queue, lock, flusher, lapsed>>

\* 503 without a commit: Mongo is unavailable, or (no fault at all) the new
\* balance would leave the safe integers.
FinalizeUnavailable(r, actual) ==
    /\ IF Completable(r, actual) THEN Fault ELSE UNCHANGED faults
    /\ Moves(r, "serving", "queueing")
    /\ measured' = [measured EXCEPT ![r] = actual]
    /\ UNCHANGED <<vars, queue, lock, flusher, lapsed>>

BadEntryOf(r) == [req |-> r, actual |-> Delta(r, measured[r])]
EntryOf(r) == [req |-> r, actual |-> measured[r]]

Enqueue(r) ==
    /\ Moves(r, "queueing", "answered")
    /\ queue' = Append(queue, EntryOf(r))
    /\ UNCHANGED <<vars, measured, lock, flusher, lapsed, faults>>

\* The RPUSH fails, with or without having taken effect: the caller throws and
\* keeps the hold.
EnqueueFails(r) ==
    /\ Fault
    /\ Moves(r, "queueing", "lost")
    /\ \/ UNCHANGED queue
       \/ queue' = Append(queue, EntryOf(r))
    /\ UNCHANGED <<vars, measured, lock, flusher, lapsed>>

CallerCrash(r) ==
    /\ Fault
    /\ \E from \in {"serving", "queueing"} : Moves(r, from, "lost")
    /\ UNCHANGED <<vars, measured, queue, lock, flusher, lapsed>>

\* The hold is refunded on the guess that nothing was used ...
BadLapse(r) ==
    /\ ReleaseQuota(r)
    /\ lapsed' = lapsed \cup {r}
    /\ UNCHANGED <<caller, measured, queue, lock, flusher, faults>>

\* ... or is given back without telling the journal.
BadLapseCredit(r) ==
    /\ Open(r)
    /\ r \notin lapsed
    /\ lapsed' = lapsed \cup {r}
    /\ users' = [users EXCEPT ![Payer[r]].quota = @ + journal[r].reserved]
    /\ UNCHANGED <<tokens, journal, codes, granted, edits>>
    /\ UNCHANGED <<caller, measured, queue, lock, flusher, faults>>

\* expiresAt passes.  Nothing else happens to the hold.
Lapse(r) ==
    /\ Open(r)
    /\ r \notin lapsed
    /\ lapsed' = lapsed \cup {r}
    /\ UNCHANGED <<vars, caller, measured, queue, lock, flusher, faults>>

----------------------------------------------------------------------------
(* flushQuotaSettlements.                                                  *)

At(f, pc) == flusher[f].pc = pc
Goto(f, pc) == flusher' = [flusher EXCEPT ![f].pc = pc]
Current(f) == flusher[f].batch[flusher[f].next]

\* SET NX EX 120 with a fresh owner.
AcquireLock(f) ==
    /\ At(f, "idle")
    /\ lock = NoOwner
    /\ lock' = f
    /\ Goto(f, "peek")
    /\ UNCHANGED <<vars, caller, measured, queue, lapsed, faults>>

\* LRANGE; an empty queue goes straight to the finally block.
Peek(f) ==
    LET n == IF Len(queue) < BatchLimit THEN Len(queue) ELSE BatchLimit
    IN  /\ At(f, "peek")
        /\ flusher' = [flusher EXCEPT ![f] =
              [pc |-> IF n = 0 THEN "release" ELSE "replay",
               batch |-> SubSeq(queue, 1, n), next |-> 1]]
        /\ UNCHANGED <<vars, caller, measured, queue, lock, lapsed, faults>>

Advance(f) ==
    LET b == flusher[f]
    IN  flusher' = [flusher EXCEPT ![f] =
           [pc |-> IF b.next = Len(b.batch) THEN "ack" ELSE "replay",
            batch |-> b.batch, next |-> b.next + 1]]

\* complete on the current entry: applied now, or found no longer pending.
ReplayEntry(f) ==
    /\ At(f, "replay")
    /\ IF Open(Current(f).req)
         THEN FinalizeQuota(Current(f).req, Current(f).actual)
         ELSE UNCHANGED vars
    /\ Advance(f)
    /\ UNCHANGED <<caller, measured, queue, lock, lapsed, faults>>

BadReplayUnacknowledged(f) ==
    /\ Fault
    /\ At(f, "replay")
    /\ \/ UNCHANGED vars
       \/ FinalizeQuota(Current(f).req, Current(f).actual)
    /\ Goto(f, "ack")
    /\ UNCHANGED <<caller, measured, queue, lock, lapsed>>

\* complete throws and ends the flush: the transaction may have committed.
ReplayUnacknowledged(f) ==
    /\ Fault
    /\ At(f, "replay")
    /\ \/ UNCHANGED vars
       \/ FinalizeQuota(Current(f).req, Current(f).actual)
    /\ Goto(f, "release")
    /\ UNCHANGED <<caller, measured, queue, lock, lapsed>>

BadReplayOutOfRange(f) ==
    /\ At(f, "replay")
    /\ Open(Current(f).req)
    /\ ~Completable(Current(f).req, Current(f).actual)
    /\ Advance(f)
    /\ UNCHANGED <<vars, caller, measured, queue, lock, lapsed, faults>>

\* complete throws because the balance would leave the safe integers; the
\* entry stays at the head of the queue.
ReplayOutOfRange(f) ==
    /\ At(f, "replay")
    /\ Open(Current(f).req)
    /\ ~Completable(Current(f).req, Current(f).actual)
    /\ Goto(f, "release")
    /\ UNCHANGED <<vars, caller, measured, queue, lock, lapsed, faults>>

BadAckSettlements(f) ==
    /\ At(f, "ack")
    /\ queue' = SubSeq(queue, Len(flusher[f].batch) + 1, Len(queue))
    /\ lock' = IF lock = f THEN NoOwner ELSE lock
    /\ Goto(f, "release")
    /\ UNCHANGED <<vars, caller, measured, lapsed, faults>>

BadAckKeepsLast(f) ==
    /\ At(f, "ack")
    /\ IF lock = f
         THEN /\ queue' = SubSeq(queue, Len(flusher[f].batch), Len(queue))
              /\ lock' = NoOwner
         ELSE UNCHANGED <<queue, lock>>
    /\ Goto(f, "release")
    /\ UNCHANGED <<vars, caller, measured, lapsed, faults>>

\* ackUsage, one atomic script: trim and unlock only for the lock's owner.
AckSettlements(f) ==
    /\ At(f, "ack")
    /\ IF lock = f
         THEN /\ queue' = SubSeq(queue, Len(flusher[f].batch) + 1, Len(queue))
              /\ lock' = NoOwner
         ELSE UNCHANGED <<queue, lock>>
    /\ Goto(f, "release")
    /\ UNCHANGED <<vars, caller, measured, lapsed, faults>>

\* LRANGE or the ack script fails before it took effect: nothing is trimmed.
FlushAborts(f) ==
    /\ Fault
    /\ At(f, "peek") \/ At(f, "ack")
    /\ Goto(f, "release")
    /\ UNCHANGED <<vars, caller, measured, queue, lock, lapsed>>

\* releaseLock in the finally block, also a compare-and-delete.
ReleaseLock(f) ==
    /\ At(f, "release")
    /\ lock' = IF lock = f THEN NoOwner ELSE lock
    /\ flusher' = [flusher EXCEPT ![f] = Idle]
    /\ UNCHANGED <<vars, caller, measured, queue, lapsed, faults>>

\* The process dies, or its releaseLock fails and is swallowed: the lock stays.
FlusherCrash(f) ==
    /\ Fault
    /\ ~At(f, "idle")
    /\ flusher' = [flusher EXCEPT ![f] = Idle]
    /\ UNCHANGED <<vars, caller, measured, queue, lock, lapsed>>

BadDeadLockExpires == FALSE /\ UNCHANGED allVars

\* The lock's TTL runs out under nobody: its owner died, or never learnt that
\* its SET succeeded.
DeadLockExpires ==
    /\ lock # NoOwner
    /\ At(lock, "idle")
    /\ lock' = NoOwner
    /\ UNCHANGED <<vars, caller, measured, queue, flusher, lapsed, faults>>

\* The owner is alive but slower than 120 s; it does not notice.
LiveLockExpires ==
    /\ Fault
    /\ lock # NoOwner
    /\ ~At(lock, "idle")
    /\ lock' = NoOwner
    /\ UNCHANGED <<vars, caller, measured, queue, flusher, lapsed>>

----------------------------------------------------------------------------
CallerStep ==
    \E r \in Requests :
        \/ \E a \in Estimates : Admit(r, a) \/ AdmitUnacknowledged(r, a)
        \/ \E c \in Amounts :
              \/ Finalize(r, c)
              \/ FinalizeUnacknowledged(r, c)
              \/ FinalizeUnavailable(r, c)
        \/ Refuse(r) \/ Enqueue(r) \/ EnqueueFails(r) \/ CallerCrash(r)
        \/ Lapse(r)

FlusherStep(f) ==
    \/ AcquireLock(f) \/ Peek(f) \/ ReplayEntry(f) \/ ReplayOutOfRange(f)
    \/ AckSettlements(f) \/ ReleaseLock(f)

FlusherFault(f) == ReplayUnacknowledged(f) \/ FlushAborts(f) \/ FlusherCrash(f)

ConsoleStep == (OperatorStep \/ OtherStep) /\ UNCHANGED replayVars

ReplayNext ==
    \/ CallerStep
    \/ \E f \in Flushers : FlusherStep(f) \/ FlusherFault(f)
    \/ DeadLockExpires \/ LiveLockExpires
    \/ ConsoleStep

ReplaySpec == ReplayInit /\ [][ReplayNext]_allVars

\* The cron keeps invoking the flush and every invocation runs until it ends
\* or a fault stops it; a lock nobody works under expires.  Callers, operators
\* and faults are under no obligation.
FairReplaySpec ==
    /\ ReplaySpec
    /\ \A f \in Flushers : WF_allVars(FlusherStep(f))
    /\ WF_allVars(DeadLockExpires)

----------------------------------------------------------------------------
(* Properties.                                                             *)

Queued(r) == \E i \in 1..Len(queue) : queue[i].req = r

\* A measured charge is never dropped: once finalizeQuota or releaseQuota has
\* returned to its caller, the charge is in the journal or still in the queue,
\* whatever overlapping flushes, lost acknowledgements, expired locks and
\* crashes did in between ("peek/commit/owner-checked-ack").
AnsweredIsKept ==
    \A r \in Requests :
        caller[r] = "answered" => journal[r].state = "applied" \/ Queued(r)

\* A hold is completed only with the amount its own caller measured: a crash or
\* an expired reservation never turns unknown usage into a refund, and no
\* replay charges another amount.
ChargedAsMeasured ==
    \A r \in Requests :
        journal[r].state = "applied" => journal[r].amount = measured[r]

InRange(r) ==
    /\ Safe(users[Payer[r]].quota + Delta(r, measured[r]))
    /\ Safe(users[Payer[r]].usedQuota + measured[r])

\* Whatever callers, flushes and their failures do to the ledger, it stays the
\* ledger: every replay is one of its own transactions or writes nothing.
RunsTheLedger == Spec

\* The bookkeeping that AnsweredIsKept and ChargedAsMeasured rest on.
CallersAgree ==
    \A r \in Requests :
        /\ caller[r] = "idle" => journal[r].state = "absent"
        /\ caller[r] = "serving" => journal[r].state = "pending"
        /\ caller[r] \in {"idle", "serving"} => measured[r] = NotMeasured
        /\ caller[r] = "queueing" =>
               measured[r] # NotMeasured /\ journal[r].state # "absent"

Known(e) ==
    /\ e.actual = measured[e.req]
    /\ journal[e.req].state # "absent"

EntriesKnown ==
    /\ \A i \in 1..Len(queue) : Known(queue[i])
    /\ \A f \in Flushers :
          \A i \in 1..Len(flusher[f].batch) : Known(flusher[f].batch[i])

\* Where a flush stands in its batch, and what it may assume there.
Position(f) ==
    /\ At(f, "replay") => flusher[f].next \in 1..Len(flusher[f].batch)
    /\ At(f, "ack") => flusher[f].next = Len(flusher[f].batch) + 1
    /\ At(f, "replay") \/ At(f, "ack") =>
          /\ \A i \in 1..Len(flusher[f].batch) :
                i < flusher[f].next =>
                    journal[flusher[f].batch[i].req].state = "applied"
          /\ lock = f =>
                /\ Len(flusher[f].batch) <= Len(queue)
                /\ \A i \in 1..Len(flusher[f].batch) :
                      queue[i] = flusher[f].batch[i]

\* A flush acknowledges exactly what it peeked: entries carry the measured
\* amount of a reserved request, everything before the cursor is applied, and
\* while the lock is still its own the batch is a prefix of the queue.
QueueDiscipline ==
    /\ CallersAgree
    /\ EntriesKnown
    /\ \A f \in Flushers : Position(f)

\* An answered request is eventually billed, as long as the cron keeps running
\* and its own account can take the charge (ARCHITECTURE.md: the measured
\* outcome is queued for idempotent replay).
SettleableIsBilled ==
    \A r \in Requests :
        caller[r] = "answered" ~> (journal[r].state = "applied" \/ ~InRange(r))

\* An entry that its account cannot take stops the flushes behind it.
Blocked == \E r \in Requests : Queued(r) /\ ~InRange(r)

\* Short of that, every answered request is billed, entries that were replayed
\* are acknowledged in the end, the queue is emptied again and again, and the
\* lock is not kept for ever (flushSettlements, as long as the cron keeps running).
QueueSettles ==
    /\ \A r \in Requests :
          caller[r] = "answered" ~> (journal[r].state = "applied" \/ Blocked)
    /\ []<>((queue = <<>> /\ lock = NoOwner) \/ Blocked)
============================================================================
