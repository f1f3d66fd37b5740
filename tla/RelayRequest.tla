---------------------------- MODULE RelayRequest ----------------------------
(***************************************************************************)
(* One relayed call from admission to its last row: lib/relay/pipeline.ts  *)
(* (buffered and streamed replies) and lib/relay/passthrough.ts.  A call   *)
(* takes a lease of the user's concurrency set, holds quota, runs the      *)
(* channel retry loop (one step here), measures what the provider did,     *)
(* settles, writes a usage row and gives the lease back - and every exit   *)
(* in between has its own idea of which of these are still owed.           *)
(*                                                                         *)
(* A stream outlives relay(): from then on its pull callback and the       *)
(* client's cancel race to finish it.  All requests are of one user, whose *)
(* key has a rate limit (without one there is no lease).                   *)
(*                                                                         *)
(* A fault is a call to Mongo or the shared store that fails or loses its  *)
(* reply, or the death of the process; a behaviour has at most MaxFaults.  *)
(***************************************************************************)
EXTENDS Integers, FiniteSets

CONSTANTS
    Requests,
    Mode,       \* [Requests -> {"buffered", "stream", "passthrough"}]
    Ceiling,    \* concurrencyCeiling of the key
    MaxUsage,   \* bound: what a provider can report, in quota
    MaxFaults   \* bound: faults in one behaviour

ASSUME RelayAssumption ==
    /\ Mode \in [Requests -> {"buffered", "stream", "passthrough"}]
    /\ Ceiling \in Nat \ {0}
    /\ MaxUsage \in Nat
    /\ MaxFaults \in Nat

VARIABLES
    pc,        \* [Requests -> Phases]
    leases,    \* members of the concurrency set in the shared store
    hold,      \* [Requests -> [phase, charge]]: the journal row
    reserved,  \* requests whose relay() would still release the hold
    unleased,  \* requests that called lease.release or never had a lease
    unsettled, \* requests that keep a settlement error to rethrow
    seen,      \* [Requests -> Nat]: usage the translator has seen so far
    output,    \* requests whose client got part of a stream
    bill,      \* [Requests -> measured charge, Unmeasured before]
    status,    \* [Requests -> status of the settlement]
    rows,      \* [Requests -> usage rows recorded]
    struck,    \* history: requests that met a fault
    faults     \* history: faults so far (bounded by MaxFaults)

flags == <<reserved, unleased, unsettled>>
vars == <<pc, leases, hold, flags, seen, output, bill, status, rows, struck, faults>>

Unmeasured == -1

\* Phases in which the provider may be working for the request.
Relaying == {"upstream", "body", "stream"}
Settling == {"finalize", "row", "unlease"}
Rejecting == {"malformed", "malformedLease", "catch", "errorRow", "errorUnlease"}
Ended == {"ended", "failed", "refused", "crashed"}
Phases == {"new", "reserve"} \cup Relaying \cup Settling \cup Rejecting \cup Ended

Statuses == {"success", "error", "aborted"}

Init ==
    /\ pc = [r \in Requests |-> "new"]
    /\ leases = {}
    /\ hold = [r \in Requests |-> [phase |-> "none", charge |-> 0]]
    /\ reserved = {}
    /\ unleased = Requests
    /\ unsettled = {}
    /\ seen = [r \in Requests |-> 0]
    /\ output = {}
    /\ bill = [r \in Requests |-> Unmeasured]
    /\ status = [r \in Requests |-> "success"]
    /\ rows = [r \in Requests |-> {}]
    /\ struck = {}
    /\ faults = 0

At(r, phases) == pc[r] \in phases
Goto(r, phase) == pc' = [pc EXCEPT ![r] = phase]

NoFault == UNCHANGED <<struck, faults>>
Fault(r) == /\ faults < MaxFaults
            /\ faults' = faults + 1
            /\ struck' = struck \cup {r}

Metering == <<seen, output, bill, status>>

----------------------------------------------------------------------------
(* Calls into the ledger and the shared store.                             *)

\* finalizeQuota and releaseQuota complete a pending hold once; a row that is
\* already applied, or queued with a charge, is left as it is.
Close(r, charge, phase) ==
    hold' = [hold EXCEPT ![r] =
                IF hold[r].phase = "pending"
                THEN [phase |-> phase, charge |-> charge] ELSE hold[r]]

\* finalizeQuota returned: applied, or Mongo was down and the charge is queued.
Closes(r, charge) ==
    \/ NoFault /\ Close(r, charge, "closed")
    \/ Fault(r) /\ Close(r, charge, "queued")

\* It threw: neither Mongo nor the queue answered, whatever they had done.
CloseThrows(r, charge) ==
    /\ Fault(r)
    /\ UNCHANGED hold \/ Close(r, charge, "closed") \/ Close(r, charge, "queued")

\* .catch(() => {}): the release path does not care.
ReleaseQuota(r) == Closes(r, 0) \/ CloseThrows(r, 0)

\* releaseLease, at most once; a failed ZREM leaves the member to its TTL.
ReleaseLease(r) ==
    /\ IF r \in unleased
         THEN NoFault /\ UNCHANGED leases
         ELSE \/ NoFault /\ leases' = leases \ {r}
              \/ Fault(r) /\ UNCHANGED leases
    /\ unleased' = unleased \cup {r}
    /\ UNCHANGED <<reserved, unsettled>>

\* recordUsage, whose failure is swallowed.
RecordUsage(r, row) ==
    \/ NoFault /\ rows' = [rows EXCEPT ![r] = @ \cup {row}]
    \/ Fault(r) /\ UNCHANGED rows

----------------------------------------------------------------------------
(* Admission.                                                              *)

\* An allowlist, a rate limit, the success window or the ceiling says no; no
\* row is written.
Refuse(r) ==
    /\ At(r, {"new"})
    /\ Goto(r, "refused")
    /\ UNCHANGED <<leases, hold, flags, Metering, rows, struck, faults>>

\* acquireConcurrency: the script counts and adds in one step.
Admit(r) ==
    /\ At(r, {"new"})
    /\ Cardinality(leases) < Ceiling
    /\ leases' = leases \cup {r}
    /\ unleased' = unleased \ {r}
    /\ Goto(r, "reserve")
    /\ UNCHANGED <<hold, reserved, unsettled, Metering, rows, struck, faults>>

\* The member was added but the reply is lost: nobody will remove it.
AdmitUnacknowledged(r) ==
    /\ Fault(r)
    /\ At(r, {"new"})
    /\ Cardinality(leases) < Ceiling
    /\ leases' = leases \cup {r}
    /\ Goto(r, "refused")
    /\ UNCHANGED <<hold, flags, Metering, rows>>

TakeHold(r) ==
    hold' = [hold EXCEPT ![r] = [phase |-> "pending", charge |-> 0]]

Reserve(r) ==
    /\ At(r, {"reserve"})
    /\ TakeHold(r)
    /\ reserved' = reserved \cup {r}
    /\ Goto(r, "upstream")
    /\ UNCHANGED <<leases, unleased, unsettled, Metering, rows, struck, faults>>

\* Pricing, the token budget or the balance says no - or the hold committed and
\* its acknowledgement was lost.
ReserveFails(r) ==
    /\ At(r, {"reserve"})
    /\ \/ NoFault /\ UNCHANGED hold
       \/ Fault(r) /\ TakeHold(r)
    /\ Goto(r, "catch")
    /\ UNCHANGED <<leases, flags, Metering, rows>>

----------------------------------------------------------------------------
(* The provider.                                                           *)

\* Every attempt failed, or the client hung up before one succeeded.
UpstreamFails(r) ==
    /\ At(r, {"upstream"})
    /\ Goto(r, "catch")
    /\ UNCHANGED <<leases, hold, flags, Metering, rows, struck, faults>>

\* A provider accepted.  A stream owns its hold from here on: reserved = false.
UpstreamAnswers(r) ==
    /\ At(r, {"upstream"})
    /\ IF Mode[r] = "stream"
         THEN /\ reserved' = reserved \ {r}
              /\ Goto(r, "stream")
         ELSE /\ UNCHANGED reserved
              /\ Goto(r, "body")
    /\ UNCHANGED <<leases, hold, unleased, unsettled, Metering, rows, struck, faults>>

\* Not JSON, or a stream without a body: release the hold, then the lease, then
\* throw into the catch block.  Passthrough forwards what it cannot parse.
Malformed(r) ==
    /\ \/ At(r, {"upstream"}) /\ Mode[r] = "stream"
       \/ At(r, {"body"}) /\ Mode[r] = "buffered"
    /\ Goto(r, "malformed")
    /\ UNCHANGED <<leases, hold, flags, Metering, rows, struck, faults>>

BadReleaseMalformed(r) ==
    /\ At(r, {"malformed"})
    /\ UNCHANGED <<hold, struck, faults>>
    /\ reserved' = reserved \ {r}
    /\ Goto(r, "malformedLease")
    /\ UNCHANGED <<leases, unleased, unsettled, Metering, rows>>

ReleaseMalformed(r) ==
    /\ At(r, {"malformed"})
    /\ ReleaseQuota(r)
    /\ reserved' = reserved \ {r}
    /\ Goto(r, "malformedLease")
    /\ UNCHANGED <<leases, unleased, unsettled, Metering, rows>>

ReleaseMalformedLease(r) ==
    /\ At(r, {"malformedLease"})
    /\ ReleaseLease(r)
    /\ Goto(r, "catch")
    /\ UNCHANGED <<hold, Metering, rows>>

\* The body breaks off, is too long or cannot be translated.
BodyFails(r) ==
    /\ At(r, {"body"})
    /\ Goto(r, "catch")
    /\ UNCHANGED <<leases, hold, flags, Metering, rows, struck, faults>>

BadStartSettle(r, usage, outcome) ==
    /\ bill' = [bill EXCEPT ![r] = usage]
    /\ status' = [status EXCEPT ![r] = outcome]
    /\ Goto(r, "finalize")
    /\ UNCHANGED flags

\* The synchronous start of settle: measured, and no longer refundable.
StartSettle(r, usage, outcome) ==
    /\ bill' = [bill EXCEPT ![r] = usage]
    /\ status' = [status EXCEPT ![r] = outcome]
    /\ reserved' = reserved \ {r}
    /\ Goto(r, "finalize")
    /\ UNCHANGED <<unleased, unsettled>>

BodyRead(r) ==
    /\ At(r, {"body"})
    /\ \E usage \in 0..MaxUsage : StartSettle(r, usage, "success")
    /\ UNCHANGED <<leases, hold, seen, output, rows, struck, faults>>

\* pull reads an event: output for the client, or a usage report.
StreamChunk(r) ==
    /\ At(r, {"stream"})
    /\ \/ /\ output' = output \cup {r}
          /\ UNCHANGED seen
       \/ /\ \E usage \in 0..MaxUsage :
                usage > seen[r] /\ seen' = [seen EXCEPT ![r] = usage]
          /\ UNCHANGED output
    /\ UNCHANGED <<pc, leases, hold, flags, bill, status, rows, struck, faults>>

\* finishStream: end of stream, an upstream error, or a failing translation.
FinishStream(r) ==
    /\ At(r, {"stream"})
    /\ \E outcome \in {"success", "error"} : StartSettle(r, seen[r], outcome)
    /\ UNCHANGED <<leases, hold, seen, output, rows, struck, faults>>

BadCancel(r) ==
    /\ At(r, {"stream"})
    /\ Goto(r, "ended")
    /\ UNCHANGED <<leases, hold, flags, Metering, rows, struck, faults>>

\* The client hangs up first.  Once finishStream has begun, cancel finds
\* settled set and does nothing.
Cancel(r) ==
    /\ At(r, {"stream"})
    /\ StartSettle(r, seen[r], "aborted")
    /\ UNCHANGED <<leases, hold, seen, output, rows, struck, faults>>

----------------------------------------------------------------------------
(* settle, after its first await.                                          *)

Finalize(r) ==
    /\ At(r, {"finalize"})
    /\ Closes(r, bill[r])
    /\ Goto(r, "row")
    /\ UNCHANGED <<leases, flags, Metering, rows>>

\* The pipeline keeps the error for later; passthrough throws at once.
FinalizeThrows(r) ==
    /\ At(r, {"finalize"})
    /\ CloseThrows(r, bill[r])
    /\ unsettled' = unsettled \cup {r}
    /\ Goto(r, IF Mode[r] = "passthrough" THEN "catch" ELSE "row")
    /\ UNCHANGED <<leases, reserved, unleased, Metering, rows>>

BadRecordSettled(r) ==
    /\ At(r, {"row"})
    /\ RecordUsage(r, [status |-> status[r], quota |-> bill[r] + hold[r].charge])
    /\ Goto(r, "unlease")
    /\ UNCHANGED <<leases, hold, flags, Metering>>

RecordSettled(r) ==
    /\ At(r, {"row"})
    /\ RecordUsage(r, [status |-> status[r], quota |-> bill[r]])
    /\ Goto(r, "unlease")
    /\ UNCHANGED <<leases, hold, flags, Metering>>

\* A settlement error is rethrown: a buffered call ends up in its catch block, a
\* stream has none left.
ReleaseSettled(r) ==
    /\ At(r, {"unlease"})
    /\ ReleaseLease(r)
    /\ Goto(r, IF r \notin unsettled THEN "ended"
               ELSE IF Mode[r] = "stream" THEN "failed" ELSE "catch")
    /\ UNCHANGED <<hold, Metering, rows>>

----------------------------------------------------------------------------
(* The catch block of relay and relayPassthrough.                          *)

Catch(r) ==
    /\ At(r, {"catch"})
    /\ IF r \in reserved THEN ReleaseQuota(r) ELSE UNCHANGED <<hold, struck, faults>>
    /\ Goto(r, "errorRow")
    /\ UNCHANGED <<leases, flags, Metering, rows>>

RecordError(r) ==
    /\ At(r, {"errorRow"})
    /\ RecordUsage(r, [status |-> "error", quota |-> 0])
    /\ Goto(r, "errorUnlease")
    /\ UNCHANGED <<leases, hold, flags, Metering>>

ReleaseFailed(r) ==
    /\ At(r, {"errorUnlease"})
    /\ ReleaseLease(r)
    /\ Goto(r, "failed")
    /\ UNCHANGED <<hold, Metering, rows>>

----------------------------------------------------------------------------
Crash(r) ==
    /\ Fault(r)
    /\ ~At(r, Ended \cup {"new"})
    /\ Goto(r, "crashed")
    /\ UNCHANGED <<leases, hold, flags, Metering, rows>>

BadLeaseExpires(r) ==
    /\ r \in leases
    /\ leases' = leases \ {r}
    /\ UNCHANGED <<pc, hold, flags, Metering, rows, struck, faults>>

BadLeaseStrands(r) ==
    /\ r \in leases
    /\ At(r, Ended) /\ r \notin unleased
    /\ leases' = leases \ {r}
    /\ UNCHANGED <<pc, hold, flags, Metering, rows, struck, faults>>

\* ttlMs outlives the upload, the retry budget and the provider's lifetime, so
\* only a member whose request is over expires.
LeaseExpires(r) ==
    /\ r \in leases
    /\ At(r, Ended)
    /\ leases' = leases \ {r}
    /\ UNCHANGED <<pc, hold, flags, Metering, rows, struck, faults>>

\* flushQuotaSettlements (SettlementReplay) applies the queued charge.
Replay(r) ==
    /\ hold[r].phase = "queued"
    /\ hold' = [hold EXCEPT ![r] = [phase |-> "closed", charge |-> hold[r].charge]]
    /\ UNCHANGED <<pc, leases, flags, Metering, rows, struck, faults>>

Proceeds(r) ==
    \/ Refuse(r) \/ Admit(r) \/ AdmitUnacknowledged(r)
    \/ Reserve(r) \/ ReserveFails(r)
    \/ UpstreamFails(r) \/ UpstreamAnswers(r)
    \/ Malformed(r) \/ ReleaseMalformed(r) \/ ReleaseMalformedLease(r)
    \/ BodyFails(r) \/ BodyRead(r)
    \/ StreamChunk(r) \/ FinishStream(r) \/ Cancel(r)
    \/ Finalize(r) \/ FinalizeThrows(r) \/ RecordSettled(r) \/ ReleaseSettled(r)
    \/ Catch(r) \/ RecordError(r) \/ ReleaseFailed(r)

Next == \E r \in Requests :
            Proceeds(r) \/ Crash(r) \/ LeaseExpires(r) \/ Replay(r)

Spec == Init /\ [][Next]_vars

\* A live call goes on: header, idle and total timers bound every wait for the
\* provider.  TTLs run out and the reconcile cron runs.
FairSpec ==
    /\ Spec
    /\ \A r \in Requests :
          WF_vars(Proceeds(r)) /\ WF_vars(LeaseExpires(r)) /\ WF_vars(Replay(r))

----------------------------------------------------------------------------
(* Properties.                                                             *)

\* Every variable has its type.
TypeOK ==
    /\ pc \in [Requests -> Phases]
    /\ leases \subseteq Requests
    /\ hold \in [Requests -> [phase: {"none", "pending", "queued", "closed"},
                              charge: 0..MaxUsage]]
    /\ reserved \subseteq Requests /\ unleased \subseteq Requests
    /\ unsettled \subseteq Requests
    /\ seen \in [Requests -> 0..MaxUsage]
    /\ output \subseteq Requests
    /\ bill \in [Requests -> 0..MaxUsage \cup {Unmeasured}]
    /\ status \in [Requests -> Statuses]
    /\ rows \in [Requests -> SUBSET [status: Statuses, quota: 0..MaxUsage]]
    /\ struck \subseteq Requests
    /\ faults \in 0..MaxFaults

\* The user never has more calls at providers than the key's ceiling, although
\* several exits give the lease back early and lost replies strand members.
WithinCeiling ==
    Cardinality({r \in Requests : At(r, Relaying \cup {"finalize"})}) <= Ceiling

\* Measured work is never refunded: whatever fails after the measurement, the
\* hold is still open, or is charged exactly what was measured.
MeasuredIsCharged ==
    \A r \in Requests :
        bill[r] # Unmeasured =>
            \/ hold[r].phase = "pending"
            \/ hold[r].phase \in {"queued", "closed"} /\ hold[r].charge = bill[r]

\* A call that met no fault leaves nothing behind, whichever exit it took: no
\* open hold, no lease.
NothingLeaks ==
    \A r \in Requests :
        At(r, Ended) /\ r \notin struck =>
            hold[r].phase \in {"none", "closed"} /\ r \notin leases

\* ... and the usage ledger has one row for it, with what the account paid.
RowTellsTheBill ==
    \A r \in Requests :
        At(r, {"ended", "failed"}) /\ r \notin struck =>
            \E row \in rows[r] : rows[r] = {row} /\ row.quota = hold[r].charge

\* A hold is open for ever only if its owner died or every way to close it
\* failed, and members of the concurrency set come and go: no fault takes a slot
\* for good (finalizeQuota, releaseQuota and the leases of relay/pipeline.ts).
RequestsSettle ==
    \A r \in Requests :
        /\ hold[r].phase = "pending" ~> hold[r].phase = "closed" \/ r \in struck
        /\ r \in leases ~> r \notin leases

\* relay/pipeline.ts: "Settle for what was actually consumed".  Checked to fail.
AbandonedIsMetered ==
    \A r \in output : \A row \in rows[r] : row.status = "aborted" => row.quota > 0
=============================================================================
