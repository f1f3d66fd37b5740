------------------------- MODULE RelayRequestProofs -------------------------
(***************************************************************************)
(* Proofs about RelayRequest for any requests, modes, ceiling, usage and   *)
(* number of faults.                                                       *)
(*                                                                         *)
(* MeasuredIsCharged and WithinCeiling are not inductive: the first needs  *)
(* to know that a request about to settle still has an open hold and that  *)
(* one that would release it has measured nothing, the second that every   *)
(* request in front of a provider owns a member of the lease set.  Owns    *)
(* says both, request by request.  NothingLeaks and RowTellsTheBill speak  *)
(* of the end of a call that met no fault; Owes says, for each phase on    *)
(* the way there, what such a call still has to close, write and give up.  *)
(***************************************************************************)
EXTENDS RelayRequest, FiniteSetTheorems, TLAPS

\* What one request's flags say about its phase, its hold and its lease.
Owns(r) ==
    /\ r \notin unleased /\ pc[r] \notin Ended => r \in leases
    /\ pc[r] \in {"reserve", "finalize"} \cup Relaying => r \notin unleased
    /\ pc[r] \in Relaying => hold[r].phase = "pending"
    /\ pc[r] \in {"new", "reserve", "malformed"} \cup Relaying => bill[r] = Unmeasured
    /\ pc[r] \in {"finalize", "row"} => bill[r] # Unmeasured
    /\ r \in reserved => bill[r] = Unmeasured
    /\ bill[r] # Unmeasured =>
          \/ hold[r].phase = "pending"
          \/ hold[r].phase \in {"queued", "closed"} /\ hold[r].charge = bill[r]

\* What a request that met no fault still owes.  Until it settles its hold is
\* charged nothing, and afterwards what was measured; a hold is open exactly
\* where a later step will close it: the settlement, the release of a malformed
\* reply, or the catch block while the request is reserved.
Owes(r) == r \notin struck =>
    /\ pc[r] \in Ended \cup {"new"} => r \in unleased
    /\ r \in unleased => r \notin leases
    /\ r \notin unsettled
    /\ pc[r] \in {"upstream", "body"} => r \in reserved
    /\ pc[r] = "catch" => hold[r].phase \in {"none", "closed"} \/ r \in reserved
    /\ pc[r] \in {"new", "reserve", "refused"} => hold[r].phase = "none"
    /\ pc[r] = "finalize" => hold[r].phase = "pending"
    /\ pc[r] \in {"malformedLease", "errorRow", "errorUnlease", "failed"} =>
          hold[r].phase \in {"none", "closed"}
    /\ pc[r] \in {"malformed", "catch"} => hold[r].phase # "queued"
    /\ pc[r] \in {"row", "unlease", "ended"} =>
          hold[r].phase = "closed" /\ hold[r].charge = bill[r]
    /\ pc[r] \notin {"row", "unlease", "ended"} => hold[r].charge = 0
    /\ pc[r] \notin {"unlease", "ended", "errorUnlease", "failed"} => rows[r] = {}
    /\ pc[r] \in {"unlease", "ended"} =>
          rows[r] = {[status |-> status[r], quota |-> bill[r]]}
    /\ pc[r] \in {"errorUnlease", "failed"} =>
          rows[r] = {[status |-> "error", quota |-> 0]}
    /\ pc[r] # "crashed"

\* The concurrency script never lets the set grow past the ceiling.
LeaseCount == IsFiniteSet(leases) /\ Cardinality(leases) <= Ceiling

RelayInv == TypeOK /\ LeaseCount /\ \A r \in Requests : Owns(r)

USE RelayAssumption DEF Unmeasured, At, Goto, NoFault, Fault, Metering, flags,
                        Relaying, Settling, Rejecting, Ended, Phases, Statuses

----------------------------------------------------------------------------
(* Steps of the lease set and of one hold.                                 *)

\* acquireConcurrency adds a member only below the ceiling.
LEMMA LeaseJoins ==
    ASSUME LeaseCount, NEW r, Cardinality(leases) < Ceiling,
           leases' = leases \cup {r}
    PROVE  LeaseCount'
<1>1. IsFiniteSet(leases') /\ Cardinality(leases') <= Cardinality(leases) + 1
  BY FS_AddElement, FS_CardinalityType DEF LeaseCount
<1> QED BY <1>1, FS_CardinalityType DEF LeaseCount

\* A released or expired member, or none, leaves it.
LEMMA LeaseLeaves ==
    ASSUME LeaseCount, NEW r, leases' = leases \ {r} \/ leases' = leases
    PROVE  LeaseCount'
<1>1. IsFiniteSet(leases') /\ Cardinality(leases') <= Cardinality(leases)
  BY FS_RemoveElement, FS_CardinalityType DEF LeaseCount
<1> QED BY <1>1, FS_CardinalityType DEF LeaseCount

\* complete leaves a hold of the journal's type, charges an open one and no
\* other, and touches no other request's.
LEMMA CloseKeeps ==
    ASSUME TypeOK, NEW r \in Requests, NEW c \in 0..MaxUsage,
           Closes(r, c) \/ CloseThrows(r, c)
    PROVE  /\ hold' \in [Requests -> [phase: {"none", "pending", "queued", "closed"},
                                      charge: 0..MaxUsage]]
           /\ \A q \in Requests \ {r} : hold'[q] = hold[q]
           /\ \/ hold'[r] = hold[r]
              \/ /\ hold[r].phase = "pending"
                 /\ hold'[r].phase \in {"queued", "closed"}
                 /\ hold'[r].charge = c
           /\ NoFault \/ Fault(r)
<1>1. CASE UNCHANGED hold
  BY <1>1 DEF TypeOK, Closes, CloseThrows, Close
<1>2. ASSUME NEW ph \in {"queued", "closed"}, Close(r, c, ph)
      PROVE  /\ hold' \in [Requests -> [phase: {"none", "pending", "queued", "closed"},
                                        charge: 0..MaxUsage]]
             /\ \A q \in Requests \ {r} : hold'[q] = hold[q]
             /\ \/ hold'[r] = hold[r]
                \/ /\ hold[r].phase = "pending"
                   /\ hold'[r].phase \in {"queued", "closed"}
                   /\ hold'[r].charge = c
  <2>1. CASE hold[r].phase = "pending"
    BY <1>2, <2>1 DEF TypeOK, Close
  <2>2. CASE hold[r].phase # "pending"
    BY <1>2, <2>2 DEF TypeOK, Close
  <2> QED BY <2>1, <2>2
<1> QED BY <1>1, <1>2 DEF Closes, CloseThrows

----------------------------------------------------------------------------
(* One lemma for all steps, a step of the proof for each action.           *)

\* Every step of one request keeps the invariant.
LEMMA StepInv ==
    ASSUME RelayInv, NEW r \in Requests,
           Proceeds(r) \/ Crash(r) \/ LeaseExpires(r) \/ Replay(r)
    PROVE  TypeOK' /\ LeaseCount' /\ \A q \in Requests : Owns(q)'
<1> USE DEF RelayInv
<1>1. ASSUME Refuse(r) PROVE TypeOK' /\ LeaseCount' /\ \A q \in Requests : Owns(q)'
  <2>1. TypeOK'
    BY <1>1 DEF TypeOK, Owns, Refuse
  <2>2. \A q \in Requests : Owns(q)'
    BY <1>1 DEF TypeOK, Owns, Refuse
  <2>3. LeaseCount'
    BY <1>1 DEF LeaseCount, Refuse
  <2> QED BY <2>1, <2>2, <2>3
<1>2. ASSUME Admit(r) PROVE TypeOK' /\ LeaseCount' /\ \A q \in Requests : Owns(q)'
  <2>1. TypeOK'
    BY <1>2 DEF TypeOK, Owns, Admit
  <2>2. \A q \in Requests : Owns(q)'
    BY <1>2 DEF TypeOK, Owns, Admit
  <2>3. LeaseCount'
    BY <1>2, LeaseJoins DEF Admit
  <2> QED BY <2>1, <2>2, <2>3
<1>3. ASSUME AdmitUnacknowledged(r) PROVE TypeOK' /\ LeaseCount' /\ \A q \in Requests : Owns(q)'
  <2>1. TypeOK'
    BY <1>3 DEF TypeOK, Owns, AdmitUnacknowledged
  <2>2. \A q \in Requests : Owns(q)'
    BY <1>3 DEF TypeOK, Owns, AdmitUnacknowledged
  <2>3. LeaseCount'
    BY <1>3, LeaseJoins DEF AdmitUnacknowledged
  <2> QED BY <2>1, <2>2, <2>3
<1>4. ASSUME Reserve(r) PROVE TypeOK' /\ LeaseCount' /\ \A q \in Requests : Owns(q)'
  <2>1. TypeOK'
    BY <1>4 DEF TypeOK, Owns, Reserve, TakeHold
  <2>2. \A q \in Requests : Owns(q)'
    <3>1. hold'[r].phase = "pending" /\ bill[r] = Unmeasured
      BY <1>4 DEF TypeOK, Owns, Reserve, TakeHold
    <3>2. Owns(r)'
      BY <1>4, <3>1 DEF TypeOK, Owns, Reserve
    <3>3. \A q \in Requests \ {r} : Owns(q)'
      BY <1>4 DEF TypeOK, Owns, Reserve, TakeHold
    <3> QED BY <3>2, <3>3
  <2>3. LeaseCount'
    BY <1>4 DEF LeaseCount, Reserve, TakeHold
  <2> QED BY <2>1, <2>2, <2>3
<1>5. ASSUME ReserveFails(r) PROVE TypeOK' /\ LeaseCount' /\ \A q \in Requests : Owns(q)'
  <2>1. TypeOK'
    BY <1>5 DEF TypeOK, Owns, ReserveFails, TakeHold
  <2>2. \A q \in Requests : Owns(q)'
    BY <1>5 DEF TypeOK, Owns, ReserveFails, TakeHold
  <2>3. LeaseCount'
    BY <1>5 DEF LeaseCount, ReserveFails, TakeHold
  <2> QED BY <2>1, <2>2, <2>3
<1>6. ASSUME UpstreamFails(r) PROVE TypeOK' /\ LeaseCount' /\ \A q \in Requests : Owns(q)'
  <2>1. TypeOK'
    BY <1>6 DEF TypeOK, Owns, UpstreamFails
  <2>2. \A q \in Requests : Owns(q)'
    BY <1>6 DEF TypeOK, Owns, UpstreamFails
  <2>3. LeaseCount'
    BY <1>6 DEF LeaseCount, UpstreamFails
  <2> QED BY <2>1, <2>2, <2>3
<1>7. ASSUME UpstreamAnswers(r) PROVE TypeOK' /\ LeaseCount' /\ \A q \in Requests : Owns(q)'
  <2>1. TypeOK'
    BY <1>7 DEF TypeOK, Owns, UpstreamAnswers
  <2>2. \A q \in Requests : Owns(q)'
    BY <1>7 DEF TypeOK, Owns, UpstreamAnswers
  <2>3. LeaseCount'
    BY <1>7 DEF LeaseCount, UpstreamAnswers
  <2> QED BY <2>1, <2>2, <2>3
<1>8. ASSUME Malformed(r) PROVE TypeOK' /\ LeaseCount' /\ \A q \in Requests : Owns(q)'
  <2>1. TypeOK'
    BY <1>8 DEF TypeOK, Owns, Malformed
  <2>2. \A q \in Requests : Owns(q)'
    BY <1>8 DEF TypeOK, Owns, Malformed
  <2>3. LeaseCount'
    BY <1>8 DEF LeaseCount, Malformed
  <2> QED BY <2>1, <2>2, <2>3
<1>9. ASSUME ReleaseMalformed(r) PROVE TypeOK' /\ LeaseCount' /\ \A q \in Requests : Owns(q)'
  <2>1. 0 \in 0..MaxUsage /\ (Closes(r, 0) \/ CloseThrows(r, 0))
    BY <1>9 DEF TypeOK, Owns, ReleaseMalformed, ReleaseQuota
  <2>2. TypeOK'
    BY <1>9, <2>1, CloseKeeps DEF TypeOK, ReleaseMalformed
  <2>3. \A q \in Requests : Owns(q)'
    BY <1>9, <2>1, CloseKeeps DEF TypeOK, Owns, ReleaseMalformed
  <2>4. LeaseCount'
    BY <1>9 DEF LeaseCount, ReleaseMalformed
  <2> QED BY <2>2, <2>3, <2>4
<1>10. ASSUME ReleaseMalformedLease(r) PROVE TypeOK' /\ LeaseCount' /\ \A q \in Requests : Owns(q)'
  <2>1. TypeOK'
    BY <1>10 DEF TypeOK, Owns, ReleaseMalformedLease, ReleaseLease
  <2>2. \A q \in Requests : Owns(q)'
    BY <1>10 DEF TypeOK, Owns, ReleaseMalformedLease, ReleaseLease
  <2>3. LeaseCount'
    BY <1>10, LeaseLeaves DEF ReleaseMalformedLease, ReleaseLease
  <2> QED BY <2>1, <2>2, <2>3
<1>11. ASSUME BodyFails(r) PROVE TypeOK' /\ LeaseCount' /\ \A q \in Requests : Owns(q)'
  <2>1. TypeOK'
    BY <1>11 DEF TypeOK, Owns, BodyFails
  <2>2. \A q \in Requests : Owns(q)'
    BY <1>11 DEF TypeOK, Owns, BodyFails
  <2>3. LeaseCount'
    BY <1>11 DEF LeaseCount, BodyFails
  <2> QED BY <2>1, <2>2, <2>3
<1>12. ASSUME BodyRead(r) PROVE TypeOK' /\ LeaseCount' /\ \A q \in Requests : Owns(q)'
  <2>1. TypeOK'
    BY <1>12 DEF TypeOK, Owns, BodyRead, StartSettle
  <2>2. \A q \in Requests : Owns(q)'
    BY <1>12 DEF TypeOK, Owns, BodyRead, StartSettle
  <2>3. LeaseCount'
    BY <1>12 DEF LeaseCount, BodyRead, StartSettle
  <2> QED BY <2>1, <2>2, <2>3
<1>13. ASSUME StreamChunk(r) PROVE TypeOK' /\ LeaseCount' /\ \A q \in Requests : Owns(q)'
  <2>1. TypeOK'
    BY <1>13 DEF TypeOK, Owns, StreamChunk
  <2>2. \A q \in Requests : Owns(q)'
    BY <1>13 DEF TypeOK, Owns, StreamChunk
  <2>3. LeaseCount'
    BY <1>13 DEF LeaseCount, StreamChunk
  <2> QED BY <2>1, <2>2, <2>3
<1>14. ASSUME FinishStream(r) PROVE TypeOK' /\ LeaseCount' /\ \A q \in Requests : Owns(q)'
  <2>1. TypeOK'
    BY <1>14 DEF TypeOK, Owns, FinishStream, StartSettle
  <2>2. \A q \in Requests : Owns(q)'
    BY <1>14 DEF TypeOK, Owns, FinishStream, StartSettle
  <2>3. LeaseCount'
    BY <1>14 DEF LeaseCount, FinishStream, StartSettle
  <2> QED BY <2>1, <2>2, <2>3
<1>15. ASSUME Cancel(r) PROVE TypeOK' /\ LeaseCount' /\ \A q \in Requests : Owns(q)'
  <2>1. TypeOK'
    BY <1>15 DEF TypeOK, Owns, Cancel, StartSettle
  <2>2. \A q \in Requests : Owns(q)'
    BY <1>15 DEF TypeOK, Owns, Cancel, StartSettle
  <2>3. LeaseCount'
    BY <1>15 DEF LeaseCount, Cancel, StartSettle
  <2> QED BY <2>1, <2>2, <2>3
<1>16. ASSUME Finalize(r) PROVE TypeOK' /\ LeaseCount' /\ \A q \in Requests : Owns(q)'
  <2>1. bill[r] \in 0..MaxUsage /\ (Closes(r, bill[r]) \/ CloseThrows(r, bill[r]))
    BY <1>16 DEF TypeOK, Owns, Finalize, Closes
  <2>2. TypeOK'
    <3>1. hold' \in [Requests -> [phase: {"none", "pending", "queued", "closed"},
                                   charge: 0..MaxUsage]]
      BY <2>1, CloseKeeps
    <3>2. faults' \in 0..MaxFaults /\ struck' \subseteq Requests
      BY <2>1, CloseKeeps DEF TypeOK
    <3> QED BY <1>16, <3>1, <3>2 DEF TypeOK, Finalize
  <2>3. \A q \in Requests : Owns(q)'
    BY <1>16, <2>1, CloseKeeps DEF TypeOK, Owns, Finalize
  <2>4. LeaseCount'
    BY <1>16 DEF LeaseCount, Finalize
  <2> QED BY <2>2, <2>3, <2>4
<1>17. ASSUME FinalizeThrows(r) PROVE TypeOK' /\ LeaseCount' /\ \A q \in Requests : Owns(q)'
  <2>1. bill[r] \in 0..MaxUsage /\ (Closes(r, bill[r]) \/ CloseThrows(r, bill[r]))
    BY <1>17 DEF TypeOK, Owns, FinalizeThrows, CloseThrows
  <2>2. TypeOK'
    BY <1>17, <2>1, CloseKeeps DEF TypeOK, FinalizeThrows
  <2>3. \A q \in Requests : Owns(q)'
    BY <1>17, <2>1, CloseKeeps DEF TypeOK, Owns, FinalizeThrows
  <2>4. LeaseCount'
    BY <1>17 DEF LeaseCount, FinalizeThrows
  <2> QED BY <2>2, <2>3, <2>4
<1>18. ASSUME RecordSettled(r) PROVE TypeOK' /\ LeaseCount' /\ \A q \in Requests : Owns(q)'
  <2>1. TypeOK'
    <3>1. rows' \in [Requests -> SUBSET [status: Statuses, quota: 0..MaxUsage]]
      BY <1>18 DEF TypeOK, Owns, RecordSettled, RecordUsage
    <3>2. faults' \in 0..MaxFaults /\ struck' \subseteq Requests
      BY <1>18 DEF TypeOK, RecordSettled, RecordUsage
    <3> QED BY <1>18, <3>1, <3>2 DEF TypeOK, RecordSettled
  <2>2. \A q \in Requests : Owns(q)'
    BY <1>18 DEF TypeOK, Owns, RecordSettled, RecordUsage
  <2>3. LeaseCount'
    BY <1>18 DEF LeaseCount, RecordSettled, RecordUsage
  <2> QED BY <2>1, <2>2, <2>3
<1>19. ASSUME ReleaseSettled(r) PROVE TypeOK' /\ LeaseCount' /\ \A q \in Requests : Owns(q)'
  <2>1. TypeOK'
    BY <1>19 DEF TypeOK, Owns, ReleaseSettled, ReleaseLease
  <2>2. \A q \in Requests : Owns(q)'
    BY <1>19 DEF TypeOK, Owns, ReleaseSettled, ReleaseLease
  <2>3. LeaseCount'
    BY <1>19, LeaseLeaves DEF ReleaseSettled, ReleaseLease
  <2> QED BY <2>1, <2>2, <2>3
<1>20. ASSUME Catch(r) PROVE TypeOK' /\ LeaseCount' /\ \A q \in Requests : Owns(q)'
  <2>1. CASE r \notin reserved
    <3>1. TypeOK' /\ \A q \in Requests : Owns(q)'
      BY <1>20, <2>1 DEF TypeOK, Owns, Catch
    <3>2. LeaseCount'
      BY <1>20 DEF LeaseCount, Catch
    <3> QED BY <3>1, <3>2
  <2>2. CASE r \in reserved
    <3>1. Closes(r, 0) \/ CloseThrows(r, 0)
      BY <1>20, <2>2 DEF Catch, ReleaseQuota
    <3>2. TypeOK'
      BY <1>20, <2>2, <3>1, CloseKeeps DEF TypeOK, Catch
    <3>3. \A q \in Requests : Owns(q)'
      BY <1>20, <2>2, <3>1, CloseKeeps DEF TypeOK, Owns, Catch
    <3>4. LeaseCount'
      BY <1>20, <2>2 DEF LeaseCount, Catch
    <3> QED BY <3>2, <3>3, <3>4
  <2> QED BY <2>1, <2>2
<1>21. ASSUME RecordError(r) PROVE TypeOK' /\ LeaseCount' /\ \A q \in Requests : Owns(q)'
  <2>1. TypeOK'
    <3>1. rows' \in [Requests -> SUBSET [status: Statuses, quota: 0..MaxUsage]]
      BY <1>21 DEF TypeOK, Owns, RecordError, RecordUsage
    <3>2. faults' \in 0..MaxFaults /\ struck' \subseteq Requests
      BY <1>21 DEF TypeOK, RecordError, RecordUsage
    <3> QED BY <1>21, <3>1, <3>2 DEF TypeOK, RecordError
  <2>2. \A q \in Requests : Owns(q)'
    BY <1>21 DEF TypeOK, Owns, RecordError, RecordUsage
  <2>3. LeaseCount'
    BY <1>21 DEF LeaseCount, RecordError, RecordUsage
  <2> QED BY <2>1, <2>2, <2>3
<1>22. ASSUME ReleaseFailed(r) PROVE TypeOK' /\ LeaseCount' /\ \A q \in Requests : Owns(q)'
  <2>1. TypeOK'
    BY <1>22 DEF TypeOK, Owns, ReleaseFailed, ReleaseLease
  <2>2. \A q \in Requests : Owns(q)'
    BY <1>22 DEF TypeOK, Owns, ReleaseFailed, ReleaseLease
  <2>3. LeaseCount'
    BY <1>22, LeaseLeaves DEF ReleaseFailed, ReleaseLease
  <2> QED BY <2>1, <2>2, <2>3
<1>23. ASSUME Crash(r) PROVE TypeOK' /\ LeaseCount' /\ \A q \in Requests : Owns(q)'
  <2>1. TypeOK'
    BY <1>23 DEF TypeOK, Owns, Crash
  <2>2. \A q \in Requests : Owns(q)'
    BY <1>23 DEF TypeOK, Owns, Crash
  <2>3. LeaseCount'
    BY <1>23 DEF LeaseCount, Crash
  <2> QED BY <2>1, <2>2, <2>3
<1>24. ASSUME LeaseExpires(r) PROVE TypeOK' /\ LeaseCount' /\ \A q \in Requests : Owns(q)'
  <2>1. TypeOK'
    BY <1>24 DEF TypeOK, Owns, LeaseExpires
  <2>2. \A q \in Requests : Owns(q)'
    BY <1>24 DEF TypeOK, Owns, LeaseExpires
  <2>3. LeaseCount'
    BY <1>24, LeaseLeaves DEF LeaseExpires
  <2> QED BY <2>1, <2>2, <2>3
<1>25. ASSUME Replay(r) PROVE TypeOK' /\ LeaseCount' /\ \A q \in Requests : Owns(q)'
  <2>1. TypeOK'
    BY <1>25 DEF TypeOK, Owns, Replay
  <2>2. \A q \in Requests : Owns(q)'
    BY <1>25 DEF TypeOK, Owns, Replay
  <2>3. LeaseCount'
    BY <1>25 DEF LeaseCount, Replay
  <2> QED BY <2>1, <2>2, <2>3
<1> QED
  BY <1>1, <1>2, <1>3, <1>4, <1>5, <1>6, <1>7, <1>8, <1>9, <1>10, <1>11, <1>12, <1>13, <1>14, <1>15, <1>16, <1>17, <1>18, <1>19, <1>20, <1>21, <1>22, <1>23, <1>24, <1>25 DEF Proceeds

----------------------------------------------------------------------------
(* A request that meets no fault: what it owes in each phase.              *)

\* A step of one request leaves the other requests as they are.
SameFor(q) ==
    /\ pc'[q] = pc[q] /\ hold'[q] = hold[q] /\ bill'[q] = bill[q]
    /\ status'[q] = status[q] /\ rows'[q] = rows[q]
    /\ q \in leases' <=> q \in leases
    /\ q \in reserved' <=> q \in reserved
    /\ q \in unleased' <=> q \in unleased
    /\ q \in unsettled' <=> q \in unsettled
    /\ q \in struck' <=> q \in struck

\* No action writes the state of a request other than its own.
LEMMA StepIsLocal ==
    ASSUME TypeOK, NEW r \in Requests, NEW q \in Requests \ {r},
           Proceeds(r) \/ Crash(r) \/ LeaseExpires(r) \/ Replay(r)
    PROVE  SameFor(q)
<1>1. ASSUME Refuse(r) PROVE SameFor(q)
  BY <1>1 DEF TypeOK, SameFor, Refuse
<1>2. ASSUME Admit(r) PROVE SameFor(q)
  BY <1>2 DEF TypeOK, SameFor, Admit
<1>3. ASSUME AdmitUnacknowledged(r) PROVE SameFor(q)
  BY <1>3 DEF TypeOK, SameFor, AdmitUnacknowledged
<1>4. ASSUME Reserve(r) PROVE SameFor(q)
  BY <1>4 DEF TypeOK, SameFor, Reserve, TakeHold
<1>5. ASSUME ReserveFails(r) PROVE SameFor(q)
  BY <1>5 DEF TypeOK, SameFor, ReserveFails, TakeHold
<1>6. ASSUME UpstreamFails(r) PROVE SameFor(q)
  BY <1>6 DEF TypeOK, SameFor, UpstreamFails
<1>7. ASSUME UpstreamAnswers(r) PROVE SameFor(q)
  BY <1>7 DEF TypeOK, SameFor, UpstreamAnswers
<1>8. ASSUME Malformed(r) PROVE SameFor(q)
  BY <1>8 DEF TypeOK, SameFor, Malformed
<1>9. ASSUME ReleaseMalformed(r) PROVE SameFor(q)
  BY <1>9 DEF TypeOK, SameFor, ReleaseMalformed, ReleaseQuota, Closes, CloseThrows, Close
<1>10. ASSUME ReleaseMalformedLease(r) PROVE SameFor(q)
  BY <1>10 DEF TypeOK, SameFor, ReleaseMalformedLease, ReleaseLease
<1>11. ASSUME BodyFails(r) PROVE SameFor(q)
  BY <1>11 DEF TypeOK, SameFor, BodyFails
<1>12. ASSUME BodyRead(r) PROVE SameFor(q)
  BY <1>12 DEF TypeOK, SameFor, BodyRead, StartSettle
<1>13. ASSUME StreamChunk(r) PROVE SameFor(q)
  BY <1>13 DEF TypeOK, SameFor, StreamChunk
<1>14. ASSUME FinishStream(r) PROVE SameFor(q)
  BY <1>14 DEF TypeOK, SameFor, FinishStream, StartSettle
<1>15. ASSUME Cancel(r) PROVE SameFor(q)
  BY <1>15 DEF TypeOK, SameFor, Cancel, StartSettle
<1>16. ASSUME Finalize(r) PROVE SameFor(q)
  BY <1>16 DEF TypeOK, SameFor, Finalize, Closes, CloseThrows, Close
<1>17. ASSUME FinalizeThrows(r) PROVE SameFor(q)
  BY <1>17 DEF TypeOK, SameFor, FinalizeThrows, Closes, CloseThrows, Close
<1>18. ASSUME RecordSettled(r) PROVE SameFor(q)
  BY <1>18 DEF TypeOK, SameFor, RecordSettled, RecordUsage
<1>19. ASSUME ReleaseSettled(r) PROVE SameFor(q)
  BY <1>19 DEF TypeOK, SameFor, ReleaseSettled, ReleaseLease
<1>20. ASSUME Catch(r) PROVE SameFor(q)
  BY <1>20 DEF TypeOK, SameFor, Catch, ReleaseQuota, Closes, CloseThrows, Close
<1>21. ASSUME RecordError(r) PROVE SameFor(q)
  BY <1>21 DEF TypeOK, SameFor, RecordError, RecordUsage
<1>22. ASSUME ReleaseFailed(r) PROVE SameFor(q)
  BY <1>22 DEF TypeOK, SameFor, ReleaseFailed, ReleaseLease
<1>23. ASSUME Crash(r) PROVE SameFor(q)
  BY <1>23 DEF TypeOK, SameFor, Crash
<1>24. ASSUME LeaseExpires(r) PROVE SameFor(q)
  BY <1>24 DEF TypeOK, SameFor, LeaseExpires
<1>25. ASSUME Replay(r) PROVE SameFor(q)
  BY <1>25 DEF TypeOK, SameFor, Replay
<1> QED
  BY <1>1, <1>2, <1>3, <1>4, <1>5, <1>6, <1>7, <1>8, <1>9, <1>10, <1>11, <1>12, <1>13, <1>14, <1>15, <1>16, <1>17, <1>18, <1>19, <1>20, <1>21, <1>22, <1>23, <1>24, <1>25 DEF Proceeds

\* Every step leaves a request that is still unharmed with the debts of its phase:
\* what the phase before owed and this step paid is no longer there.
LEMMA StepOwes ==
    ASSUME RelayInv, \A q \in Requests : Owes(q), NEW r \in Requests,
           Proceeds(r) \/ Crash(r) \/ LeaseExpires(r) \/ Replay(r)
    PROVE  \A q \in Requests : Owes(q)'
<1>1. ASSUME NEW q \in Requests \ {r} PROVE Owes(q)'
  BY <1>1, StepIsLocal DEF RelayInv, SameFor, Owes
<1>2. Owes(r)'
  <2> SUFFICES ASSUME r \notin struck' PROVE Owes(r)'
    BY DEF Owes
  <2> USE DEF RelayInv
  <2>1. ASSUME Refuse(r) PROVE Owes(r)'
    BY <2>1 DEF TypeOK, Owns, Owes, Refuse
  <2>2. ASSUME Admit(r) PROVE Owes(r)'
    BY <2>2 DEF TypeOK, Owns, Owes, Admit
  <2>3. ASSUME AdmitUnacknowledged(r) PROVE Owes(r)'
    BY <2>3 DEF TypeOK, Owns, Owes, AdmitUnacknowledged
  <2>4. ASSUME Reserve(r) PROVE Owes(r)'
    BY <2>4 DEF TypeOK, Owns, Owes, Reserve, TakeHold
  <2>5. ASSUME ReserveFails(r) PROVE Owes(r)'
    BY <2>5 DEF TypeOK, Owns, Owes, ReserveFails, TakeHold
  <2>6. ASSUME UpstreamFails(r) PROVE Owes(r)'
    BY <2>6 DEF TypeOK, Owns, Owes, UpstreamFails
  <2>7. ASSUME UpstreamAnswers(r) PROVE Owes(r)'
    BY <2>7 DEF TypeOK, Owns, Owes, UpstreamAnswers
  <2>8. ASSUME Malformed(r) PROVE Owes(r)'
    BY <2>8 DEF TypeOK, Owns, Owes, Malformed
  <2>9. ASSUME ReleaseMalformed(r) PROVE Owes(r)'
    BY <2>9 DEF TypeOK, Owns, Owes, ReleaseMalformed, ReleaseQuota, Closes, CloseThrows, Close
  <2>10. ASSUME ReleaseMalformedLease(r) PROVE Owes(r)'
    BY <2>10 DEF TypeOK, Owns, Owes, ReleaseMalformedLease, ReleaseLease
  <2>11. ASSUME BodyFails(r) PROVE Owes(r)'
    BY <2>11 DEF TypeOK, Owns, Owes, BodyFails
  <2>12. ASSUME BodyRead(r) PROVE Owes(r)'
    BY <2>12 DEF TypeOK, Owns, Owes, BodyRead, StartSettle
  <2>13. ASSUME StreamChunk(r) PROVE Owes(r)'
    BY <2>13 DEF TypeOK, Owns, Owes, StreamChunk
  <2>14. ASSUME FinishStream(r) PROVE Owes(r)'
    BY <2>14 DEF TypeOK, Owns, Owes, FinishStream, StartSettle
  <2>15. ASSUME Cancel(r) PROVE Owes(r)'
    BY <2>15 DEF TypeOK, Owns, Owes, Cancel, StartSettle
  <2>16. ASSUME Finalize(r) PROVE Owes(r)'
    BY <2>16 DEF TypeOK, Owns, Owes, Finalize, Closes, CloseThrows, Close
  <2>17. ASSUME FinalizeThrows(r) PROVE Owes(r)'
    BY <2>17 DEF TypeOK, Owns, Owes, FinalizeThrows, Closes, CloseThrows, Close
  <2>18. ASSUME RecordSettled(r) PROVE Owes(r)'
    BY <2>18 DEF TypeOK, Owns, Owes, RecordSettled, RecordUsage
  <2>19. ASSUME ReleaseSettled(r) PROVE Owes(r)'
    BY <2>19 DEF TypeOK, Owns, Owes, ReleaseSettled, ReleaseLease
  <2>20. ASSUME Catch(r) PROVE Owes(r)'
    BY <2>20 DEF TypeOK, Owns, Owes, Catch, ReleaseQuota, Closes, CloseThrows, Close
  <2>21. ASSUME RecordError(r) PROVE Owes(r)'
    BY <2>21 DEF TypeOK, Owns, Owes, RecordError, RecordUsage
  <2>22. ASSUME ReleaseFailed(r) PROVE Owes(r)'
    BY <2>22 DEF TypeOK, Owns, Owes, ReleaseFailed, ReleaseLease
  <2>23. ASSUME Crash(r) PROVE Owes(r)'
    BY <2>23 DEF TypeOK, Owns, Owes, Crash
  <2>24. ASSUME LeaseExpires(r) PROVE Owes(r)'
    BY <2>24 DEF TypeOK, Owns, Owes, LeaseExpires
  <2>25. ASSUME Replay(r) PROVE Owes(r)'
    BY <2>25 DEF TypeOK, Owns, Owes, Replay
  <2> QED
    BY <2>1, <2>2, <2>3, <2>4, <2>5, <2>6, <2>7, <2>8, <2>9, <2>10, <2>11, <2>12, <2>13, <2>14, <2>15, <2>16, <2>17, <2>18, <2>19, <2>20, <2>21, <2>22, <2>23, <2>24, <2>25 DEF Proceeds
<1> QED BY <1>1, <1>2

----------------------------------------------------------------------------
(* The theorems.                                                           *)

\* The invariant holds in every reachable state: nobody holds anything at first.
THEOREM RelayInvariant == Spec => []RelayInv
<1>1. Init => RelayInv
  <2> SUFFICES ASSUME Init PROVE RelayInv
    OBVIOUS
  <2>1. TypeOK
    BY DEF Init, TypeOK
  <2>2. LeaseCount
    BY FS_EmptySet DEF Init, LeaseCount
  <2>3. \A r \in Requests : Owns(r)
    BY DEF Init, Owns
  <2> QED BY <2>1, <2>2, <2>3 DEF RelayInv
<1>2. RelayInv /\ [Next]_vars => RelayInv'
  <2> SUFFICES ASSUME RelayInv, [Next]_vars PROVE RelayInv'
    OBVIOUS
  <2>1. CASE Next
    BY <2>1, StepInv DEF Next, RelayInv
  <2>2. CASE UNCHANGED vars
    BY <2>2 DEF vars, RelayInv, TypeOK, LeaseCount, Owns
  <2> QED BY <2>1, <2>2
<1> QED BY <1>1, <1>2, PTL DEF Spec

\* Every variable keeps its type.
THEOREM RelayTypeCorrect == Spec => []TypeOK
BY RelayInvariant, PTL DEF RelayInv

\* Measured work is charged as measured or its hold stays open, whichever of the
\* exits, faults and crashes the request meets afterwards.
THEOREM MeasuredAlwaysCharged == Spec => []MeasuredIsCharged
<1>1. RelayInv => MeasuredIsCharged
  BY DEF RelayInv, Owns, MeasuredIsCharged
<1> QED BY <1>1, RelayInvariant, PTL

\* No number of requests, faults or early releases puts more calls in front of
\* providers than the key's ceiling.
THEOREM AlwaysWithinCeiling == Spec => []WithinCeiling
<1>1. RelayInv => WithinCeiling
  <2> SUFFICES ASSUME RelayInv PROVE WithinCeiling
    OBVIOUS
  <2> DEFINE InFlight == {r \in Requests : At(r, Relaying \cup {"finalize"})}
  <2>1. InFlight \subseteq leases
    BY DEF RelayInv, Owns
  <2>2. Cardinality(InFlight) <= Cardinality(leases)
    BY <2>1, FS_Subset DEF RelayInv, LeaseCount
  <2>3. Cardinality(InFlight) \in Nat /\ Cardinality(leases) \in Nat
    BY <2>1, FS_Subset, FS_CardinalityType DEF RelayInv, LeaseCount
  <2> QED BY <2>2, <2>3 DEF RelayInv, LeaseCount, WithinCeiling
<1> QED BY <1>1, RelayInvariant, PTL

\* Beside the invariant, every request that met no fault owes exactly what its
\* phase says: together they carry the two properties below.
THEOREM UnharmedOwe == Spec => [](\A r \in Requests : Owes(r))
<1>1. Init => \A r \in Requests : Owes(r)
  BY DEF Init, Owes
<1>2. RelayInv /\ (\A r \in Requests : Owes(r)) /\ [Next]_vars
        => (\A r \in Requests : Owes(r))'
  <2> SUFFICES ASSUME RelayInv, \A r \in Requests : Owes(r), [Next]_vars
               PROVE  (\A r \in Requests : Owes(r))'
    OBVIOUS
  <2>1. CASE Next
    BY <2>1, StepOwes DEF Next
  <2>2. CASE UNCHANGED vars
    BY <2>2 DEF vars, Owes
  <2> QED BY <2>1, <2>2
<1> QED BY <1>1, <1>2, RelayInvariant, PTL DEF Spec

\* No exit of the pipeline, early or late, leaves an open hold or a member of the
\* concurrency set behind unless a fault struck the call.
THEOREM NothingEverLeaks == Spec => []NothingLeaks
<1>1. (\A r \in Requests : Owes(r)) => NothingLeaks
  BY DEF Owes, NothingLeaks
<1> QED BY <1>1, UnharmedOwe, PTL

\* A call that ran to its end unharmed has one usage row, with the charge its
\* hold was closed with: the settled amount, or nothing after a refund.
THEOREM RowAlwaysTellsTheBill == Spec => []RowTellsTheBill
<1>1. (\A r \in Requests : Owes(r)) => RowTellsTheBill
  <2> SUFFICES ASSUME \A r \in Requests : Owes(r),
                      NEW r \in Requests, At(r, {"ended", "failed"}), r \notin struck
               PROVE  \E row \in rows[r] : rows[r] = {row} /\ row.quota = hold[r].charge
    BY DEF RowTellsTheBill
  <2>1. CASE pc[r] = "ended"
    <3>1. hold[r].charge = bill[r] /\ rows[r] = {[status |-> status[r], quota |-> bill[r]]}
      BY <2>1 DEF Owes
    <3> QED BY <3>1
  <2>2. CASE pc[r] = "failed"
    <3>1. hold[r].charge = 0 /\ rows[r] = {[status |-> "error", quota |-> 0]}
      BY <2>2 DEF Owes
    <3> QED BY <3>1
  <2> QED BY <2>1, <2>2
<1> QED BY <1>1, UnharmedOwe, PTL
=============================================================================
