------------------------- MODULE TaskLifecycleProofs -------------------------
(***************************************************************************)
(* Proofs about TaskLifecycle for any requests, channels, pollers, limits  *)
(* and number of faults.                                                   *)
(*                                                                         *)
(* What a client is told and what it paid depends on writes that pollers   *)
(* make from rows they read long before.  The invariant therefore has two  *)
(* parts: Tracks relates the stages of one submission to its hold, its     *)
(* accepting providers and its task row, and Knows says what remains true  *)
(* of the entries and the verdict an invocation still holds.  Owes follows *)
(* the money of a submission that met no fault: refunded while nobody took *)
(* the job, charged once somebody did.                                     *)
(***************************************************************************)
EXTENDS TaskLifecycle, FiniteSetTheorems, SequenceTheorems, TLAPS

Before == {"new", "attempt", "finalize", "body", "create"}

Paid(r) == hold[r].phase \in {"queued", "closed"} /\ hold[r].charge = Price

\* What one submission's stage says about its provider, its hold and its task.
Tracks(r) ==
    /\ pc[r] \in {"new", "attempt"} => accepted[r] = {}
    /\ \A c, d \in accepted[r] : c = d
    /\ pc[r] \in {"attempt", "finalize"} => hold[r].phase = "pending"
    /\ pc[r] \in {"body", "create", "mark"} => Paid(r)
    /\ pc[r] \in Before => status[r] = "none"
    /\ status[r] # "none" => Paid(r)
    /\ r \in linked => pc[r] \notin Before \cup {"mark"}

\* What the client of a polled job is told is so.
Told(r) ==
    r \in linked =>
        /\ status[r] = "success" => job[r] = "succeeded"
        /\ status[r] = "failure" => job[r] = "failed" \/ accepted[r] \subseteq gone

\* An entry of a snapshot is of a task that exists, linked if it was.
Sound(e) == status[e.task] # "none" /\ (e.linked => e.task \in linked)

\* A poller writes a word to a task that is so if the task is linked.
Writes(r) ==
    \E word \in Terminal \cup Active :
        /\ status' = [status EXCEPT ![r] = word]
        /\ r \in linked => /\ word = "success" => job[r] = "succeeded"
                           /\ word = "failure" => \/ job[r] = "failed"
                                                  \/ accepted[r] \subseteq gone

\* What an invocation still holds and writes.
Knows(p) ==
    /\ \A e \in poller[p].batch : Sound(e)
    /\ poller[p].pc \in {"answer", "backoff"} =>
          /\ poller[p].entry \in Entries
          /\ poller[p].entry.polls < MaxPolls
          /\ Sound(poller[p].entry)
    /\ poller[p].pc = "answer" =>
          /\ poller[p].entry.linked
          /\ poller[p].verdict = "success" => job[poller[p].entry.task] = "succeeded"
          /\ poller[p].verdict = "failure" => job[poller[p].entry.task] = "failed"

Requested == \A r \in Requests : Tracks(r) /\ Told(r)
Polled == \A p \in Pollers : Knows(p)

TaskInv == TypeOK /\ Requested /\ Polled

\* Nobody took the job, and the handler will still give the hold back.
Refundable(r) == accepted[r] = {} /\ r \in reserved

\* Somebody did, and the account has paid.
Charged(r) ==
    /\ accepted[r] # {} /\ r \notin reserved
    /\ hold[r] = [phase |-> "closed", charge |-> Price]

\* How a submission that met no fault stands in each stage.
Owes(r) == r \notin struck =>
    /\ pc[r] # "crashed"
    /\ pc[r] \notin {"ended", "failed"} => rows[r] = {}
    /\ pc[r] = "attempt" => Refundable(r)
    /\ pc[r] = "finalize" => accepted[r] # {} /\ r \notin reserved
    /\ pc[r] \in {"body", "create", "mark", "row"} => Charged(r)
    /\ pc[r] = "catch" => \/ Refundable(r) /\ hold[r].phase = "pending"
                          \/ Charged(r)
    /\ pc[r] = "errorRow" =>
          \/ Refundable(r) /\ hold[r] = [phase |-> "closed", charge |-> 0]
          \/ Charged(r)
    /\ pc[r] = "ended" => Charged(r) /\ rows[r] = {[ok |-> TRUE, quota |-> Price]}
    /\ pc[r] = "failed" =>
          \/ /\ accepted[r] = {} /\ hold[r] = [phase |-> "closed", charge |-> 0]
             /\ rows[r] = {[ok |-> FALSE, quota |-> 0]}
          \/ Charged(r) /\ rows[r] = {[ok |-> FALSE, quota |-> Price]}

USE TaskAssumption DEF At, Goto, NoFault, Fault, Ended, Phases, Terminal, Active,
                       Verdicts, Ages, submission, task, world, counters

----------------------------------------------------------------------------
(* Helpers: one hold, the line, and what pollers keep knowing.             *)

\* complete leaves a hold of the journal's type, charges an open one and no
\* other, and touches no other request's.
LEMMA CloseKeeps ==
    ASSUME TypeOK, NEW r \in Requests, NEW c \in {0, Price},
           Closes(r, c) \/ CloseThrows(r, c)
    PROVE  /\ hold' \in [Requests -> [phase: {"none", "pending", "queued", "closed"},
                                      charge: {0, Price}]]
           /\ \A q \in Requests \ {r} : hold'[q] = hold[q]
           /\ hold[r].phase # "pending" => hold'[r] = hold[r]
           /\ \/ hold'[r] = hold[r]
              \/ hold'[r].phase \in {"queued", "closed"} /\ hold'[r].charge = c
           /\ faults' \in 0..MaxFaults /\ struck' \subseteq Requests
<1>1. faults' \in 0..MaxFaults /\ struck' \subseteq Requests
  BY DEF TypeOK, Closes, CloseThrows
<1>2. CASE UNCHANGED hold
  BY <1>1, <1>2 DEF TypeOK
<1>3. ASSUME NEW ph \in {"queued", "closed"}, Close(r, c, ph)
      PROVE  /\ hold' \in [Requests -> [phase: {"none", "pending", "queued", "closed"},
                                        charge: {0, Price}]]
             /\ \A q \in Requests \ {r} : hold'[q] = hold[q]
             /\ hold[r].phase # "pending" => hold'[r] = hold[r]
             /\ \/ hold'[r] = hold[r]
                \/ hold'[r].phase \in {"queued", "closed"} /\ hold'[r].charge = c
  <2>1. CASE hold[r].phase = "pending"
    BY <1>3, <2>1 DEF TypeOK, Close
  <2>2. CASE hold[r].phase # "pending"
    BY <1>3, <2>2 DEF TypeOK, Close
  <2> QED BY <2>1, <2>2
<1> QED BY <1>1, <1>2, <1>3 DEF Closes, CloseThrows

\* A successful settlement has charged an open hold.
LEMMA ClosesPays ==
    ASSUME TypeOK, NEW r \in Requests, hold[r].phase = "pending", Closes(r, Price)
    PROVE  Paid(r)'
BY DEF TypeOK, Closes, Close, Paid

\* Taking a task off the line leaves a line.
LEMMA OffKeeps ==
    ASSUME TypeOK, NEW r \in Requests
    PROVE  Off(r) \in Seq(Requests)
<1>1. CASE \E i \in DOMAIN line : line[i] = r
  <2> DEFINE i == CHOOSE k \in DOMAIN line : line[k] = r
  <2>1. i \in 1..Len(line)
    BY <1>1 DEF TypeOK
  <2>0. Len(line) \in Nat /\ \A k \in 1..Len(line) : line[k] \in Requests
    BY DEF TypeOK
  <2> HIDE DEF i
  <2>2. SubSeq(line, 1, i - 1) \in Seq(Requests)
    <3>1. i - 1 \in Int /\ \A k \in 1..(i - 1) : line[k] \in Requests
      BY <2>0, <2>1
    <3> QED BY <3>1, SubSeqProperties
  <2>3. SubSeq(line, i + 1, Len(line)) \in Seq(Requests)
    <3>1. i + 1 \in Int /\ Len(line) \in Int /\ \A k \in (i + 1)..Len(line) : line[k] \in Requests
      BY <2>0, <2>1
    <3> QED BY <3>1, SubSeqProperties
  <2>4. Off(r) = SubSeq(line, 1, i - 1) \o SubSeq(line, i + 1, Len(line))
    BY <1>1 DEF Off, i
  <2> QED BY <2>2, <2>3, <2>4
<1>2. CASE ~(\E i \in DOMAIN line : line[i] = r)
  BY <1>2 DEF TypeOK, Off
<1> QED BY <1>1, <1>2

\* An invocation that does not move keeps what it knows, as long as tasks and
\* links stay and finished jobs stay finished.
LEMMA KnowsKept ==
    ASSUME TypeOK, NEW p \in Pollers, Knows(p), poller'[p] = poller[p],
           \A r \in Requests : status[r] # "none" => status'[r] # "none",
           linked \subseteq linked',
           \A r \in linked : job[r] \in {"succeeded", "failed"} => job'[r] = job[r]
    PROVE  Knows(p)'
<1>1. /\ poller[p].batch \subseteq Entries
      /\ \A e \in Entries : e.task \in Requests
  BY DEF TypeOK, Entries
<1> QED BY <1>1 DEF Knows, Sound

----------------------------------------------------------------------------
(* One lemma for each actor, a step of its proof for each action.          *)

\* Every step of one submission keeps the invariant.
LEMMA SubmitInv ==
    ASSUME TaskInv, NEW r \in Requests, SubmitStep(r)
    PROVE  TaskInv'
<1> USE DEF TaskInv
<1>1. ASSUME Reserve(r) PROVE TaskInv'
  <2>1. TypeOK'
    BY <1>1 DEF TypeOK, Reserve
  <2>2. Requested'
    BY <1>1 DEF TypeOK, Requested, Tracks, Told, Paid, Before, Reserve
  <2>3. Polled'
    BY <1>1, KnowsKept DEF TypeOK, Polled, Requested, Tracks, Before, Reserve
  <2> QED BY <2>1, <2>2, <2>3
<1>2. ASSUME ReserveFails(r) PROVE TaskInv'
  <2>1. TypeOK'
    <3>1. hold' \in [Requests -> [phase: {"none", "pending", "queued", "closed"},
                                   charge: {0, Price}]]
      <4>1. CASE UNCHANGED hold
        BY <4>1 DEF TypeOK
      <4>2. CASE hold' = [hold EXCEPT ![r] = [phase |-> "pending", charge |-> 0]]
        BY <4>2 DEF TypeOK
      <4> QED BY <1>2, <4>1, <4>2 DEF ReserveFails
    <3>2. faults' \in 0..MaxFaults /\ struck' \subseteq Requests
      BY <1>2 DEF TypeOK, ReserveFails
    <3> QED BY <1>2, <3>1, <3>2 DEF TypeOK, ReserveFails
  <2>2. Requested'
    BY <1>2 DEF TypeOK, Requested, Tracks, Told, Paid, Before, ReserveFails
  <2>3. Polled'
    BY <1>2, KnowsKept DEF TypeOK, Polled, Requested, Tracks, Before, ReserveFails
  <2> QED BY <2>1, <2>2, <2>3
<1>3. ASSUME NotSent(r) PROVE TaskInv'
  <2>1. TypeOK'
    BY <1>3 DEF TypeOK, NotSent, Candidates
  <2>2. Requested'
    BY <1>3 DEF TypeOK, Requested, Tracks, Told, Paid, Before, NotSent, Candidates
  <2>3. Polled'
    BY <1>3, KnowsKept DEF TypeOK, Polled, Requested, Tracks, Before, NotSent, Candidates
  <2> QED BY <2>1, <2>2, <2>3
<1>4. ASSUME Accepted(r) PROVE TaskInv'
  <2> PICK c \in Candidates(r) :
         /\ tried' = [tried EXCEPT ![r] = @ \cup {c}]
         /\ Accept(r, c) \/ UNCHANGED <<accepted, job>>
    BY <1>4 DEF Accepted
  <2>a. /\ accepted' \in [Requests -> SUBSET Channels]
        /\ job' \in [Requests -> {"none", "running", "succeeded", "failed"}]
        /\ \A q \in Requests \ {r} : accepted'[q] = accepted[q] /\ job'[q] = job[q]
        /\ accepted'[r] \subseteq {c}
        /\ r \notin linked
    <3>0. accepted[r] = {} /\ r \notin linked /\ c \in Channels
      BY <1>4 DEF TypeOK, Requested, Tracks, Before, Candidates, Accepted
    <3>1. CASE Accept(r, c)
      BY <3>0, <3>1 DEF TypeOK, Accept
    <3>2. CASE UNCHANGED <<accepted, job>>
      BY <3>0, <3>2 DEF TypeOK
    <3> QED BY <3>1, <3>2
  <2>1. TypeOK'
    <3>1. tried' \in [Requests -> SUBSET Channels]
      BY DEF TypeOK, Candidates
    <3>2. faults' \in 0..MaxFaults /\ struck' \subseteq Requests
      BY <1>4 DEF TypeOK, Accepted
    <3> QED BY <1>4, <2>a, <3>1, <3>2 DEF TypeOK, Accepted
  <2>2. Requested'
    <3>1. Tracks(r)' /\ Told(r)'
      BY <1>4, <2>a DEF TypeOK, Requested, Tracks, Told, Paid, Before, Accepted
    <3>2. \A q \in Requests \ {r} : Tracks(q)' /\ Told(q)'
      BY <1>4, <2>a DEF TypeOK, Requested, Tracks, Told, Paid, Before, Accepted
    <3> QED BY <3>1, <3>2 DEF Requested
  <2>3. Polled'
    BY <1>4, KnowsKept DEF TypeOK, Polled, Requested, Tracks, Before, Accepted, Accept, Candidates
  <2> QED BY <2>1, <2>2, <2>3
<1>5. ASSUME SentFails(r) PROVE TaskInv'
  <2> PICK c \in Candidates(r) :
         /\ tried' = [tried EXCEPT ![r] = @ \cup {c}]
         /\ Accept(r, c) \/ UNCHANGED <<accepted, job>>
    BY <1>5 DEF SentFails
  <2>a. /\ accepted' \in [Requests -> SUBSET Channels]
        /\ job' \in [Requests -> {"none", "running", "succeeded", "failed"}]
        /\ \A q \in Requests \ {r} : accepted'[q] = accepted[q] /\ job'[q] = job[q]
        /\ accepted'[r] \subseteq {c}
        /\ r \notin linked
    <3>0. accepted[r] = {} /\ r \notin linked /\ c \in Channels
      BY <1>5 DEF TypeOK, Requested, Tracks, Before, Candidates, SentFails
    <3>1. CASE Accept(r, c)
      BY <3>0, <3>1 DEF TypeOK, Accept
    <3>2. CASE UNCHANGED <<accepted, job>>
      BY <3>0, <3>2 DEF TypeOK
    <3> QED BY <3>1, <3>2
  <2>1. TypeOK'
    <3>1. tried' \in [Requests -> SUBSET Channels]
      BY DEF TypeOK, Candidates
    <3>2. faults' \in 0..MaxFaults /\ struck' \subseteq Requests
      BY <1>5 DEF TypeOK, SentFails
    <3> QED BY <1>5, <2>a, <3>1, <3>2 DEF TypeOK, SentFails
  <2>2. Requested'
    <3>1. Tracks(r)' /\ Told(r)'
      BY <1>5, <2>a DEF TypeOK, Requested, Tracks, Told, Paid, Before, SentFails
    <3>2. \A q \in Requests \ {r} : Tracks(q)' /\ Told(q)'
      BY <1>5, <2>a DEF TypeOK, Requested, Tracks, Told, Paid, Before, SentFails
    <3> QED BY <3>1, <3>2 DEF Requested
  <2>3. Polled'
    BY <1>5, KnowsKept DEF TypeOK, Polled, Requested, Tracks, Before, SentFails, Accept, Candidates
  <2> QED BY <2>1, <2>2, <2>3
<1>6. ASSUME NoChannelLeft(r) PROVE TaskInv'
  <2>1. TypeOK'
    BY <1>6 DEF TypeOK, NoChannelLeft
  <2>2. Requested'
    BY <1>6 DEF TypeOK, Requested, Tracks, Told, Paid, Before, NoChannelLeft
  <2>3. Polled'
    BY <1>6, KnowsKept DEF TypeOK, Polled, Requested, Tracks, Before, NoChannelLeft
  <2> QED BY <2>1, <2>2, <2>3
<1>7. ASSUME Finalize(r) PROVE TaskInv'
  <2> Closes(r, Price)
    BY <1>7 DEF Finalize
  <2>1. TypeOK'
    BY <1>7, CloseKeeps DEF TypeOK, Finalize
  <2>2. Requested'
    BY <1>7, ClosesPays, CloseKeeps DEF TypeOK, Requested, Tracks, Told, Paid, Before, Finalize
  <2>3. Polled'
    BY <1>7, KnowsKept DEF TypeOK, Polled, Requested, Tracks, Before, Finalize
  <2> QED BY <2>1, <2>2, <2>3
<1>8. ASSUME FinalizeThrows(r) PROVE TaskInv'
  <2> CloseThrows(r, Price)
    BY <1>8 DEF FinalizeThrows
  <2>1. TypeOK'
    BY <1>8, CloseKeeps DEF TypeOK, FinalizeThrows
  <2>2. Requested'
    BY <1>8, CloseKeeps DEF TypeOK, Requested, Tracks, Told, Paid, Before, FinalizeThrows
  <2>3. Polled'
    BY <1>8, KnowsKept DEF TypeOK, Polled, Requested, Tracks, Before, FinalizeThrows
  <2> QED BY <2>1, <2>2, <2>3
<1>9. ASSUME ReadBody(r) PROVE TaskInv'
  <2>1. TypeOK'
    BY <1>9 DEF TypeOK, ReadBody
  <2>2. Requested'
    BY <1>9 DEF TypeOK, Requested, Tracks, Told, Paid, Before, ReadBody
  <2>3. Polled'
    BY <1>9, KnowsKept DEF TypeOK, Polled, Requested, Tracks, Before, ReadBody
  <2> QED BY <2>1, <2>2, <2>3
<1>10. ASSUME CreateTask(r) PROVE TaskInv'
  <2>1. TypeOK'
    BY <1>10 DEF TypeOK, CreateTask, InsertRow
  <2>2. Requested'
    BY <1>10 DEF TypeOK, Requested, Tracks, Told, Paid, Before, CreateTask, InsertRow
  <2>3. Polled'
    BY <1>10, KnowsKept DEF TypeOK, Polled, Requested, Tracks, Before, CreateTask, InsertRow
  <2> QED BY <2>1, <2>2, <2>3
<1>11. ASSUME CreateTaskFails(r) PROVE TaskInv'
  <2>1. TypeOK'
    BY <1>11 DEF TypeOK, CreateTaskFails, InsertRow
  <2>2. Requested'
    BY <1>11 DEF TypeOK, Requested, Tracks, Told, Paid, Before, CreateTaskFails, InsertRow
  <2>3. Polled'
    BY <1>11, KnowsKept DEF TypeOK, Polled, Requested, Tracks, Before, CreateTaskFails, InsertRow
  <2> QED BY <2>1, <2>2, <2>3
<1>12. ASSUME MarkTask(r) PROVE TaskInv'
  <2>0. \/ \E word \in {"submitted", "success"} : status' = [status EXCEPT ![r] = word]
        \/ status' = status
    BY <1>12 DEF MarkTask, Link, Conclude, Write
  <2>1. TypeOK'
    <3>1. line' \in Seq(Requests)
      BY <1>12, OffKeeps DEF TypeOK, MarkTask, Link, Conclude, Write
    <3>2. status' \in [Requests -> {"none"} \cup Active \cup Terminal]
      BY <2>0 DEF TypeOK
    <3>3. linked' \subseteq Requests /\ polls' = polls
      BY <1>12 DEF TypeOK, MarkTask, Link, Conclude, Write
    <3>4. faults' \in 0..MaxFaults /\ struck' \subseteq Requests
      BY <1>12 DEF TypeOK, MarkTask
    <3> QED BY <1>12, <3>1, <3>2, <3>3, <3>4 DEF TypeOK, MarkTask
  <2>2. Requested'
    BY <1>12 DEF TypeOK, Requested, Tracks, Told, Paid, Before, MarkTask, Link, Conclude, Write
  <2>3. Polled'
    <3>1. \A q \in Requests : status[q] # "none" => status'[q] # "none"
      BY <1>12 DEF TypeOK, MarkTask, Link, Conclude, Write
    <3>2. linked \subseteq linked' /\ job' = job /\ poller' = poller
      BY <1>12 DEF MarkTask, Link, Conclude, Write
    <3> QED BY <3>1, <3>2, KnowsKept DEF Polled
  <2> QED BY <2>1, <2>2, <2>3
<1>13. ASSUME MarkTaskFails(r) PROVE TaskInv'
  <2>0. \/ \E word \in {"submitted", "success"} : status' = [status EXCEPT ![r] = word]
        \/ status' = status
    BY <1>13 DEF MarkTaskFails, Link, Conclude, Write
  <2>1. TypeOK'
    <3>1. line' \in Seq(Requests)
      BY <1>13, OffKeeps DEF TypeOK, MarkTaskFails, Link, Conclude, Write
    <3>2. status' \in [Requests -> {"none"} \cup Active \cup Terminal]
      BY <2>0 DEF TypeOK
    <3>3. linked' \subseteq Requests /\ polls' = polls
      BY <1>13 DEF TypeOK, MarkTaskFails, Link, Conclude, Write
    <3>4. faults' \in 0..MaxFaults /\ struck' \subseteq Requests
      BY <1>13 DEF TypeOK, MarkTaskFails
    <3> QED BY <1>13, <3>1, <3>2, <3>3, <3>4 DEF TypeOK, MarkTaskFails
  <2>2. Requested'
    BY <1>13 DEF TypeOK, Requested, Tracks, Told, Paid, Before, MarkTaskFails, Link, Conclude, Write
  <2>3. Polled'
    <3>1. \A q \in Requests : status[q] # "none" => status'[q] # "none"
      BY <1>13 DEF TypeOK, MarkTaskFails, Link, Conclude, Write
    <3>2. linked \subseteq linked' /\ job' = job /\ poller' = poller
      BY <1>13 DEF MarkTaskFails, Link, Conclude, Write
    <3> QED BY <3>1, <3>2, KnowsKept DEF Polled
  <2> QED BY <2>1, <2>2, <2>3
<1>14. ASSUME RecordSubmission(r) PROVE TaskInv'
  <2>1. TypeOK'
    <3> DEFINE row == [ok |-> TRUE, quota |-> Price]
    <3>0. row \in [ok: BOOLEAN, quota: {0, Price}]
      BY DEF TypeOK
    <3>1. rows' \in [Requests -> SUBSET [ok: BOOLEAN, quota: {0, Price}]]
      <4>1. RecordUsage(r, row)
        BY <1>14 DEF RecordSubmission
      <4> DEFINE Row == [ok: BOOLEAN, quota: {0, Price}]
      <4>2. rows \in [Requests -> SUBSET Row] /\ row \in Row
        BY <3>0 DEF TypeOK
      <4>3. rows' = [rows EXCEPT ![r] = @ \cup {row}] \/ rows' = rows
        BY <4>1 DEF RecordUsage
      <4> HIDE DEF row, Row
      <4>4. rows' \in [Requests -> SUBSET Row]
        BY <4>2, <4>3
      <4> QED BY <4>4 DEF Row
    <3>2. faults' \in 0..MaxFaults /\ struck' \subseteq Requests
      BY <1>14 DEF TypeOK, RecordSubmission, RecordUsage
    <3> QED BY <1>14, <3>1, <3>2 DEF TypeOK, RecordSubmission
  <2>2. Requested'
    BY <1>14 DEF TypeOK, Requested, Tracks, Told, Paid, Before, RecordSubmission, RecordUsage
  <2>3. Polled'
    BY <1>14, KnowsKept DEF TypeOK, Polled, Requested, Tracks, Before, RecordSubmission, RecordUsage
  <2> QED BY <2>1, <2>2, <2>3
<1>15. ASSUME Catch(r) PROVE TaskInv'
  <2>1. TypeOK'
    BY <1>15, CloseKeeps DEF TypeOK, Catch
  <2>2. Requested'
    <3>1. hold[r].phase # "pending" => hold'[r] = hold[r]
      BY <1>15, CloseKeeps DEF TypeOK, Catch
    <3>2. \A q \in Requests \ {r} : hold'[q] = hold[q]
      BY <1>15, CloseKeeps DEF TypeOK, Catch
    <3>3. Tracks(r)' /\ Told(r)'
      <4>1. pc'[r] = "errorRow" /\ pc[r] = "catch"
        BY <1>15 DEF TypeOK, Catch
      <4>2. UNCHANGED <<status, linked, job, accepted, gone>>
        BY <1>15 DEF Catch
      <4>3. Paid(r) => Paid(r)'
        BY <3>1 DEF Paid
      <4> QED BY <4>1, <4>2, <4>3 DEF Requested, Tracks, Told, Paid, Before
    <3>4. \A q \in Requests \ {r} : Tracks(q)' /\ Told(q)'
      BY <1>15, <3>2 DEF TypeOK, Requested, Tracks, Told, Paid, Before, Catch
    <3> QED BY <3>3, <3>4 DEF Requested
  <2>3. Polled'
    BY <1>15, KnowsKept DEF TypeOK, Polled, Requested, Tracks, Before, Catch
  <2> QED BY <2>1, <2>2, <2>3
<1>16. ASSUME RecordError(r) PROVE TaskInv'
  <2>1. TypeOK'
    <3> DEFINE row == [ok |-> FALSE, quota |-> IF r \in reserved THEN 0 ELSE Price]
    <3>0. row \in [ok: BOOLEAN, quota: {0, Price}]
      BY DEF TypeOK
    <3>1. rows' \in [Requests -> SUBSET [ok: BOOLEAN, quota: {0, Price}]]
      <4>1. RecordUsage(r, row)
        BY <1>16 DEF RecordError
      <4> DEFINE Row == [ok: BOOLEAN, quota: {0, Price}]
      <4>2. rows \in [Requests -> SUBSET Row] /\ row \in Row
        BY <3>0 DEF TypeOK
      <4>3. rows' = [rows EXCEPT ![r] = @ \cup {row}] \/ rows' = rows
        BY <4>1 DEF RecordUsage
      <4> HIDE DEF row, Row
      <4>4. rows' \in [Requests -> SUBSET Row]
        BY <4>2, <4>3
      <4> QED BY <4>4 DEF Row
    <3>2. faults' \in 0..MaxFaults /\ struck' \subseteq Requests
      BY <1>16 DEF TypeOK, RecordError, RecordUsage
    <3> QED BY <1>16, <3>1, <3>2 DEF TypeOK, RecordError
  <2>2. Requested'
    BY <1>16 DEF TypeOK, Requested, Tracks, Told, Paid, Before, RecordError, RecordUsage
  <2>3. Polled'
    BY <1>16, KnowsKept DEF TypeOK, Polled, Requested, Tracks, Before, RecordError, RecordUsage
  <2> QED BY <2>1, <2>2, <2>3
<1>17. ASSUME Crash(r) PROVE TaskInv'
  <2>1. TypeOK'
    BY <1>17 DEF TypeOK, Crash
  <2>2. Requested'
    BY <1>17 DEF TypeOK, Requested, Tracks, Told, Paid, Before, Crash
  <2>3. Polled'
    BY <1>17, KnowsKept DEF TypeOK, Polled, Requested, Tracks, Before, Crash
  <2> QED BY <2>1, <2>2, <2>3
<1>18. ASSUME Replay(r) PROVE TaskInv'
  <2>1. TypeOK'
    BY <1>18 DEF TypeOK, Replay
  <2>2. Requested'
    BY <1>18 DEF TypeOK, Requested, Tracks, Told, Paid, Before, Replay
  <2>3. Polled'
    BY <1>18, KnowsKept DEF TypeOK, Polled, Requested, Tracks, Before, Replay
  <2> QED BY <2>1, <2>2, <2>3
<1> QED
  BY <1>1, <1>2, <1>3, <1>4, <1>5, <1>6, <1>7, <1>8, <1>9,
     <1>10, <1>11, <1>12, <1>13, <1>14, <1>15, <1>16, <1>17, <1>18
  DEF SubmitStep

\* So does whatever the provider, the clock and the operator do.
LEMMA WorldInv ==
    ASSUME TaskInv,
           \/ \E r \in Requests : JobFinishes(r) \/ FallsDue(r) \/ GrowsOld(r)
           \/ \E c \in Channels : DeleteChannel(c)
    PROVE  TaskInv'
<1> USE DEF TaskInv
<1>1. ASSUME NEW r \in Requests, JobFinishes(r) PROVE TaskInv'
  <2>1. TypeOK'
    BY <1>1 DEF TypeOK, JobFinishes
  <2>2. Requested'
    BY <1>1 DEF TypeOK, Requested, Tracks, Told, Paid, Before, JobFinishes
  <2>3. Polled'
    BY <1>1, KnowsKept DEF TypeOK, Polled, JobFinishes
  <2> QED BY <2>1, <2>2, <2>3
<1>2. ASSUME NEW r \in Requests, FallsDue(r) PROVE TaskInv'
  <2>1. TypeOK'
    BY <1>2 DEF TypeOK, FallsDue
  <2>2. Requested'
    BY <1>2 DEF TypeOK, Requested, Tracks, Told, Paid, Before, FallsDue
  <2>3. Polled'
    BY <1>2, KnowsKept DEF TypeOK, Polled, FallsDue
  <2> QED BY <2>1, <2>2, <2>3
<1>3. ASSUME NEW r \in Requests, GrowsOld(r) PROVE TaskInv'
  <2>1. TypeOK'
    BY <1>3 DEF TypeOK, GrowsOld
  <2>2. Requested'
    BY <1>3 DEF TypeOK, Requested, Tracks, Told, Paid, Before, GrowsOld
  <2>3. Polled'
    BY <1>3, KnowsKept DEF TypeOK, Polled, GrowsOld
  <2> QED BY <2>1, <2>2, <2>3
<1>4. ASSUME NEW c \in Channels, DeleteChannel(c) PROVE TaskInv'
  <2>1. TypeOK'
    BY <1>4 DEF TypeOK, DeleteChannel
  <2>2. Requested'
    BY <1>4 DEF TypeOK, Requested, Tracks, Told, Paid, Before, DeleteChannel
  <2>3. Polled'
    BY <1>4, KnowsKept DEF TypeOK, Polled, DeleteChannel
  <2> QED BY <2>1, <2>2, <2>3
<1> QED BY <1>1, <1>2, <1>3, <1>4

\* An entry that an invocation looks at is a row of the store.
LEMMA LooksAt ==
    ASSUME TaskInv, NEW p \in Pollers, NEW e \in poller[p].batch
    PROVE  /\ e \in Entries /\ e.task \in Requests /\ e.polls \in 0..MaxPolls
           /\ Sound(e)
BY DEF TaskInv, TypeOK, Entries, Polled, Knows

\* The record of an invocation that goes on with its batch, or begins one.
LEMMA LookingIsKnown ==
    ASSUME TypeOK, NEW p \in Pollers, NEW B \in SUBSET Entries,
           poller' = [poller EXCEPT ![p] = Looking(B)],
           \A e \in B : Sound(e)', \A q \in Pollers \ {p} : Knows(q)'
    PROVE  /\ poller' \in [Pollers -> [pc: {"idle", "look", "answer", "backoff"},
                               batch: SUBSET Entries, entry: Entries \cup {NoEntry},
                               verdict: Verdicts]]
           /\ Polled'
<1>1. poller'[p] = Looking(B) /\ Looking(B).batch = B /\ Looking(B).pc \in {"idle", "look"}
  BY DEF TypeOK, Looking
<1>2. Knows(p)'
  BY <1>1 DEF Knows
<1> QED BY <1>2 DEF Looking, TypeOK, Polled

\* The record of one that is about to write.
LEMMA TurnsIsKnown ==
    ASSUME TypeOK, NEW p \in Pollers, NEW e \in Entries, NEW word \in Verdicts,
           NEW s \in {"answer", "backoff"}, Turns(p, s, e, word),
           Sound(e)', e.polls < MaxPolls, Knows(p),
           \A x \in poller[p].batch : Sound(x)', \A q \in Pollers \ {p} : Knows(q)',
           s = "answer" => /\ e.linked
                           /\ word = "success" => job'[e.task] = "succeeded"
                           /\ word = "failure" => job'[e.task] = "failed"
    PROVE  /\ poller' \in [Pollers -> [pc: {"idle", "look", "answer", "backoff"},
                               batch: SUBSET Entries, entry: Entries \cup {NoEntry},
                               verdict: Verdicts]]
           /\ Polled'
<1> DEFINE turned == [pc |-> s, batch |-> poller[p].batch \ {e},
                      entry |-> e, verdict |-> word]
<1>1. poller'[p] = turned
  BY DEF TypeOK, Turns
<1>2. Knows(p)'
  BY <1>1 DEF Knows
<1> QED BY <1>2 DEF Turns, TypeOK, Polled

\* What a poller writes about an existing task keeps every submission's part of
\* the invariant, if what it tells is so.
LEMMA WriteKeeps ==
    ASSUME TypeOK, Requested, NEW r \in Requests, status[r] # "none",
           UNCHANGED <<submission, world, linked>>,
           UNCHANGED status \/ Writes(r)
    PROVE  /\ Requested'
           /\ \A q \in Requests : status[q] # "none" => status'[q] # "none"
           /\ status' \in [Requests -> {"none"} \cup Active \cup Terminal]
<1>1. CASE UNCHANGED status
  BY <1>1 DEF TypeOK, Requested, Tracks, Told, Paid, Before
<1>2. ASSUME NEW word \in Terminal \cup Active,
             status' = [status EXCEPT ![r] = word],
             r \in linked => /\ word = "success" => job[r] = "succeeded"
                             /\ word = "failure" => \/ job[r] = "failed"
                                                    \/ accepted[r] \subseteq gone
      PROVE  /\ Requested'
             /\ \A q \in Requests : status[q] # "none" => status'[q] # "none"
             /\ status' \in [Requests -> {"none"} \cup Active \cup Terminal]
  <2>1. /\ status' \in [Requests -> {"none"} \cup Active \cup Terminal]
        /\ status'[r] = word /\ word # "none"
        /\ \A q \in Requests \ {r} : status'[q] = status[q]
    BY <1>2 DEF TypeOK
  <2>2. Tracks(r)' /\ Told(r)'
    BY <1>2, <2>1 DEF TypeOK, Requested, Tracks, Told, Paid, Before
  <2>3. \A q \in Requests \ {r} : Tracks(q)' /\ Told(q)'
    BY <2>1 DEF TypeOK, Requested, Tracks, Told, Paid, Before
  <2> QED BY <2>1, <2>2, <2>3 DEF Requested
<1> QED BY <1>1, <1>2 DEF Writes

\* Entries stay sound when tasks and links stay.
LEMMA SoundKept ==
    ASSUME NEW e \in Entries, Sound(e), linked' = linked,
           \A q \in Requests : status[q] # "none" => status'[q] # "none"
    PROVE  Sound(e)'
BY DEF Sound, Entries

\* What a step keeps for the invocations that do not take it.
LEMMA OthersKnow ==
    ASSUME TypeOK, Polled, NEW p \in Pollers, UNCHANGED <<linked, job>>,
           \A q \in Pollers \ {p} : poller'[q] = poller[q],
           \A r \in Requests : status[r] # "none" => status'[r] # "none"
    PROVE  \A q \in Pollers \ {p} : Knows(q)'
BY KnowsKept DEF Polled

\* Snapshot: what dueTasks returns are rows of existing tasks.
LEMMA FirstAreSound ==
    ASSUME TypeOK, NEW D \in SUBSET {i \in DOMAIN line : status[line[i]] \in Active}
    PROVE  FirstOf(D) \subseteq Entries /\ \A e \in FirstOf(D) : Sound(e)
<1> SUFFICES ASSUME NEW e \in FirstOf(D) PROVE e \in Entries /\ Sound(e)
  OBVIOUS
<1>1. PICK i \in D : e = EntryOf(line[i])
  BY DEF FirstOf
<1>2. line[i] \in Requests /\ status[line[i]] \in Active
  BY DEF TypeOK
<1>3. EntryOf(line[i]) \in Entries
  <2> DEFINE isLinked == line[i] \in linked
             isYoung == age[line[i]] = "young"
  <2>1. isLinked \in BOOLEAN /\ isYoung \in BOOLEAN
    OBVIOUS
  <2>2. polls[line[i]] \in 0..MaxPolls
    BY <1>2 DEF TypeOK
  <2>3. EntryOf(line[i]) = [task |-> line[i], polls |-> polls[line[i]],
                            linked |-> isLinked, young |-> isYoung]
    BY DEF EntryOf
  <2> HIDE DEF isLinked, isYoung
  <2> QED BY <1>2, <2>1, <2>2, <2>3 DEF Entries
<1> QED BY <1>1, <1>2, <1>3 DEF EntryOf, Sound

\* A poller that writes one task and goes on keeps the invariant.
LEMMA WroteOne ==
    ASSUME TaskInv, NEW p \in Pollers, NEW r \in Requests, status[r] # "none",
           UNCHANGED <<submission, world, linked>>,
           UNCHANGED status \/ Writes(r),
           polls' \in [Requests -> 0..MaxPolls], line' \in Seq(Requests),
           faults' \in 0..MaxFaults, struck' \subseteq Requests,
           NEW B \in SUBSET poller[p].batch, poller' = [poller EXCEPT ![p] = Looking(B)]
    PROVE  TaskInv'
<1>1. /\ Requested'
      /\ \A q \in Requests : status[q] # "none" => status'[q] # "none"
      /\ status' \in [Requests -> {"none"} \cup Active \cup Terminal]
  BY WriteKeeps DEF TaskInv
<1>2. B \in SUBSET Entries /\ (\A e \in B : e \in Entries /\ Sound(e))
  BY LooksAt DEF TaskInv
<1>3. \A e \in B : Sound(e)'
  BY <1>1, <1>2, SoundKept
<1>4. \A q \in Pollers \ {p} : Knows(q)'
  BY <1>1, OthersKnow DEF TaskInv, TypeOK
<1>5. /\ poller' \in [Pollers -> [pc: {"idle", "look", "answer", "backoff"},
                                 batch: SUBSET Entries, entry: Entries \cup {NoEntry},
                                 verdict: Verdicts]]
      /\ Polled'
  BY <1>2, <1>3, <1>4, LookingIsKnown DEF TaskInv
<1> QED BY <1>1, <1>5 DEF TaskInv, TypeOK

\* A poller that turns to writing, or to writing again, keeps it too.
LEMMA WroteAndTurned ==
    ASSUME TaskInv, NEW p \in Pollers, NEW x \in Entries, status[x.task] # "none",
           Sound(x), x.polls < MaxPolls,
           UNCHANGED <<submission, world, linked>>,
           UNCHANGED status \/ Writes(x.task),
           polls' \in [Requests -> 0..MaxPolls], line' \in Seq(Requests),
           faults' \in 0..MaxFaults, struck' \subseteq Requests,
           NEW s \in {"answer", "backoff"}, NEW told \in Verdicts, Turns(p, s, x, told),
           s = "answer" => /\ x.linked
                           /\ told = "success" => job[x.task] = "succeeded"
                           /\ told = "failure" => job[x.task] = "failed"
    PROVE  TaskInv'
<1>0. x.task \in Requests
  BY DEF Entries
<1>1. /\ Requested'
      /\ \A q \in Requests : status[q] # "none" => status'[q] # "none"
      /\ status' \in [Requests -> {"none"} \cup Active \cup Terminal]
  BY <1>0, WriteKeeps DEF TaskInv
<1>2. \A e \in poller[p].batch : e \in Entries /\ Sound(e)
  BY LooksAt
<1>3. Sound(x)' /\ \A e \in poller[p].batch : Sound(e)'
  BY <1>1, <1>2, SoundKept
<1>4. \A q \in Pollers \ {p} : Knows(q)'
  BY <1>1, OthersKnow DEF TaskInv, TypeOK, Turns
<1>5. /\ poller' \in [Pollers -> [pc: {"idle", "look", "answer", "backoff"},
                                 batch: SUBSET Entries, entry: Entries \cup {NoEntry},
                                 verdict: Verdicts]]
      /\ Polled'
  BY <1>3, <1>4, TurnsIsKnown DEF TaskInv, Polled
<1> QED BY <1>1, <1>5 DEF TaskInv, TypeOK

\* Counting a poll stays within the limit.
LEMMA CountsPoll ==
    ASSUME TypeOK, NEW e \in Entries, e.polls < MaxPolls
    PROVE  [polls EXCEPT ![e.task] = e.polls + 1] \in [Requests -> 0..MaxPolls]
<1>1. e.polls \in 0..MaxPolls /\ e.task \in Requests
  BY DEF Entries
<1> QED BY <1>1 DEF TypeOK

\* Every step of one invocation keeps the invariant.
LEMMA PollInv ==
    ASSUME TaskInv, NEW p \in Pollers, PollStep(p) \/ PollFails(p)
    PROVE  TaskInv'
<1> USE DEF TaskInv
<1>1. ASSUME Snapshot(p) PROVE TaskInv'
  <2> DEFINE B == FirstOf({i \in DOMAIN line : status[line[i]] \in Active})
  <2>1. B \subseteq Entries /\ \A e \in B : Sound(e)
    BY FirstAreSound
  <2>2. /\ poller' = [poller EXCEPT ![p] = Looking(B)]
        /\ UNCHANGED <<submission, task, world, counters>>
    BY <1>1 DEF Snapshot, Begin
  <2> HIDE DEF B
  <2>3. (\A e \in B : Sound(e)') /\ (\A q \in Pollers \ {p} : Knows(q)')
    BY <2>1, <2>2, OthersKnow DEF TypeOK, Sound
  <2>4. TypeOK' /\ Polled'
    BY <2>1, <2>2, <2>3, LookingIsKnown DEF TypeOK
  <2>5. Requested'
    BY <2>2 DEF Requested, Tracks, Told, Paid, Before
  <2> QED BY <2>4, <2>5
<1>2. ASSUME NEW e \in poller[p].batch, Expire(p, e) \/ ExpireFails(p, e)
      PROVE  TaskInv'
  <2>1. e \in Entries /\ e.task \in Requests /\ status[e.task] # "none"
    BY LooksAt DEF Sound
  <2>2. line' \in Seq(Requests)
    BY <1>2, <2>1, OffKeeps DEF TypeOK, Expire, ExpireFails, Write
  <2>3. UNCHANGED status \/ Writes(e.task)
    BY <1>2 DEF Expire, ExpireFails, Write, Writes
  <2>4. PICK B \in SUBSET poller[p].batch : poller' = [poller EXCEPT ![p] = Looking(B)]
    BY <1>2 DEF Expire, ExpireFails, Proceed, Resting
  <2>5. faults' \in 0..MaxFaults /\ struck' \subseteq Requests
    BY <1>2, <2>1 DEF TypeOK, Expire, ExpireFails
  <2>6. UNCHANGED <<submission, world, linked, polls>>
    BY <1>2 DEF Expire, ExpireFails, Write
  <2>7. polls' \in [Requests -> 0..MaxPolls]
    BY <2>6 DEF TypeOK
  <2> QED BY <2>1, <2>2, <2>3, <2>4, <2>5, <2>6, <2>7, WroteOne
<1>3. ASSUME NEW e \in poller[p].batch, SkipUnlinked(p, e) PROVE TaskInv'
  <2>0. e \in Entries /\ e.task \in Requests /\ Sound(e) /\ e.polls \in 0..MaxPolls
    BY LooksAt
  <2>1. e \in Entries /\ e.task \in Requests /\ status[e.task] # "none" /\ e.polls < MaxPolls
    BY <1>3, <2>0 DEF Sound, SkipUnlinked, Expired
  <2>2. polls' \in [Requests -> 0..MaxPolls]
    BY <1>3, <2>1, CountsPoll DEF SkipUnlinked, Postpone
  <2>3. line' \in Seq(Requests)
    BY <1>3, <2>1, OffKeeps DEF SkipUnlinked, Postpone
  <2>4. PICK B \in SUBSET poller[p].batch : poller' = [poller EXCEPT ![p] = Looking(B)]
    BY <1>3 DEF SkipUnlinked, Proceed
  <2>5. UNCHANGED <<submission, world, linked, status, counters>>
    BY <1>3 DEF SkipUnlinked, Postpone
  <2>6. faults' \in 0..MaxFaults /\ struck' \subseteq Requests
    BY <2>5 DEF TypeOK
  <2> QED BY <2>1, <2>2, <2>3, <2>4, <2>5, <2>6, WroteOne
<1>4. ASSUME NEW e \in poller[p].batch, ChannelGone(p, e) PROVE TaskInv'
  <2>1. e \in Entries /\ e.task \in Requests /\ status[e.task] # "none"
    BY LooksAt DEF Sound
  <2>2. line' \in Seq(Requests)
    BY <1>4, <2>1, OffKeeps DEF TypeOK, ChannelGone, Write
  <2>3. Writes(e.task)
    BY <1>4 DEF ChannelGone, Write, Writes
  <2>4. PICK B \in SUBSET poller[p].batch : poller' = [poller EXCEPT ![p] = Looking(B)]
    BY <1>4 DEF ChannelGone, Proceed
  <2>5. UNCHANGED <<submission, world, linked, polls, counters>>
    BY <1>4 DEF ChannelGone, Write
  <2>6. /\ polls' \in [Requests -> 0..MaxPolls]
        /\ faults' \in 0..MaxFaults /\ struck' \subseteq Requests
    BY <2>5 DEF TypeOK
  <2> QED BY <2>1, <2>2, <2>3, <2>4, <2>5, <2>6, WroteOne
<1>5. ASSUME NEW e \in poller[p].batch, Ask(p, e) PROVE TaskInv'
  <2>0. e \in Entries /\ e.task \in Requests /\ Sound(e) /\ e.polls \in 0..MaxPolls
    BY LooksAt
  <2>1. e.polls < MaxPolls /\ status[e.task] # "none"
    BY <1>5, <2>0 DEF Sound, Ask, Looks, Expired
  <2>2. UNCHANGED <<submission, task, world, counters>>
    BY <1>5 DEF Ask
  <2>3. /\ polls' \in [Requests -> 0..MaxPolls] /\ line' \in Seq(Requests)
        /\ faults' \in 0..MaxFaults /\ struck' \subseteq Requests
    BY <2>2 DEF TypeOK
  <2>4. \E s \in {"answer", "backoff"} : \E told \in Verdicts :
           /\ Turns(p, s, e, told)
           /\ s = "answer" => /\ e.linked
                              /\ told = "success" => job[e.task] = "succeeded"
                              /\ told = "failure" => job[e.task] = "failed"
    <3>1. CASE \E word \in VerdictsOn(e.task) : Turns(p, "answer", e, word)
      <4>1. PICK word \in VerdictsOn(e.task) : Turns(p, "answer", e, word)
        BY <3>1
      <4>2. /\ word \in Verdicts /\ e.linked
            /\ word = "success" => job[e.task] = "succeeded"
            /\ word = "failure" => job[e.task] = "failed"
        BY <1>5, <4>1 DEF VerdictsOn, Ask
      <4> QED BY <4>1, <4>2
    <3>2. CASE Turns(p, "backoff", e, "in_progress")
      BY <3>2
    <3> QED BY <1>5, <3>1, <3>2 DEF Ask
  <2> QED BY <2>1, <2>2, <2>3, <2>4, <2>0, WroteAndTurned
<1> DEFINE e == poller[p].entry
<1>6. ASSUME poller[p].pc \in {"answer", "backoff"}
      PROVE  /\ e \in Entries /\ e.task \in Requests /\ Sound(e) /\ status[e.task] # "none"
             /\ e.polls < MaxPolls
             /\ Off(e.task) \in Seq(Requests) /\ line \in Seq(Requests)
             /\ [polls EXCEPT ![e.task] = e.polls + 1] \in [Requests -> 0..MaxPolls]
             /\ polls \in [Requests -> 0..MaxPolls]
  <2>1. e \in Entries /\ Sound(e) /\ e.polls < MaxPolls
    BY <1>6 DEF Polled, Knows
  <2>2. e.task \in Requests /\ status[e.task] # "none"
    BY <2>1 DEF Entries, Sound
  <2> HIDE DEF e
  <2> QED BY <2>1, <2>2, OffKeeps, CountsPoll DEF TypeOK
<1>7. ASSUME poller[p].pc = "answer"
      PROVE  /\ poller[p].verdict \in Terminal \cup Active
             /\ poller[p].verdict = "success" => job[e.task] = "succeeded"
             /\ poller[p].verdict = "failure" => job[e.task] = "failed"
  BY <1>7 DEF TypeOK, Polled, Knows
<1>8. ASSUME Answer(p) PROVE TaskInv'
  <2>1. /\ poller[p].pc = "answer" /\ Patch(e, poller[p].verdict) /\ Proceed(p, e)
        /\ UNCHANGED <<submission, world, counters>>
    BY <1>8 DEF Answer
  <2> HIDE DEF e
  <2>2. /\ Writes(e.task) /\ UNCHANGED linked
        /\ line' \in Seq(Requests) /\ polls' \in [Requests -> 0..MaxPolls]
    BY <2>1, <1>6, <1>7 DEF Patch, Write, Writes
  <2>3. PICK B \in SUBSET poller[p].batch : poller' = [poller EXCEPT ![p] = Looking(B)]
    BY <2>1 DEF Proceed
  <2>4. faults' \in 0..MaxFaults /\ struck' \subseteq Requests
    BY <2>1 DEF TypeOK
  <2> QED BY <1>6, <1>7, <2>1, <2>2, <2>3, <2>4, WroteOne
<1>9. ASSUME AnswerFails(p) PROVE TaskInv'
  <2>1. /\ poller[p].pc = "answer"
        /\ Patch(e, poller[p].verdict) \/ UNCHANGED task
        /\ Turns(p, "backoff", e, "in_progress") /\ Fault(e.task)
        /\ UNCHANGED <<submission, world>>
    BY <1>9 DEF AnswerFails
  <2> HIDE DEF e
  <2>2. UNCHANGED status \/ Writes(e.task)
    BY <2>1, <1>7 DEF Patch, Write, Writes
  <2>3. /\ line' \in Seq(Requests) /\ polls' \in [Requests -> 0..MaxPolls]
        /\ UNCHANGED linked
    BY <2>1, <1>6 DEF Patch, Write
  <2>4. faults' \in 0..MaxFaults /\ struck' \subseteq Requests
    BY <2>1, <1>6 DEF TypeOK
  <2> QED BY <1>6, <1>7, <2>1, <2>2, <2>3, <2>4, WroteAndTurned
<1>10. ASSUME Backoff(p) \/ BackoffFails(p) PROVE TaskInv'
  <2>1. /\ poller[p].pc = "backoff" /\ Proceed(p, e)
        /\ Postpone(e) \/ UNCHANGED task
        /\ UNCHANGED <<submission, world>>
        /\ UNCHANGED counters \/ Fault(e.task)
    BY <1>10 DEF Backoff, BackoffFails
  <2> HIDE DEF e
  <2>2. /\ line' \in Seq(Requests) /\ polls' \in [Requests -> 0..MaxPolls]
        /\ UNCHANGED <<linked, status>>
    BY <2>1, <1>6 DEF Postpone
  <2>3. PICK B \in SUBSET poller[p].batch : poller' = [poller EXCEPT ![p] = Looking(B)]
    BY <2>1 DEF Proceed
  <2>4. faults' \in 0..MaxFaults /\ struck' \subseteq Requests
    BY <2>1, <1>6 DEF TypeOK
  <2> QED BY <1>6, <2>1, <2>2, <2>3, <2>4, WroteOne
<1>11. ASSUME PollerCrash(p) PROVE TaskInv'
  <2>1. UNCHANGED <<submission, task, world, struck>> /\ faults' \in 0..MaxFaults
    BY <1>11 DEF TypeOK, PollerCrash
  <2>2. poller' = [poller EXCEPT ![p] = Looking({})]
    BY <1>11 DEF PollerCrash, Resting
  <2>3. \A q \in Pollers \ {p} : Knows(q)'
    BY <2>1, <2>2, OthersKnow DEF TypeOK
  <2>4. TypeOK' /\ Polled'
    <3>1. {} \in SUBSET Entries /\ \A e1 \in {} : Sound(e1)'
      OBVIOUS
    <3>2. /\ poller' \in [Pollers -> [pc: {"idle", "look", "answer", "backoff"},
                                     batch: SUBSET Entries, entry: Entries \cup {NoEntry},
                                     verdict: Verdicts]]
          /\ Polled'
      BY <2>2, <2>3, <3>1, LookingIsKnown
    <3> QED BY <2>1, <3>2 DEF TypeOK
  <2>5. Requested'
    BY <2>1 DEF Requested, Tracks, Told, Paid, Before
  <2> QED BY <2>4, <2>5
<1>12. ASSUME NEW x \in poller[p].batch, LookFails(p, x) PROVE TaskInv'
  <2>1. x \in Entries /\ x.task \in Requests /\ Sound(x) /\ x.polls \in 0..MaxPolls
    BY LooksAt
  <2>2. x.polls < MaxPolls /\ status[x.task] # "none"
    BY <1>12, <2>1 DEF Sound, LookFails, Expired
  <2>3. UNCHANGED status \/ Writes(x.task)
    BY <1>12 DEF LookFails, Postpone, Write, Writes
  <2>4. line' \in Seq(Requests)
    BY <1>12, <2>1, OffKeeps DEF TypeOK, LookFails, Postpone, Write
  <2>5. polls' \in [Requests -> 0..MaxPolls]
    <3>1. polls' = polls \/ polls' = [polls EXCEPT ![x.task] = x.polls + 1]
      BY <1>12 DEF LookFails, Postpone
    <3> QED BY <2>1, <2>2, <3>1, CountsPoll, ZenonT(60) DEF TypeOK
  <2>6. faults' \in 0..MaxFaults /\ struck' \subseteq Requests
    BY <1>12, <2>1 DEF TypeOK, LookFails
  <2>7. UNCHANGED <<submission, world, linked>> /\ Turns(p, "backoff", x, "in_progress")
    BY <1>12 DEF LookFails, Postpone
  <2> QED BY <2>1, <2>2, <2>3, <2>4, <2>5, <2>6, <2>7, WroteAndTurned
<1> QED
  BY <1>1, <1>2, <1>3, <1>4, <1>5, <1>8, <1>9, <1>10, <1>11, <1>12
  DEF PollStep, PollFails, PollEntry

----------------------------------------------------------------------------
(* A submission that meets no fault: what it owes in each stage.           *)

\* What Owes reads of a request.
SameFor(q) ==
    /\ pc'[q] = pc[q] /\ hold'[q] = hold[q]
    /\ accepted'[q] = accepted[q] /\ rows'[q] = rows[q]
    /\ q \in reserved' <=> q \in reserved
    /\ q \in struck => q \in struck'

\* A submission writes none of it for another request.
LEMMA SubmitIsLocal ==
    ASSUME TypeOK, NEW r \in Requests, NEW q \in Requests \ {r}, SubmitStep(r)
    PROVE  SameFor(q)
<1>1. ASSUME Reserve(r) PROVE SameFor(q)
  BY <1>1 DEF TypeOK, SameFor, Reserve
<1>2. ASSUME ReserveFails(r) PROVE SameFor(q)
  BY <1>2 DEF TypeOK, SameFor, ReserveFails
<1>3. ASSUME NotSent(r) PROVE SameFor(q)
  BY <1>3 DEF TypeOK, SameFor, NotSent, Candidates
<1>4. ASSUME Accepted(r) PROVE SameFor(q)
  BY <1>4 DEF TypeOK, SameFor, Accepted, Candidates, Accept
<1>5. ASSUME SentFails(r) PROVE SameFor(q)
  BY <1>5 DEF TypeOK, SameFor, SentFails, Candidates, Accept
<1>6. ASSUME NoChannelLeft(r) PROVE SameFor(q)
  BY <1>6 DEF TypeOK, SameFor, NoChannelLeft
<1>7. ASSUME Finalize(r) PROVE SameFor(q)
  BY <1>7 DEF TypeOK, SameFor, Finalize, Closes, CloseThrows, Close
<1>8. ASSUME FinalizeThrows(r) PROVE SameFor(q)
  BY <1>8 DEF TypeOK, SameFor, FinalizeThrows, Closes, CloseThrows, Close
<1>9. ASSUME ReadBody(r) PROVE SameFor(q)
  BY <1>9 DEF TypeOK, SameFor, ReadBody
<1>10. ASSUME CreateTask(r) PROVE SameFor(q)
  BY <1>10 DEF TypeOK, SameFor, CreateTask
<1>11. ASSUME CreateTaskFails(r) PROVE SameFor(q)
  BY <1>11 DEF TypeOK, SameFor, CreateTaskFails
<1>12. ASSUME MarkTask(r) PROVE SameFor(q)
  BY <1>12 DEF TypeOK, SameFor, MarkTask
<1>13. ASSUME MarkTaskFails(r) PROVE SameFor(q)
  BY <1>13 DEF TypeOK, SameFor, MarkTaskFails
<1>14. ASSUME RecordSubmission(r) PROVE SameFor(q)
  BY <1>14 DEF TypeOK, SameFor, RecordSubmission, RecordUsage
<1>15. ASSUME Catch(r) PROVE SameFor(q)
  BY <1>15 DEF TypeOK, SameFor, Catch, Closes, CloseThrows, Close
<1>16. ASSUME RecordError(r) PROVE SameFor(q)
  BY <1>16 DEF TypeOK, SameFor, RecordError, RecordUsage
<1>17. ASSUME Crash(r) PROVE SameFor(q)
  BY <1>17 DEF TypeOK, SameFor, Crash
<1>18. ASSUME Replay(r) PROVE SameFor(q)
  BY <1>18 DEF TypeOK, SameFor, Replay
<1> QED
  BY <1>1, <1>2, <1>3, <1>4, <1>5, <1>6, <1>7, <1>8, <1>9, <1>10, <1>11, <1>12, <1>13, <1>14, <1>15, <1>16, <1>17, <1>18 DEF SubmitStep

\* The provider, the clock, the operator and the pollers write none of it at all;
\* a fault of theirs strikes the task they were at.
LEMMA OthersKeep ==
    ASSUME TypeOK, NEW q \in Requests,
           \/ \E r \in Requests : JobFinishes(r) \/ FallsDue(r) \/ GrowsOld(r)
           \/ \E p \in Pollers : PollStep(p) \/ PollFails(p)
           \/ \E c \in Channels : DeleteChannel(c)
    PROVE  SameFor(q)
<1>1. UNCHANGED submission /\ struck \subseteq struck'
  BY DEF JobFinishes, FallsDue, GrowsOld, DeleteChannel, PollStep, PollFails, PollEntry,
         Snapshot, Begin, Answer, Backoff, AnswerFails, BackoffFails, PollerCrash,
         ExpireFails, LookFails, Expire, SkipUnlinked, ChannelGone, Ask
<1> QED BY <1>1 DEF SameFor

\* A request that keeps all of it, maybe struck, keeps its debts.
LEMMA OwesKept ==
    ASSUME NEW q \in Requests, Owes(q), SameFor(q)
    PROVE  Owes(q)'
BY DEF Owes, Refundable, Charged, SameFor

\* Every step leaves a submission that is still unharmed with the debts of its
\* stage.
LEMMA StepOwes ==
    ASSUME TaskInv, \A q \in Requests : Owes(q), Next
    PROVE  \A q \in Requests : Owes(q)'
<1>1. ASSUME NEW r \in Requests, SubmitStep(r), r \notin struck' PROVE Owes(r)'
  <2> USE DEF TaskInv
  <2>0. Tracks(r)
    BY DEF Requested
  <2>1. ASSUME Reserve(r) PROVE Owes(r)'
    BY <1>1, <2>0, <2>1 DEF TypeOK, Tracks, Before, Paid, Owes, Refundable, Charged, Reserve
  <2>2. ASSUME ReserveFails(r) PROVE Owes(r)'
    BY <1>1, <2>0, <2>2 DEF TypeOK, Tracks, Before, Paid, Owes, Refundable, Charged, ReserveFails
  <2>3. ASSUME NotSent(r) PROVE Owes(r)'
    BY <1>1, <2>0, <2>3 DEF TypeOK, Tracks, Before, Paid, Owes, Refundable, Charged, NotSent, Candidates
  <2>4. ASSUME Accepted(r) PROVE Owes(r)'
    BY <1>1, <2>0, <2>4 DEF TypeOK, Tracks, Before, Paid, Owes, Refundable, Charged, Accepted, Candidates, Accept
  <2>5. ASSUME SentFails(r) PROVE Owes(r)'
    BY <1>1, <2>0, <2>5 DEF TypeOK, Tracks, Before, Paid, Owes, Refundable, Charged, SentFails, Candidates, Accept
  <2>6. ASSUME NoChannelLeft(r) PROVE Owes(r)'
    BY <1>1, <2>0, <2>6 DEF TypeOK, Tracks, Before, Paid, Owes, Refundable, Charged, NoChannelLeft
  <2>7. ASSUME Finalize(r) PROVE Owes(r)'
    BY <1>1, <2>0, <2>7, ZenonT(60) DEF TypeOK, Tracks, Before, Paid, Owes, Refundable, Charged, Finalize, Closes, CloseThrows, Close
  <2>8. ASSUME FinalizeThrows(r) PROVE Owes(r)'
    BY <1>1, <2>0, <2>8 DEF TypeOK, Tracks, Before, Paid, Owes, Refundable, Charged, FinalizeThrows, Closes, CloseThrows, Close
  <2>9. ASSUME ReadBody(r) PROVE Owes(r)'
    BY <1>1, <2>0, <2>9 DEF TypeOK, Tracks, Before, Paid, Owes, Refundable, Charged, ReadBody
  <2>10. ASSUME CreateTask(r) PROVE Owes(r)'
    BY <1>1, <2>0, <2>10 DEF TypeOK, Tracks, Before, Paid, Owes, Refundable, Charged, CreateTask
  <2>11. ASSUME CreateTaskFails(r) PROVE Owes(r)'
    BY <1>1, <2>0, <2>11 DEF TypeOK, Tracks, Before, Paid, Owes, Refundable, Charged, CreateTaskFails
  <2>12. ASSUME MarkTask(r) PROVE Owes(r)'
    BY <1>1, <2>0, <2>12 DEF TypeOK, Tracks, Before, Paid, Owes, Refundable, Charged, MarkTask
  <2>13. ASSUME MarkTaskFails(r) PROVE Owes(r)'
    BY <1>1, <2>0, <2>13 DEF TypeOK, Tracks, Before, Paid, Owes, Refundable, Charged, MarkTaskFails
  <2>14. ASSUME RecordSubmission(r) PROVE Owes(r)'
    <3>0. pc[r] = "row" /\ r \notin struck /\ RecordUsage(r, [ok |-> TRUE, quota |-> Price])
      BY <1>1, <2>14 DEF RecordSubmission, RecordUsage
    <3>a. rows' = [rows EXCEPT ![r] = @ \cup {[ok |-> TRUE, quota |-> Price]}]
      BY <1>1, <3>0 DEF RecordUsage
    <3>1. rows'[r] = {[ok |-> TRUE, quota |-> Price]} /\ pc'[r] = "ended" /\ Charged(r)
      BY <2>14, <3>0, <3>a DEF TypeOK, Owes, RecordSubmission
    <3>2. Charged(r)'
      BY <2>14, <3>1 DEF Charged, RecordSubmission
    <3> QED BY <3>1, <3>2 DEF Owes
  <2>15. ASSUME Catch(r) PROVE Owes(r)'
    BY <1>1, <2>0, <2>15 DEF TypeOK, Tracks, Before, Paid, Owes, Refundable, Charged, Catch, Closes, CloseThrows, Close
  <2>16. ASSUME RecordError(r) PROVE Owes(r)'
    BY <1>1, <2>0, <2>16 DEF TypeOK, Tracks, Before, Paid, Owes, Refundable, Charged, RecordError, RecordUsage
  <2>17. ASSUME Crash(r) PROVE Owes(r)'
    BY <1>1, <2>0, <2>17 DEF TypeOK, Tracks, Before, Paid, Owes, Refundable, Charged, Crash
  <2>18. ASSUME Replay(r) PROVE Owes(r)'
    BY <1>1, <2>0, <2>18 DEF TypeOK, Tracks, Before, Paid, Owes, Refundable, Charged, Replay
  <2> QED
    BY <1>1, <2>1, <2>2, <2>3, <2>4, <2>5, <2>6, <2>7, <2>8, <2>9, <2>10, <2>11, <2>12, <2>13, <2>14, <2>15, <2>16, <2>17, <2>18 DEF SubmitStep
<1>2. ASSUME NEW r \in Requests, SubmitStep(r) PROVE \A q \in Requests : Owes(q)'
  <2>1. ASSUME NEW q \in Requests \ {r} PROVE Owes(q)'
    BY <1>2, SubmitIsLocal, OwesKept DEF TaskInv
  <2>2. Owes(r)'
    BY <1>1, <1>2 DEF Owes
  <2> QED BY <2>1, <2>2
<1> QED BY <1>2, OthersKeep, OwesKept DEF Next, TaskInv

----------------------------------------------------------------------------
(* The theorems.                                                           *)

\* The invariant holds in every reachable state: no task exists at first.
THEOREM TaskInvariant == Spec => []TaskInv
<1>1. Init => TaskInv
  <2> SUFFICES ASSUME Init PROVE TaskInv
    OBVIOUS
  <2>1. TypeOK
    <3>1. poller \in [Pollers -> [pc: {"idle", "look", "answer", "backoff"},
                                  batch: SUBSET Entries, entry: Entries \cup {NoEntry},
                                  verdict: Verdicts]]
      BY DEF Init, Resting, Looking
    <3> QED BY <3>1 DEF Init, TypeOK
  <2>2. Requested
    BY DEF Init, Requested, Tracks, Told, Paid, Before
  <2>3. Polled
    BY DEF Init, Polled, Knows, Resting, Looking
  <2> QED BY <2>1, <2>2, <2>3 DEF TaskInv
<1>2. TaskInv /\ [Next]_vars => TaskInv'
  <2> SUFFICES ASSUME TaskInv, [Next]_vars PROVE TaskInv'
    OBVIOUS
  <2>1. CASE Next
    BY <2>1, SubmitInv, WorldInv, PollInv DEF Next
  <2>2. CASE UNCHANGED vars
    <3>1. TypeOK'
      BY <2>2 DEF vars, TaskInv, TypeOK
    <3>2. Requested'
      BY <2>2 DEF vars, TaskInv, Requested, Tracks, Told, Paid, Before
    <3>3. Polled'
      BY <2>2 DEF vars, TaskInv, Polled, Knows, Sound
    <3> QED BY <3>1, <3>2, <3>3 DEF TaskInv
  <2> QED BY <2>1, <2>2
<1> QED BY <1>1, <1>2, PTL DEF Spec

\* Every variable keeps its type; the poll count stays within MAX_POLL_COUNT.
THEOREM TaskTypeCorrect == Spec => []TypeOK
BY TaskInvariant, PTL DEF TaskInv

\* submitTask retries only what was not sent: whatever fails afterwards, at most
\* one provider has accepted the job.
THEOREM AtMostOneJob == Spec => []OneJobPerRequest
<1>1. TaskInv => OneJobPerRequest
  <2> SUFFICES ASSUME TaskInv, NEW r \in Requests PROVE Cardinality(accepted[r]) <= 1
    BY DEF OneJobPerRequest
  <2>1. CASE accepted[r] = {}
    BY <2>1, FS_EmptySet
  <2>2. ASSUME NEW c \in accepted[r] PROVE Cardinality(accepted[r]) <= 1
    <3>1. accepted[r] = {c}
      BY DEF TaskInv, Requested, Tracks
    <3>2. Cardinality(accepted[r]) = 1
      BY <3>1, FS_Singleton
    <3> QED BY <3>2
  <2> QED BY <2>1, <2>2
<1> QED BY <1>1, TaskInvariant, PTL

\* A task that a client can see has been paid for, whatever invocations of the
\* poll cron make of it.
THEOREM VisibleTasksArePaid == Spec => []TasksArePaid
<1>1. TaskInv => TasksArePaid
  BY DEF TaskInv, Requested, Tracks, Paid, TasksArePaid
<1> QED BY <1>1, TaskInvariant, PTL

\* Overlapping invocations may overwrite a final status, but what they write was
\* true of the provider's job or channel.
THEOREM OnlyTrueVerdicts == Spec => []VerdictsAreTrue
<1>1. TaskInv => VerdictsAreTrue
  BY DEF TaskInv, TypeOK, Requested, Told, VerdictsAreTrue
<1> QED BY <1>1, TaskInvariant, PTL

\* Beside the invariant, a submission that met no fault owes what its stage says.
THEOREM UnharmedOwe == Spec => [](\A r \in Requests : Owes(r))
<1>1. Init => \A r \in Requests : Owes(r)
  BY DEF Init, Owes
<1>2. TaskInv /\ (\A r \in Requests : Owes(r)) /\ [Next]_vars
        => (\A r \in Requests : Owes(r))'
  <2> SUFFICES ASSUME TaskInv, \A r \in Requests : Owes(r), [Next]_vars
               PROVE  (\A r \in Requests : Owes(r))'
    OBVIOUS
  <2>1. CASE Next
    BY <2>1, StepOwes
  <2>2. CASE UNCHANGED vars
    BY <2>2, OwesKept DEF vars, SameFor
  <2> QED BY <2>1, <2>2
<1> QED BY <1>1, <1>2, TaskInvariant, PTL DEF Spec

\* Without faults a submission is charged exactly when a provider took the job,
\* and its one usage row carries that charge, task or no task.
THEOREM AlwaysChargedForAcceptance == Spec => []ChargedForAcceptance
<1>1. (\A r \in Requests : Owes(r)) => ChargedForAcceptance
  <2> SUFFICES ASSUME \A r \in Requests : Owes(r),
                      NEW r \in Requests, pc[r] \in {"ended", "failed"}, r \notin struck
               PROVE
      /\ hold[r] = [phase |-> "closed", charge |-> IF accepted[r] = {} THEN 0 ELSE Price]
      /\ \E row \in rows[r] : rows[r] = {row} /\ row.quota = hold[r].charge
    BY DEF ChargedForAcceptance
  <2> DEFINE paid == IF accepted[r] = {} THEN 0 ELSE Price
  <2>1. /\ hold[r] = [phase |-> "closed", charge |-> paid]
        /\ \E ok \in BOOLEAN : rows[r] = {[ok |-> ok, quota |-> paid]}
    BY DEF Owes, Charged
  <2> QED BY <2>1
<1> QED BY <1>1, UnharmedOwe, PTL
=============================================================================
