--------------------------- MODULE StorageProofs ----------------------------
(***************************************************************************)
(* Proofs about what is kept between requests: the usage log with its      *)
(* rollups, and the coordination store that holds its buffer, the queues   *)
(* and the locks, with the scripts that run on it in two languages.        *)
(***************************************************************************)
EXTENDS UsageLog, Coordination, SumLemmas, SequenceTheorems, TLAPS

(***************************************************************************)
(* UsageLog.  Proof that a month holds one row of a request, that no       *)
(* accepted row is lost and that the rollups are what the rows add up to,  *)
(* for any requests, clock, months, batch size, flushes at a time and      *)
(* number of faults.                                                       *)
(*                                                                         *)
(* A flush works on a copy of the buffer's head.  While it owns the lock   *)
(* the head stays where it is, since rows are only appended and only an    *)
(* owner trims; and a row of the copy is in the ledger unless its month is *)
(* still to be written.  So what an owner trims is in the ledger.          *)
(*                                                                         *)
(* A transaction folds the rows it inserts into each rollup they count in. *)
(* Whatever order the fold takes them in, each is a row of the month that  *)
(* was not there, so the rollup goes on being the tally of its rows.       *)
(***************************************************************************)

Callers == [pc : Phases, row : Rows]
FlushPhases == {"idle", "peek", "persist", "ack", "release"}
Flushes == [pc : FlushPhases, batch : Seq(Rows), months : SUBSET Months]

LogType ==
    /\ caller \in [Requests -> Callers]
    /\ logs \in Collections
    /\ buffer \in Seq(Rows)
    /\ flusher \in [Flushers -> Flushes]
    /\ hour \in 0..LastHour

Writing(f) == flusher[f].pc \in {"persist", "ack"}

\* The head of the buffer is the batch of the flush that owns the lock.
HeadStays(f) ==
    lock = f /\ Writing(f) =>
        \A i \in 1..Len(flusher[f].batch) : i <= Len(buffer) /\ buffer[i] = flusher[f].batch[i]

\* A row of the batch is in the ledger, or its month is still to be written.
BatchIsKept(f) ==
    Writing(f) => \A i \in 1..Len(flusher[f].batch) :
        \/ Stored(flusher[f].batch[i])
        \/ flusher[f].pc = "persist" /\ Month[flusher[f].batch[i].hour] \in flusher[f].months

FlushesAreSafe == \A f \in Flushers : HeadStays(f) /\ BatchIsKept(f)

UsageInv == LogType /\ OneRowPerMonth /\ RecordedIsKept /\ FlushesAreSafe

\* Nothing leaves the ledger.
LogsGrow == logs' \in Collections /\ \A m \in Months : logs[m] \subseteq logs'[m]

-----------------------------------------------------------------------------
(* Rows, months and the least of some positions.                           *)

LEMMA LeastPosition ==
    ASSUME NEW S, S \subseteq Nat, S # {}
    PROVE  \E i \in S : \A j \in S : i <= j
<1>1. \E i \in S : \A j \in S : ~ (<<j, i>> \in OpToRel(<, Nat))
  BY NatLessThanWellFounded, WFMin
<1>2. PICK i \in S : \A j \in S : ~ (<<j, i>> \in OpToRel(<, Nat))
  BY <1>1
<1>3. ASSUME NEW j \in S PROVE i <= j
  <2>1. ~ (j < i)
    BY <1>2, Zenon DEF OpToRel
  <2> QED BY <2>1
<1> QED BY <1>3

LEMMA MonthOfRow ==
    ASSUME NEW row \in Rows PROVE Month[row.hour] \in Months
<1>1. row.hour \in 0..LastHour
  BY DEF Rows
<1> QED BY <1>1 DEF Months

LEMMA StoredStays ==
    ASSUME LogsGrow, NEW row \in Rows, Stored(row) PROVE Stored(row)'
BY MonthOfRow DEF LogsGrow, Stored

\* The transaction of a month: one row of each request, and every row of the
\* batch that is of the month.
LEMMA MonthIsPersisted ==
    ASSUME LogType, OneRowPerMonth, NEW rows \in Seq(Rows), NEW m, PersistMonth(rows, m)
    PROVE  /\ LogsGrow /\ OneRowPerMonth'
           /\ \A i \in 1..Len(rows) : Month[rows[i].hour] = m => Stored(rows[i])'
<1> DEFINE new == {rows[i] : i \in Fresh(rows, m)}
<1>0. DOMAIN rows = 1..Len(rows) /\ Len(rows) \in Nat /\ \A i \in 1..Len(rows) : rows[i] \in Rows
  BY LenProperties, ElementOfSeq
<1>1. Fresh(rows, m) \subseteq 1..Len(rows)
  BY <1>0 DEF Fresh, BucketOf
<1>2. new \subseteq Rows
  BY <1>0, <1>1
<1>3. logs \in [Months -> SUBSET Rows]
  BY DEF LogType, Collections
<1>4. logs' = [logs EXCEPT ![m] = @ \cup new]
  BY DEF PersistMonth
<1> HIDE DEF new
<1>5. LogsGrow
  BY <1>2, <1>3, <1>4 DEF LogsGrow, Collections
<1>6. OneRowPerMonth'
  <2> SUFFICES ASSUME NEW n \in Months, NEW a \in logs'[n], NEW b \in logs'[n], a.req = b.req
               PROVE  a = b
    BY DEF OneRowPerMonth
  <2>1. CASE n # m
    BY <1>3, <1>4, <2>1 DEF OneRowPerMonth
  <2>2. CASE n = m
    <3>1. logs'[m] = logs[m] \cup new
      BY <1>3, <1>4, <2>2
    <3>2. ASSUME NEW i \in Fresh(rows, m), NEW j \in Fresh(rows, m), rows[i].req = rows[j].req
          PROVE  i = j
      <4>1. i \in BucketOf(rows, m) /\ j \in BucketOf(rows, m) /\ i \in Nat /\ j \in Nat
        BY <1>1 DEF Fresh
      <4>2. ~(j < i) /\ ~(i < j)
        BY <3>2, <4>1 DEF Fresh
      <4> QED BY <4>1, <4>2
    <3>3. \A i \in Fresh(rows, m) : \A old \in logs[m] : old.req # rows[i].req
      BY DEF Fresh
    <3>4. \A c \in new : \E i \in Fresh(rows, m) : c = rows[i]
      BY DEF new
    <3>5. \A c, d \in new : c.req = d.req => c = d
      BY <3>2, <3>4
    <3>6. \A c \in new : \A old \in logs[m] : old.req # c.req
      BY <3>3, <3>4
    <3>7. \A c, d \in logs[m] : c.req = d.req => c = d
      BY <2>2 DEF OneRowPerMonth
    <3>8. a \in logs[m] \cup new /\ b \in logs[m] \cup new
      BY <2>2, <3>1
    <3> QED BY <3>5, <3>6, <3>7, <3>8
  <2> QED BY <2>1, <2>2
<1>7. ASSUME NEW i \in 1..Len(rows), Month[rows[i].hour] = m
      PROVE  Stored(rows[i])'
  <2>1. rows[i] \in Rows /\ m \in Months
    BY <1>0, <1>7, MonthOfRow
  <2>2. CASE \E old \in logs[m] : old.req = rows[i].req
    BY <1>5, <1>7, <2>1, <2>2, StoredStays DEF Stored
  <2>3. CASE \A old \in logs[m] : old.req # rows[i].req
    <3> DEFINE same == {j \in BucketOf(rows, m) : rows[j].req = rows[i].req}
    <3>1. same \subseteq Nat /\ i \in same
      BY <1>0, <1>7 DEF BucketOf
    <3>2. PICK j \in same : \A k \in same : j <= k
      BY <3>1, LeastPosition
    <3>3. \A k \in BucketOf(rows, m) : k < j => rows[k].req # rows[j].req
      <4>1. \A k \in BucketOf(rows, m) : k \in Nat
        BY <1>0 DEF BucketOf
      <4> QED BY <3>1, <3>2, <4>1
    <3>4. j \in Fresh(rows, m)
      BY <2>3, <3>3 DEF Fresh
    <3>5. rows[j] \in logs'[m]
      BY <1>3, <1>4, <2>1, <3>4 DEF new
    <3> QED BY <1>7, <3>5 DEF Stored
  <2> QED BY <2>2, <2>3
<1> QED BY <1>5, <1>6, <1>7

-----------------------------------------------------------------------------
(* What a step that is not a flush's leaves as it was.                     *)

\* Rows are appended, nothing is trimmed, and nobody gets the lock.
LEMMA FlushesStaySafe ==
    ASSUME LogType, FlushesAreSafe, LogsGrow, UNCHANGED flusher,
           \/ UNCHANGED buffer
           \/ \E row \in Rows : buffer' = Append(buffer, row),
           lock' = lock \/ lock' = NoOwner
    PROVE  FlushesAreSafe'
<1> SUFFICES ASSUME NEW f \in Flushers PROVE HeadStays(f)' /\ BatchIsKept(f)'
  BY DEF FlushesAreSafe
<1>0. flusher[f].batch \in Seq(Rows) /\ flusher'[f] = flusher[f]
  BY DEF LogType, Flushes
<1>1. \A i \in 1..Len(flusher[f].batch) : flusher[f].batch[i] \in Rows
  BY <1>0, ElementOfSeq
<1>2. HeadStays(f)'
  <2>1. lock' = f => lock = f
    BY UsageAssumption
  <2>2. Len(buffer) \in Nat
    BY LenProperties DEF LogType
  <2>3. CASE UNCHANGED buffer
    BY <1>0, <2>1, <2>3 DEF FlushesAreSafe, HeadStays, Writing
  <2>4. CASE \E row \in Rows : buffer' = Append(buffer, row)
    <3>1. /\ Len(buffer') = Len(buffer) + 1
          /\ \A i \in 1..Len(buffer) : buffer'[i] = buffer[i]
      BY <2>4, AppendProperties DEF LogType
    <3>2. Len(flusher[f].batch) \in Nat
      BY <1>0, LenProperties
    <3> QED BY <1>0, <2>1, <2>2, <3>1, <3>2 DEF FlushesAreSafe, HeadStays, Writing
  <2> QED BY <2>3, <2>4
<1>3. BatchIsKept(f)'
  BY <1>0, <1>1, StoredStays DEF FlushesAreSafe, BatchIsKept, Writing, Stored
<1> QED BY <1>2, <1>3

LEMMA BufferedStays ==
    ASSUME LogType, NEW row \in Rows, Buffered(row),
           \/ UNCHANGED buffer
           \/ \E more \in Rows : buffer' = Append(buffer, more)
    PROVE  Buffered(row)'
<1>1. CASE UNCHANGED buffer
  BY <1>1 DEF Buffered
<1>2. CASE \E more \in Rows : buffer' = Append(buffer, more)
  <2>1. PICK more \in Rows : buffer' = Append(buffer, more)
    BY <1>2
  <2>2. buffer \in Seq(Rows)
    BY DEF LogType
  <2>3. /\ buffer' \in Seq(Rows) /\ Len(buffer') = Len(buffer) + 1
        /\ \A i \in 1..Len(buffer) : buffer'[i] = buffer[i]
    BY <2>1, <2>2, AppendProperties
  <2>4. DOMAIN buffer = 1..Len(buffer) /\ DOMAIN buffer' = 1..Len(buffer') /\ Len(buffer) \in Nat
    BY <2>2, <2>3, LenProperties
  <2> QED BY <2>3, <2>4 DEF Buffered
<1> QED BY <1>1, <1>2

\* A step of one call that does not accept a row.
LEMMA CallMoves ==
    ASSUME UsageInv, LogsGrow, OneRowPerMonth',
           NEW r \in Requests, NEW call \in Callers, caller' = [caller EXCEPT ![r] = call],
           \/ UNCHANGED buffer
           \/ \E row \in Rows : buffer' = Append(buffer, row),
           call.pc = "done" => Buffered(call.row)' \/ Stored(call.row)',
           UNCHANGED <<lock, flusher, hour>>
    PROVE  UsageInv'
<1>1. LogType'
  BY AppendProperties DEF UsageInv, LogType, LogsGrow
<1>2. FlushesAreSafe'
  BY FlushesStaySafe DEF UsageInv
<1>3. RecordedIsKept'
  <2> SUFFICES ASSUME NEW s \in Requests, caller'[s].pc = "done"
               PROVE  (Buffered(caller[s].row) \/ Stored(caller[s].row))'
    BY DEF RecordedIsKept
  <2>1. CASE s = r
    <3>1. caller'[s] = call
      BY <2>1 DEF UsageInv, LogType
    <3> QED BY <3>1 DEF Buffered, Stored
  <2>2. CASE s # r
    <3>1. caller'[s] = caller[s] /\ caller[s].row \in Rows
      BY <2>2 DEF UsageInv, LogType, Callers
    <3>2. Buffered(caller[s].row) \/ Stored(caller[s].row)
      BY <3>1 DEF UsageInv, RecordedIsKept
    <3> QED BY <3>1, <3>2, BufferedStays, StoredStays DEF UsageInv, Buffered, Stored
  <2> QED BY <2>1, <2>2
<1> QED BY <1>1, <1>2, <1>3 DEF UsageInv

-----------------------------------------------------------------------------
(* The calls.                                                              *)

LEMMA CallType ==
    ASSUME LogType, NEW r \in Requests
    PROVE  caller[r] \in Callers /\ caller[r].row \in Rows
BY DEF LogType, Callers

LEMMA NothingGone == ASSUME LogType, UNCHANGED logs PROVE LogsGrow
BY DEF LogType, LogsGrow

LEMMA RecordIsSafe ==
    ASSUME UsageInv, NEW r \in Requests, Record(r) \/ RecordFailure(r) PROVE UsageInv'
<1>1. PICK q \in Nat, c \in Channels \cup {NoChannel}, ok \in BOOLEAN :
        caller' = [caller EXCEPT ![r] = [pc |-> "push",
            row |-> [req |-> r, hour |-> hour, quota |-> q, ok |-> ok, channel |-> c]]]
  BY UsageAssumption DEF Record, RecordFailure
<1> DEFINE call == [pc |-> "push",
            row |-> [req |-> r, hour |-> hour, quota |-> q, ok |-> ok, channel |-> c]]
<1>2. call \in Callers /\ call.pc # "done"
  BY <1>1 DEF Callers, Rows, Phases, UsageInv, LogType
<1>3. UNCHANGED <<logs, buffer, lock, flusher, hour>>
  BY DEF Record, RecordFailure
<1>4. LogsGrow /\ OneRowPerMonth'
  BY <1>3, NothingGone DEF UsageInv, OneRowPerMonth
<1>5. caller' = [caller EXCEPT ![r] = call]
  BY <1>1
<1> HIDE DEF call
<1> QED BY <1>2, <1>3, <1>4, <1>5, CallMoves

\* recordUsage returns, or goes on elsewhere, with the same row.
LEMMA SameRow ==
    ASSUME LogType, NEW r \in Requests, NEW pc \in Phases
    PROVE  /\ [caller EXCEPT ![r].pc = pc] = [caller EXCEPT ![r] = [pc |-> pc, row |-> caller[r].row]]
           /\ [pc |-> pc, row |-> caller[r].row] \in Callers
<1>1. caller[r] \in Callers
  BY CallType
<1>2. [caller[r] EXCEPT !.pc = pc] = [pc |-> pc, row |-> caller[r].row]
  BY <1>1 DEF Callers
<1>3. [caller EXCEPT ![r].pc = pc] = [caller EXCEPT ![r] = [caller[r] EXCEPT !.pc = pc]]
  OBVIOUS
<1> QED BY <1>1, <1>2, <1>3 DEF Callers

LEMMA PushIsSafe ==
    ASSUME UsageInv, NEW r \in Requests, Push(r) \/ PushFails(r) PROVE UsageInv'
<1>1. PICK pc \in Phases :
        /\ caller' = [caller EXCEPT ![r].pc = pc]
        /\ pc = "done" => buffer' = Append(buffer, caller[r].row)
  BY DEF Push, PushFails, Returns, Phases
<1>2. UNCHANGED buffer \/ buffer' = Append(buffer, caller[r].row)
  BY DEF Push, PushFails
<1>3. UNCHANGED <<logs, lock, flusher, hour>>
  BY DEF Push, PushFails
<1>4. caller[r].row \in Rows /\ LogType
  BY CallType DEF UsageInv
<1>5. LogsGrow /\ OneRowPerMonth'
  BY <1>3, NothingGone DEF UsageInv, OneRowPerMonth
<1>6. PICK row : row = caller[r].row
  OBVIOUS
<1> DEFINE call == [pc |-> pc, row |-> row]
<1>7. caller' = [caller EXCEPT ![r] = call] /\ call \in Callers
  BY <1>1, <1>4, <1>6, SameRow
<1>8. call.pc = "done" => Buffered(call.row)'
  <2> SUFFICES ASSUME pc = "done" PROVE Buffered(row)'
    OBVIOUS
  <2>1. buffer \in Seq(Rows) /\ row \in Rows /\ buffer' = Append(buffer, row)
    BY <1>1, <1>4, <1>6 DEF LogType
  <2>2. /\ buffer' \in Seq(Rows) /\ Len(buffer') = Len(buffer) + 1
        /\ buffer'[Len(buffer) + 1] = row
    BY <2>1, AppendProperties
  <2>3. Len(buffer) + 1 \in DOMAIN buffer'
    BY <2>1, <2>2, LenProperties
  <2> QED BY <2>2, <2>3 DEF Buffered
<1>9. UNCHANGED buffer \/ \E more \in Rows : buffer' = Append(buffer, more)
  BY <1>2, <1>4
<1> HIDE DEF call
<1> QED BY <1>3, <1>5, <1>7, <1>8, <1>9, CallMoves

\* persist for one row.
LEMMA OwnRowIsPersisted ==
    ASSUME LogType, OneRowPerMonth, NEW row \in Rows, PersistMonth(<<row>>, Month[row.hour])
    PROVE  LogsGrow /\ OneRowPerMonth' /\ Stored(row)'
<1>1. <<row>> \in Seq(Rows) /\ Len(<<row>>) = 1 /\ <<row>>[1] = row
  OBVIOUS
<1>2. \A i \in 1..Len(<<row>>) : Month[<<row>>[i].hour] = Month[row.hour] => Stored(<<row>>[i])'
  BY <1>1, MonthIsPersisted
<1>3. LogsGrow /\ OneRowPerMonth'
  BY <1>1, MonthIsPersisted
<1>4. Stored(row)'
  BY <1>1, <1>2 DEF Stored
<1> QED BY <1>3, <1>4

LEMMA PersistOwnIsSafe ==
    ASSUME UsageInv, NEW r \in Requests, PersistOwn(r) \/ PersistOwnFails(r) PROVE UsageInv'
<1>1. PICK pc \in Phases :
        /\ caller' = [caller EXCEPT ![r].pc = pc]
        /\ \/ PersistMonth(<<caller[r].row>>, Month[caller[r].row.hour])
           \/ UNCHANGED logs /\ pc # "done"
  BY DEF PersistOwn, PersistOwnFails, Returns, Phases
<1>2. UNCHANGED <<buffer, lock, flusher, hour>>
  BY DEF PersistOwn, PersistOwnFails
<1>3. caller[r].row \in Rows /\ LogType /\ OneRowPerMonth
  BY CallType DEF UsageInv
<1>4. PICK row \in Rows : row = caller[r].row
  BY <1>3
<1> DEFINE call == [pc |-> pc, row |-> row]
<1>5. caller' = [caller EXCEPT ![r] = call] /\ call \in Callers
  BY <1>1, <1>3, <1>4, SameRow
<1>6. LogsGrow /\ OneRowPerMonth' /\ (pc = "done" => Stored(row)')
  <2>1. CASE PersistMonth(<<caller[r].row>>, Month[caller[r].row.hour])
    BY <1>3, <1>4, <2>1, OwnRowIsPersisted
  <2>2. CASE UNCHANGED logs /\ pc # "done"
    BY <1>3, <2>2, NothingGone DEF OneRowPerMonth
  <2> QED BY <1>1, <2>1, <2>2
<1>7. call.pc = "done" => Stored(call.row)'
  BY <1>6
<1> HIDE DEF call
<1> QED BY <1>2, <1>5, <1>6, <1>7, CallMoves

LEMMA CrashIsSafe ==
    ASSUME UsageInv, NEW r \in Requests, CallerCrash(r) PROVE UsageInv'
<1>1. "lost" \in Phases /\ caller' = [caller EXCEPT ![r].pc = "lost"]
  BY DEF CallerCrash, Phases
<1>2. UNCHANGED <<logs, buffer, lock, flusher, hour>>
  BY DEF CallerCrash
<1>3. PICK row \in Rows : row = caller[r].row
  BY CallType DEF UsageInv
<1> DEFINE call == [pc |-> "lost", row |-> row]
<1>4. caller' = [caller EXCEPT ![r] = call] /\ call \in Callers /\ call.pc # "done"
  BY <1>1, <1>3, SameRow DEF UsageInv
<1>5. LogsGrow /\ OneRowPerMonth'
  BY <1>2, NothingGone DEF UsageInv, OneRowPerMonth
<1> HIDE DEF call
<1> QED BY <1>2, <1>4, <1>5, CallMoves

-----------------------------------------------------------------------------
(* The flushes.                                                            *)

\* A step of one flush: an owner trims what is in the ledger and lets go.
LEMMA FlushMoves ==
    ASSUME UsageInv, LogsGrow, OneRowPerMonth',
           NEW f \in Flushers, NEW flush \in Flushes, flusher' = [flusher EXCEPT ![f] = flush],
           HeadStays(f)', BatchIsKept(f)',
           buffer' \in Seq(Rows),
           \A row \in Rows : Buffered(row) => Buffered(row)' \/ Stored(row)',
           lock' = NoOwner \/ (UNCHANGED buffer /\ lock' \in {lock, f}),
           UNCHANGED <<caller, hour>>
    PROVE  UsageInv'
<1>1. LogType'
  BY DEF UsageInv, LogType, LogsGrow
<1>2. RecordedIsKept'
  <2> SUFFICES ASSUME NEW s \in Requests, caller[s].pc = "done"
               PROVE  (Buffered(caller[s].row) \/ Stored(caller[s].row))'
    BY DEF RecordedIsKept
  <2>1. PICK row \in Rows : row = caller[s].row
    BY CallType DEF UsageInv
  <2>2. Buffered(row) \/ Stored(row)
    BY <2>1 DEF UsageInv, RecordedIsKept
  <2>3. Buffered(row)' \/ Stored(row)'
    BY <2>2, StoredStays
  <2> QED BY <2>1, <2>3 DEF Buffered, Stored
<1>3. ASSUME NEW g \in Flushers, g # f PROVE HeadStays(g)' /\ BatchIsKept(g)'
  <2>1. flusher'[g] = flusher[g] /\ flusher[g].batch \in Seq(Rows)
    BY <1>3 DEF UsageInv, LogType, Flushes
  <2>2. \A i \in 1..Len(flusher[g].batch) : flusher[g].batch[i] \in Rows
    BY <2>1, ElementOfSeq
  <2>3. lock' = g => lock = g /\ UNCHANGED buffer
    BY <1>3, UsageAssumption
  <2>4. HeadStays(g)'
    BY <2>1, <2>3 DEF UsageInv, FlushesAreSafe, HeadStays, Writing
  <2>5. BatchIsKept(g)'
    BY <2>1, <2>2, StoredStays, SMTT(30) DEF UsageInv, FlushesAreSafe, BatchIsKept, Writing, Stored
  <2> QED BY <2>4, <2>5
<1>4. FlushesAreSafe'
  BY <1>3 DEF FlushesAreSafe
<1> QED BY <1>1, <1>2, <1>4 DEF UsageInv

\* Between its writes a flush holds nothing that has to be kept.
LEMMA FlushRests ==
    ASSUME UsageInv, NEW f \in Flushers, NEW flush \in Flushes,
           flush.pc \notin {"persist", "ack"},
           flusher' = [flusher EXCEPT ![f] = flush],
           LogsGrow, OneRowPerMonth', lock' \in {lock, f, NoOwner},
           UNCHANGED <<caller, buffer, hour>>
    PROVE  UsageInv'
<1>1. flusher'[f] = flush
  BY DEF UsageInv, LogType
<1>2. HeadStays(f)' /\ BatchIsKept(f)'
  BY <1>1 DEF HeadStays, BatchIsKept, Writing
<1>3. buffer' \in Seq(Rows) /\ \A row \in Rows : Buffered(row) => Buffered(row)'
  BY DEF UsageInv, LogType, Buffered
<1> QED BY <1>2, <1>3, FlushMoves

LEMMA FlushType ==
    ASSUME LogType, NEW f \in Flushers
    PROVE  /\ flusher[f] \in Flushes /\ flusher[f].batch \in Seq(Rows)
           /\ flusher[f].months \subseteq Months
           /\ DOMAIN flusher[f].batch = 1..Len(flusher[f].batch)
           /\ \A i \in 1..Len(flusher[f].batch) : flusher[f].batch[i] \in Rows
<1>1. flusher[f] \in Flushes /\ flusher[f].batch \in Seq(Rows) /\ flusher[f].months \subseteq Months
  BY DEF LogType, Flushes
<1> QED BY <1>1, ElementOfSeq, LenProperties

LEMMA GoesTo ==
    ASSUME LogType, NEW f \in Flushers, NEW pc \in FlushPhases
    PROVE  /\ [flusher EXCEPT ![f].pc = pc] = [flusher EXCEPT ![f] =
                  [pc |-> pc, batch |-> flusher[f].batch, months |-> flusher[f].months]]
           /\ [pc |-> pc, batch |-> flusher[f].batch, months |-> flusher[f].months] \in Flushes
<1>1. flusher[f] \in Flushes
  BY FlushType
<1>2. [flusher[f] EXCEPT !.pc = pc] =
          [pc |-> pc, batch |-> flusher[f].batch, months |-> flusher[f].months]
  BY <1>1 DEF Flushes
<1>3. [flusher EXCEPT ![f].pc = pc] = [flusher EXCEPT ![f] = [flusher[f] EXCEPT !.pc = pc]]
  OBVIOUS
<1> QED BY <1>1, <1>2, <1>3 DEF Flushes

\* Taking the lock, letting go of it, and dying.
LEMMA RestingIsSafe ==
    ASSUME UsageInv, NEW f \in Flushers, AcquireLock(f) \/ ReleaseLock(f) \/ FlusherCrash(f)
    PROVE  UsageInv'
<1>1. UNCHANGED <<caller, logs, buffer, hour>> /\ lock' \in {lock, f, NoOwner}
  BY DEF AcquireLock, ReleaseLock, FlusherCrash
<1>2. LogsGrow /\ OneRowPerMonth'
  BY <1>1, NothingGone DEF UsageInv, OneRowPerMonth
<1>3. CASE AcquireLock(f)
  <2> DEFINE flush == [pc |-> "peek", batch |-> flusher[f].batch, months |-> flusher[f].months]
  <2>1. flusher' = [flusher EXCEPT ![f] = flush] /\ flush \in Flushes
    BY <1>3, GoesTo DEF AcquireLock, Goto, FlushPhases, UsageInv
  <2>2. PICK next \in Flushes : next = flush
    BY <2>1
  <2>3. next.pc = "peek"
    BY <2>2
  <2> HIDE DEF flush
  <2> QED BY <1>1, <1>2, <2>1, <2>2, <2>3, FlushRests
<1>4. CASE ReleaseLock(f) \/ FlusherCrash(f)
  <2>1. flusher' = [flusher EXCEPT ![f] = Idle]
    BY <1>4 DEF ReleaseLock, FlusherCrash
  <2>2. Idle \in Flushes /\ Idle.pc = "idle"
    BY EmptySeq DEF Idle, Flushes, FlushPhases
  <2> QED BY <1>1, <1>2, <2>1, <2>2, FlushRests
<1> QED BY <1>3, <1>4

\* The head of the buffer, with every month of it still to be written.
LEMMA PeekIsSafe ==
    ASSUME UsageInv, NEW f \in Flushers, Peek(f) PROVE UsageInv'
<1>0. buffer \in Seq(Rows) /\ Len(buffer) \in Nat /\ BatchLimit \in Nat
  BY UsageAssumption, LenProperties DEF UsageInv, LogType
<1> DEFINE Took(n) ==
        flusher' = [flusher EXCEPT ![f] =
              [pc |-> IF n = 0 THEN "release" ELSE "persist", batch |-> SubSeq(buffer, 1, n),
               months |-> {Month[SubSeq(buffer, 1, n)[i].hour] : i \in 1..n}]]
<1>a. Took(IF Len(buffer) < BatchLimit THEN Len(buffer) ELSE BatchLimit)
  BY Zenon DEF Peek
<1> HIDE DEF Took
<1>b. PICK n \in 0..Len(buffer) : Took(n)
  BY <1>0, <1>a
<1>1. flusher' = [flusher EXCEPT ![f] =
              [pc |-> IF n = 0 THEN "release" ELSE "persist", batch |-> SubSeq(buffer, 1, n),
               months |-> {Month[SubSeq(buffer, 1, n)[i].hour] : i \in 1..n}]]
  BY <1>b DEF Took
<1>2. /\ SubSeq(buffer, 1, n) \in Seq(Rows) /\ Len(SubSeq(buffer, 1, n)) = n
      /\ \A i \in 1..n : SubSeq(buffer, 1, n)[i] = buffer[i]
  <2>1. \A i \in 1..n : buffer[i] \in Rows
    BY <1>0, ElementOfSeq
  <2> QED BY <1>0, <2>1, SubSeqProperties
<1>3. PICK batch \in Seq(Rows) : batch = SubSeq(buffer, 1, n)
  BY <1>2
<1>4. PICK months : months = {Month[batch[i].hour] : i \in 1..n}
  OBVIOUS
<1>5. Len(batch) = n /\ \A i \in 1..n : batch[i] = buffer[i] /\ batch[i] \in Rows
  BY <1>2, <1>3, ElementOfSeq
<1>6. months \in SUBSET Months
  BY <1>4, <1>5, MonthOfRow
<1> DEFINE flush == [pc |-> IF n = 0 THEN "release" ELSE "persist", batch |-> batch,
                     months |-> months]
<1>7. flusher' = [flusher EXCEPT ![f] = flush]
  BY <1>1, <1>3, <1>4
<1>8. flush \in Flushes
  BY <1>6 DEF Flushes, FlushPhases
<1>9. UNCHANGED <<caller, logs, buffer, lock, hour>>
  BY DEF Peek
<1>10. LogsGrow /\ OneRowPerMonth'
  BY <1>9, NothingGone DEF UsageInv, OneRowPerMonth
<1>11. flusher'[f].batch = batch /\ flusher'[f].months = months
       /\ flusher'[f].pc = IF n = 0 THEN "release" ELSE "persist"
  BY <1>7 DEF UsageInv, LogType
<1>12. HeadStays(f)'
  BY <1>5, <1>9, <1>11 DEF HeadStays
<1>13. BatchIsKept(f)'
  BY <1>4, <1>5, <1>11 DEF BatchIsKept, Writing
<1>14. buffer' \in Seq(Rows) /\ \A row \in Rows : Buffered(row) => Buffered(row)'
  BY <1>0, <1>9 DEF Buffered
<1> HIDE DEF flush
<1> QED BY <1>7, <1>8, <1>9, <1>10, <1>12, <1>13, <1>14, FlushMoves

\* A month is written; what is left of the batch is of the other months.
LEMMA PersistIsSafe ==
    ASSUME UsageInv, NEW f \in Flushers, Persist(f) PROVE UsageInv'
<1>0. LogType /\ OneRowPerMonth
  BY DEF UsageInv
<1>1. PICK m : m = DueMonth(f)
  OBVIOUS
<1>2. PersistMonth(flusher[f].batch, m) /\ Written(f, m) /\ flusher[f].pc = "persist"
  BY <1>1 DEF Persist, At
<1>3. UNCHANGED <<caller, buffer, lock, hour>>
  BY DEF Persist
<1>4. PICK batch \in Seq(Rows) : batch = flusher[f].batch
  BY <1>0, FlushType
<1>5. PICK months \in SUBSET Months : months = flusher[f].months
  BY <1>0, FlushType
<1>6. /\ LogsGrow /\ OneRowPerMonth'
      /\ \A i \in 1..Len(batch) : Month[batch[i].hour] = m => Stored(batch[i])'
  BY <1>0, <1>2, <1>4, MonthIsPersisted
<1> DEFINE flush == [pc |-> IF months = {m} THEN "ack" ELSE "persist", batch |-> batch,
                     months |-> months \ {m}]
<1>7. flusher' = [flusher EXCEPT ![f] = flush]
  <2>1. [flusher[f] EXCEPT !.pc = IF months = {m} THEN "ack" ELSE "persist"] =
           [pc |-> IF months = {m} THEN "ack" ELSE "persist", batch |-> batch, months |-> months]
    BY <1>0, <1>4, <1>5, FlushType DEF Flushes
  <2>2. ASSUME NEW pc, NEW left
        PROVE  [[pc |-> pc, batch |-> batch, months |-> months] EXCEPT !.months = left] =
                   [pc |-> pc, batch |-> batch, months |-> left]
    OBVIOUS
  <2>3. flusher' = [flusher EXCEPT ![f] =
            [[flusher[f] EXCEPT !.pc = IF months = {m} THEN "ack" ELSE "persist"]
                EXCEPT !.months = months \ {m}]]
    BY <1>2, <1>5 DEF Written
  <2>4. [[pc |-> IF months = {m} THEN "ack" ELSE "persist", batch |-> batch, months |-> months]
            EXCEPT !.months = months \ {m}] = flush
    BY <2>2
  <2>5. [[flusher[f] EXCEPT !.pc = IF months = {m} THEN "ack" ELSE "persist"]
            EXCEPT !.months = months \ {m}] = flush
    BY <2>1, <2>4
  <2> HIDE DEF flush
  <2> QED BY <2>3, <2>5
<1>8. flush \in Flushes
  BY DEF Flushes, FlushPhases
<1>9. /\ flusher'[f].batch = batch /\ flusher'[f].months = months \ {m}
      /\ flusher'[f].pc = IF months = {m} THEN "ack" ELSE "persist"
  BY <1>0, <1>7 DEF LogType
<1>10. HeadStays(f)'
  BY <1>2, <1>3, <1>4, <1>9 DEF UsageInv, FlushesAreSafe, HeadStays, Writing
<1>11. BatchIsKept(f)'
  <2>1. \A i \in 1..Len(batch) : batch[i] \in Rows
    BY ElementOfSeq
  <2>2. \A i \in 1..Len(batch) : Stored(batch[i]) \/ Month[batch[i].hour] \in months
    BY <1>2, <1>4, <1>5 DEF UsageInv, FlushesAreSafe, BatchIsKept, Writing
  <2>3. \A i \in 1..Len(batch) : Stored(batch[i])' \/ Month[batch[i].hour] \in months \ {m}
    BY <1>6, <2>1, <2>2, StoredStays
  <2>4. months = {m} => \A i \in 1..Len(batch) : Stored(batch[i])'
    BY <2>3
  <2> QED BY <1>9, <2>3, <2>4 DEF BatchIsKept, Stored
<1>12. buffer' \in Seq(Rows) /\ \A row \in Rows : Buffered(row) => Buffered(row)'
  BY <1>0, <1>3 DEF Buffered, LogType
<1> HIDE DEF flush
<1> QED BY <1>3, <1>6, <1>7, <1>8, <1>10, <1>11, <1>12, FlushMoves

LEMMA PersistFailsIsSafe ==
    ASSUME UsageInv, NEW f \in Flushers, PersistFails(f) PROVE UsageInv'
<1>0. LogType /\ OneRowPerMonth
  BY DEF UsageInv
<1>1. PICK m : UNCHANGED logs \/ PersistMonth(flusher[f].batch, m)
  BY DEF PersistFails
<1>2. LogsGrow /\ OneRowPerMonth'
  <2>1. PICK batch \in Seq(Rows) : batch = flusher[f].batch
    BY <1>0, FlushType
  <2>2. CASE UNCHANGED logs
    BY <1>0, <2>2, NothingGone DEF OneRowPerMonth
  <2>3. CASE PersistMonth(batch, m)
    BY <1>0, <2>3, MonthIsPersisted
  <2> QED BY <1>1, <2>1, <2>2, <2>3
<1> DEFINE flush == [pc |-> "release", batch |-> flusher[f].batch, months |-> flusher[f].months]
<1>3. flusher' = [flusher EXCEPT ![f] = flush] /\ flush \in Flushes
  BY <1>0, GoesTo DEF PersistFails, Goto, FlushPhases
<1>4. PICK next \in Flushes : next = flush
  BY <1>3
<1>5. next.pc = "release"
  BY <1>4
<1>6. UNCHANGED <<caller, buffer, lock, hour>>
  BY DEF PersistFails
<1> HIDE DEF flush
<1> QED BY <1>2, <1>3, <1>4, <1>5, <1>6, FlushRests

\* What the owner trims is what it wrote.
LEMMA AckIsSafe ==
    ASSUME UsageInv, NEW f \in Flushers, Ack(f) PROVE UsageInv'
<1>0. LogType /\ buffer \in Seq(Rows) /\ Len(buffer) \in Nat
  BY LenProperties DEF UsageInv, LogType
<1>1. UNCHANGED <<caller, logs, hour>> /\ flusher[f].pc = "ack"
  BY DEF Ack, At
<1>2. LogsGrow /\ OneRowPerMonth'
  BY <1>0, <1>1, NothingGone DEF UsageInv, OneRowPerMonth
<1>3. PICK batch \in Seq(Rows) : batch = flusher[f].batch
  BY <1>0, FlushType
<1> DEFINE flush == [pc |-> "release", batch |-> flusher[f].batch, months |-> flusher[f].months]
<1>4. flusher' = [flusher EXCEPT ![f] = flush] /\ flush \in Flushes
  BY <1>0, GoesTo DEF Ack, Goto, FlushPhases
<1>5. PICK next \in Flushes : next = flush
  BY <1>4
<1>6. next.pc = "release"
  BY <1>5
<1> HIDE DEF flush
<1>7. CASE lock # f
  <2>1. UNCHANGED <<buffer, lock>>
    BY <1>7 DEF Ack
  <2> QED BY <1>1, <1>2, <1>4, <1>5, <1>6, <2>1, FlushRests
<1>8. CASE lock = f
  <2>1. buffer' = SubSeq(buffer, Len(batch) + 1, Len(buffer)) /\ lock' = NoOwner
    BY <1>3, <1>8 DEF Ack
  <2>2. Len(batch) \in Nat /\ \A i \in 1..Len(batch) : batch[i] \in Rows
    BY LenProperties, ElementOfSeq
  <2>3. \A i \in 1..Len(buffer) : buffer[i] \in Rows
    BY <1>0, ElementOfSeq
  <2>4. \A i \in 1..Len(batch) : i <= Len(buffer) /\ buffer[i] = batch[i]
    BY <1>1, <1>3, <1>8 DEF UsageInv, FlushesAreSafe, HeadStays, Writing
  <2>5. Len(batch) <= Len(buffer)
    BY <1>0, <2>2, <2>4
  <2>6. \A i \in 1..Len(batch) : Stored(batch[i])
    BY <1>1, <1>3 DEF UsageInv, FlushesAreSafe, BatchIsKept, Writing
  <2>7. /\ buffer' \in Seq(Rows)
        /\ \A i \in 1..Len(buffer) - Len(batch) : buffer'[i] = buffer[Len(batch) + i]
        /\ Len(buffer') = Len(buffer) - Len(batch)
    <3>1. \A i \in Len(batch) + 1 .. Len(buffer) : buffer[i] \in Rows
      BY <1>0, <2>2, <2>3
    <3>2. /\ SubSeq(buffer, Len(batch) + 1, Len(buffer)) \in Seq(Rows)
          /\ Len(SubSeq(buffer, Len(batch) + 1, Len(buffer))) =
                IF Len(batch) + 1 <= Len(buffer) THEN Len(buffer) - (Len(batch) + 1) + 1 ELSE 0
          /\ \A i \in 1 .. Len(buffer) - (Len(batch) + 1) + 1 :
                SubSeq(buffer, Len(batch) + 1, Len(buffer))[i] = buffer[Len(batch) + 1 + i - 1]
      BY <1>0, <2>2, <3>1, SubSeqProperties
    <3> QED BY <1>0, <2>1, <2>2, <2>5, <3>2
  <2>8. ASSUME NEW row \in Rows, Buffered(row) PROVE Buffered(row)' \/ Stored(row)'
    <3>1. PICK i \in 1..Len(buffer) : buffer[i] = row
      BY <1>0, <2>8, LenProperties DEF Buffered
    <3>2. CASE i <= Len(batch)
      BY <1>2, <2>2, <2>4, <2>6, <3>1, <3>2, StoredStays
    <3>3. CASE i > Len(batch)
      <4>1. i - Len(batch) \in 1..Len(buffer') /\ buffer'[i - Len(batch)] = row
        BY <1>0, <2>2, <2>7, <3>1, <3>3
      <4>2. DOMAIN buffer' = 1..Len(buffer')
        BY <2>7, LenProperties
      <4> QED BY <4>1, <4>2 DEF Buffered
    <3> QED BY <1>0, <2>2, <3>2, <3>3
  <2>9. HeadStays(f)' /\ BatchIsKept(f)'
    <3>1. flusher'[f].pc = "release"
      BY <1>0, <1>4, <1>5, <1>6 DEF LogType
    <3> QED BY <3>1 DEF HeadStays, BatchIsKept, Writing
  <2> QED BY <1>1, <1>2, <1>4, <2>1, <2>7, <2>8, <2>9, FlushMoves
<1> QED BY <1>7, <1>8

-----------------------------------------------------------------------------
LEMMA ClockIsSafe == UsageInv /\ (LockExpires \/ Tick) => UsageInv'
<1> SUFFICES ASSUME UsageInv, LockExpires \/ Tick PROVE UsageInv'
  OBVIOUS
<1>1. UNCHANGED <<caller, logs, buffer, flusher>> /\ (lock' = lock \/ lock' = NoOwner)
  BY DEF LockExpires, Tick
<1>2. hour' \in 0..LastHour
  BY UsageAssumption DEF LockExpires, Tick, UsageInv, LogType
<1>3. LogsGrow /\ OneRowPerMonth'
  BY <1>1, NothingGone DEF UsageInv, OneRowPerMonth
<1>4. LogType' /\ RecordedIsKept'
  BY <1>1, <1>2 DEF UsageInv, LogType, RecordedIsKept, Buffered, Stored
<1>5. FlushesAreSafe'
  BY <1>1, <1>3, FlushesStaySafe DEF UsageInv
<1> QED BY <1>3, <1>4, <1>5 DEF UsageInv

LEMMA UsageInvariant == Spec => []UsageInv
<1>1. Init => UsageInv
  <2> SUFFICES ASSUME Init PROVE UsageInv
    OBVIOUS
  <2>1. \A r \in Requests : NoRow(r) \in Rows
    BY UsageAssumption DEF NoRow, Rows
  <2>2. caller \in [Requests -> Callers] /\ \A r \in Requests : caller[r].pc = "todo"
    BY <2>1 DEF Init, Callers, Phases
  <2>3. Idle \in Flushes /\ \A f \in Flushers : flusher[f].pc = "idle"
    BY EmptySeq DEF Idle, Flushes, FlushPhases, Init
  <2>4. LogType
    BY <2>2, <2>3, EmptySeq, UsageAssumption DEF Init, LogType, Collections
  <2>5. OneRowPerMonth
    BY DEF Init, OneRowPerMonth
  <2> QED BY <2>2, <2>3, <2>4, <2>5
       DEF UsageInv, RecordedIsKept, FlushesAreSafe, HeadStays, BatchIsKept, Writing
<1>2. UsageInv /\ [Next]_vars => UsageInv'
  <2> SUFFICES ASSUME UsageInv, [Next]_vars PROVE UsageInv'
    OBVIOUS
  <2>1. ASSUME NEW r \in Requests, CallerStep(r) PROVE UsageInv'
    BY <2>1, RecordIsSafe, PushIsSafe, PersistOwnIsSafe, CrashIsSafe DEF CallerStep
  <2>2. ASSUME NEW f \in Flushers, FlusherStep(f) \/ PersistFails(f) \/ FlusherCrash(f)
        PROVE  UsageInv'
    BY <2>2, RestingIsSafe, PeekIsSafe, PersistIsSafe, PersistFailsIsSafe, AckIsSafe
       DEF FlusherStep
  <2>3. CASE UNCHANGED vars
    BY <2>3 DEF vars, UsageInv, LogType, OneRowPerMonth, RecordedIsKept, FlushesAreSafe,
       HeadStays, BatchIsKept, Writing, Buffered, Stored
  <2> QED BY <2>1, <2>2, <2>3, ClockIsSafe DEF Next
<1> QED BY <1>1, <1>2, PTL DEF Spec

\* usage/index.ts: "deduplicates by requestId": for any deliveries, flushes at a
\* time and faults, a month's collection has one row of a request.
THEOREM OneRowOfARequest == Spec => []OneRowPerMonth
BY UsageInvariant, PTL DEF UsageInv

\* recordUsage and flushUsageBuffer: a row recordUsage accepted is in the buffer
\* until its request has a row in the month, whichever flush trims and whenever.
THEOREM AcceptedRowsAreKept == Spec => []RecordedIsKept
BY UsageInvariant, PTL DEF UsageInv

-----------------------------------------------------------------------------
(* The rollups are what the rows add up to.                                *)

\* Finitely many rows have been written.
LogsFinite == \A m \in Months : IsFiniteSet(logs[m])

LEMMA RowsAtFinite ==
    ASSUME NEW rows, NEW S, IsFiniteSet(S) PROVE IsFiniteSet({rows[i] : i \in S})
<1> DEFINE T == {rows[i] : i \in S}
           f == [i \in S |-> rows[i]]
<1>1. f \in Surjection(S, T)
  BY DEF Surjection
<1> QED BY <1>1, FS_Surjection

\* One more row.
LEMMA TallyGrows ==
    ASSUME NEW rows \in SUBSET Rows, IsFiniteSet(rows), NEW row \in Rows, row \notin rows
    PROVE  Tally(rows \cup {row}) = Counted(Tally(rows), row)
<1> DEFINE all == rows \cup {row}
           f == [r \in rows |-> r.quota]
           g == [r \in all |-> r.quota]
           failed == {r \in rows : ~r.ok}
           failedNow == {r \in all : ~r.ok}
           one == IF row.ok THEN 0 ELSE 1
<1>1. Cardinality(all) = Cardinality(rows) + 1
  BY FS_AddElement
<1>2. Cardinality(failedNow) = Cardinality(failed) + one
  <2>1. IsFiniteSet(failed) /\ row \notin failed
    BY FS_Subset
  <2>2. Cardinality(failed) \in Nat
    BY <2>1, FS_CardinalityType
  <2>3. CASE row.ok
    <3>1. failedNow = failed /\ one = 0
      BY <2>3
    <3> HIDE DEF failed, failedNow, one
    <3> QED BY <2>2, <3>1
  <2>4. CASE ~row.ok
    <3>1. failedNow = failed \cup {row} /\ one = 1
      BY <2>4
    <3> HIDE DEF failed, failedNow, one
    <3> QED BY <2>1, <3>1, FS_AddElement
  <2> QED BY <2>3, <2>4
<1>3. SumFunctionOnSet(g, all) = SumFunctionOnSet(f, rows) + row.quota
  <2>1. all \ {row} = rows
    OBVIOUS
  <2>2. row \in all
    OBVIOUS
  <2>3. SameOn(rows, f, g)
    BY DEF SameOn, Rows
  <2>4. g[row] = row.quota /\ row.quota \in Nat
    BY DEF Rows
  <2>5. IsFiniteSet(all \ {row}) /\ SameOn(all \ {row}, f, g)
    BY <2>1, <2>3
  <2> HIDE DEF all, f, g
  <2>6. SumFunctionOnSet(g, all) = SumFunctionOnSet(f, all \ {row}) + g[row]
    <3>1. g[row] \in Nat
      BY <2>4
    <3> QED BY <2>2, <2>5, <3>1, SumGrows
  <2> QED BY <2>1, <2>4, <2>6
<1> QED BY <1>1, <1>2, <1>3 DEF Tally, Counted

\* The fold of PersistMonth over the positions S, starting at the tally of old:
\* the tally of the old rows and those at S.
LEMMA FoldIsTally ==
    ASSUME NEW rows, NEW S, IsFiniteSet(S), NEW old \in SUBSET Rows, IsFiniteSet(old),
           \A i \in S : rows[i] \in Rows /\ rows[i] \notin old,
           \A i, j \in S : rows[i] = rows[j] => i = j
    PROVE  FoldSet(LAMBDA i, t : Counted(t, rows[i]), Tally(old), S)
               = Tally(old \cup {rows[i] : i \in S})
<1> DEFINE Next1(h) == [s \in SUBSET S |->
                          IF s = {} THEN Tally(old) ELSE Counted(h[s \ {Pick(s)}], rows[Pick(s)])]
           iter == CHOOSE h : h = Next1(h)
           With(s) == old \cup {rows[i] : i \in s}
           tally == [s \in SUBSET S |-> Tally(With(s))]
<1>1. FoldSet(LAMBDA i, t : Counted(t, rows[i]), Tally(old), S) = iter[S]
  BY DEF FoldSet, MapThenFoldSet, Pick
<1>2. \A s \in SUBSET S : s # {} => Pick(s) \in s
  BY DEF Pick
<1>3. ASSUME NEW s \in SUBSET S, s # {}
      PROVE  Tally(With(s)) = Counted(Tally(With(s \ {Pick(s)})), rows[Pick(s)])
  <2> DEFINE rest == With(s \ {Pick(s)})
             row == rows[Pick(s)]
  <2>1. Pick(s) \in s
    BY <1>2, <1>3
  <2>2. With(s) = rest \cup {row}
    BY <2>1
  <2>3. row \in Rows /\ row \notin rest
    BY <2>1
  <2>4. rest \in SUBSET Rows
    OBVIOUS
  <2>5. IsFiniteSet(rest)
    <3>1. IsFiniteSet(s \ {Pick(s)})
      BY FS_Subset
    <3>2. IsFiniteSet({rows[i] : i \in s \ {Pick(s)}})
      BY <3>1, RowsAtFinite
    <3> QED BY <3>2, FS_Union
  <2> HIDE DEF With, rest, row
  <2>6. Tally(rest \cup {row}) = Counted(Tally(rest), row)
    BY <2>3, <2>4, <2>5, TallyGrows
  <2> QED BY <2>2, <2>6 DEF rest, row
<1>4. With({}) = old
  OBVIOUS
<1>5. tally = Next1(tally)
  <2> HIDE DEF With
  <2>1. \A s \in SUBSET S : Tally(With(s)) =
           IF s = {} THEN Tally(old) ELSE Counted(tally[s \ {Pick(s)}], rows[Pick(s)])
    BY <1>3, <1>4
  <2> QED BY <2>1
<1>6. iter = Next1(iter)
  <2>1. \E h : h = Next1(h)
    BY <1>5, Zenon
  <2> QED BY <2>1, Zenon
<1>7. \A s \in SUBSET S : iter[s] = tally[s]
  <2> DEFINE T == {s \in SUBSET S : iter[s] # tally[s]}
  <2> SUFFICES ASSUME T # {} PROVE FALSE
    OBVIOUS
  <2>0. T \subseteq SUBSET S
    OBVIOUS
  <2>1. PICK s \in T : \A t \in T : t \subseteq s => t = s
    <3> HIDE DEF T
    <3> QED BY <2>0, Smallest
  <2> HIDE DEF iter, tally
  <2>2. CASE s = {}
    BY <1>5, <1>6, <2>2
  <2>3. CASE s # {}
    <3>1. iter[s \ {Pick(s)}] = tally[s \ {Pick(s)}]
      BY <1>2, <2>1, <2>3
    <3> QED BY <1>5, <1>6, <2>3, <3>1
  <2> QED BY <2>2, <2>3
<1> QED BY <1>1, <1>7

\* The transaction of a month leaves each rollup the tally of its rows.
LEMMA RollupsArePersisted ==
    ASSUME LogType, LogsFinite, RollupsMatchRows, NEW rows \in Seq(Rows), NEW m,
           PersistMonth(rows, m)
    PROVE  LogsFinite' /\ RollupsMatchRows'
<1> DEFINE new == {rows[i] : i \in Fresh(rows, m)}
           counts(id) == {i \in Fresh(rows, m) : id[1] \in ScopesOf(rows[i]) /\ id[2] = rows[i].hour}
<1>0. DOMAIN rows = 1..Len(rows) /\ Len(rows) \in Nat /\ \A i \in 1..Len(rows) : rows[i] \in Rows
  BY LenProperties, ElementOfSeq
<1>1. /\ Fresh(rows, m) \subseteq 1..Len(rows) /\ IsFiniteSet(Fresh(rows, m))
      /\ \A i \in Fresh(rows, m) : Month[rows[i].hour] = m
  <2>1. Fresh(rows, m) \subseteq 1..Len(rows)
    BY <1>0 DEF Fresh, BucketOf
  <2>2. IsFiniteSet(1..Len(rows))
    BY <1>0, FS_Interval
  <2>3. IsFiniteSet(Fresh(rows, m))
    BY <2>1, <2>2, FS_Subset
  <2> QED BY <2>1, <2>3 DEF Fresh, BucketOf
<1>2. logs \in [Months -> SUBSET Rows] /\ logs' = [logs EXCEPT ![m] = @ \cup new]
  BY DEF LogType, Collections, PersistMonth
<1>3. LogsFinite'
  <2>1. IsFiniteSet(new)
    BY <1>1, RowsAtFinite
  <2>2. m \in Months => IsFiniteSet(logs[m] \cup new)
    BY <2>1, FS_Union DEF LogsFinite
  <2> QED BY <1>2, <2>2 DEF LogsFinite
<1>4. ASSUME NEW i \in Fresh(rows, m), NEW j \in Fresh(rows, m), rows[i] = rows[j]
      PROVE  i = j
  <2>1. i \in BucketOf(rows, m) /\ j \in BucketOf(rows, m) /\ i \in Nat /\ j \in Nat
    BY <1>1 DEF Fresh
  <2>2. ~(j < i) /\ ~(i < j)
    BY <1>4, <2>1 DEF Fresh
  <2> QED BY <2>1, <2>2
<1>5. ASSUME NEW id \in RollupIds
      PROVE  rollups'[id] = Tally(RowsOf(id))'
  <2> DEFINE old == RowsOf(id)
  <2>1. id[2] \in 0..LastHour
    BY DEF RollupIds
  <2>2. old \in SUBSET Rows /\ IsFiniteSet(old)
    <3>1. Month[id[2]] \in Months
      BY <2>1 DEF Months
    <3>2. IsFiniteSet(logs[Month[id[2]]]) /\ logs[Month[id[2]]] \in SUBSET Rows
      BY <1>2, <3>1 DEF LogsFinite
    <3>3. old \subseteq logs[Month[id[2]]]
      BY DEF RowsOf
    <3> QED BY <3>2, <3>3, FS_Subset
  <2>3. /\ IsFiniteSet(counts(id))
        /\ \A i \in counts(id) : rows[i] \in Rows /\ rows[i] \notin old
    <3>1. \A i \in counts(id) : rows[i] \notin old
      BY <1>1 DEF Fresh, RowsOf
    <3> QED BY <1>0, <1>1, <3>1, FS_Subset
  <2>4. \A i, j \in counts(id) : rows[i] = rows[j] => i = j
    BY <1>4
  <2>5. rollups'[id] = FoldSet(LAMBDA i, t : Counted(t, rows[i]), rollups[id], counts(id))
    BY Zenon DEF PersistMonth
  <2>6. RowsOf(id)' = old \cup {rows[i] : i \in counts(id)}
    <3>1. CASE Month[id[2]] = m
      <4>1. logs'[m] = logs[m] \cup new
        BY <1>2, <2>1, <3>1 DEF Months
      <4> QED BY <3>1, <4>1 DEF RowsOf, ScopesOf
    <3>2. CASE Month[id[2]] # m
      <4>1. logs'[Month[id[2]]] = logs[Month[id[2]]] /\ counts(id) = {}
        BY <1>1, <1>2, <2>1, <3>2 DEF Months
      <4> QED BY <4>1 DEF RowsOf, ScopesOf
    <3> QED BY <3>1, <3>2
  <2>7. rollups[id] = Tally(old)
    BY DEF RollupsMatchRows
  <2> HIDE DEF counts, old
  <2>8. FoldSet(LAMBDA i, t : Counted(t, rows[i]), Tally(old), counts(id))
            = Tally(old \cup {rows[i] : i \in counts(id)})
    BY <2>2, <2>3, <2>4, FoldIsTally
  <2>9. Tally(RowsOf(id))' = Tally(old \cup {rows[i] : i \in counts(id)})
    BY <2>6 DEF Tally
  <2> QED BY <2>5, <2>7, <2>8, <2>9
<1>6. RollupsMatchRows'
  BY <1>5 DEF RollupsMatchRows
<1> QED BY <1>3, <1>6

LEMMA RollupsStay ==
    ASSUME LogsFinite, RollupsMatchRows, UNCHANGED <<logs, rollups>>
    PROVE  LogsFinite' /\ RollupsMatchRows'
BY DEF LogsFinite, RollupsMatchRows, RowsOf, Tally

LEMMA RollupsStep ==
    ASSUME LogType, LogsFinite, RollupsMatchRows, [Next]_vars
    PROVE  LogsFinite' /\ RollupsMatchRows'
<1>1. ASSUME NEW r \in Requests, CallerStep(r) PROVE LogsFinite' /\ RollupsMatchRows'
  <2>1. PICK row \in Rows : row = caller[r].row
    BY CallType
  <2>2. <<row>> \in Seq(Rows)
    OBVIOUS
  <2>3. CASE PersistOwn(r) \/ PersistOwnFails(r)
    <3>1. UNCHANGED <<logs, rollups>> \/ PersistMonth(<<row>>, Month[row.hour])
      BY <2>1, <2>3 DEF PersistOwn, PersistOwnFails
    <3> QED BY <2>2, <3>1, RollupsStay, RollupsArePersisted
  <2>4. CASE Record(r) \/ RecordFailure(r) \/ Push(r) \/ PushFails(r) \/ CallerCrash(r)
    <3>1. UNCHANGED <<logs, rollups>>
      BY <2>4 DEF Record, RecordFailure, Push, PushFails, CallerCrash
    <3> QED BY <3>1, RollupsStay
  <2> QED BY <1>1, <2>3, <2>4 DEF CallerStep
<1>2. ASSUME NEW f \in Flushers, FlusherStep(f) \/ PersistFails(f) \/ FlusherCrash(f)
      PROVE  LogsFinite' /\ RollupsMatchRows'
  <2>1. PICK batch \in Seq(Rows) : batch = flusher[f].batch
    BY FlushType
  <2>2. CASE Persist(f) \/ PersistFails(f)
    <3>1. UNCHANGED <<logs, rollups>> \/ PersistMonth(batch, DueMonth(f))
      BY <2>1, <2>2 DEF Persist, PersistFails
    <3> QED BY <3>1, RollupsStay, RollupsArePersisted
  <2>3. CASE AcquireLock(f) \/ Peek(f) \/ Ack(f) \/ ReleaseLock(f) \/ FlusherCrash(f)
    <3>1. UNCHANGED <<logs, rollups>>
      BY <2>3, Zenon DEF AcquireLock, Peek, Ack, ReleaseLock, FlusherCrash
    <3> QED BY <3>1, RollupsStay
  <2> QED BY <1>2, <2>2, <2>3 DEF FlusherStep
<1>3. CASE LockExpires \/ Tick \/ UNCHANGED vars
  <2>1. UNCHANGED <<logs, rollups>>
    BY <1>3 DEF LockExpires, Tick, vars
  <2> QED BY <2>1, RollupsStay
<1> QED BY <1>1, <1>2, <1>3 DEF Next

\* incrementRollups: for any deliveries, half-finished flushes and replays, the
\* requests, errors and quota of every hourly rollup are those of its rows.
THEOREM RollupsAlwaysMatch == Spec => []RollupsMatchRows
<1>1. Init => LogsFinite /\ RollupsMatchRows
  <2> SUFFICES ASSUME Init PROVE LogsFinite /\ RollupsMatchRows
    OBVIOUS
  <2>1. LogsFinite
    BY FS_EmptySet DEF Init, LogsFinite
  <2>2. \A id \in RollupIds : Month[id[2]] \in Months
    BY DEF RollupIds, Months
  <2>3. \A id \in RollupIds : RowsOf(id) = {}
    BY <2>2 DEF Init, RowsOf
  <2>4. Tally({}) = [requests |-> 0, errors |-> 0, quota |-> 0]
    <3>1. {row \in {} : ~row.ok} = {}
      OBVIOUS
    <3> QED BY <3>1, FS_EmptySet, SumOfNone DEF Tally
  <2> QED BY <2>1, <2>3, <2>4 DEF Init, RollupsMatchRows
<1>2. LogType /\ LogsFinite /\ RollupsMatchRows /\ [Next]_vars => LogsFinite' /\ RollupsMatchRows'
  BY RollupsStep
<1>3. Spec => []LogType
  BY UsageInvariant, PTL DEF UsageInv
<1> QED BY <1>1, <1>2, <1>3, PTL DEF Spec

(***************************************************************************)
(* CoordinationStore.  The items of a list's generation spell the list     *)
(* Redis holds, one at each position between its ends, all with the list's *)
(* date; items of older generations are nobody's.                          *)
(***************************************************************************)

Values == {"x", "y"}
LockDocs == [kind : {"value"}, value : Int, date : Int]
ListDocs == [kind : {"list"}, head : Int, tail : Int, generation : Nat, date : Int]
RedisLists == [kind : {"list"}, list : Seq(Values), date : Int]
Items == [key : {"queue"}, generation : Nat, position : Int, value : Values, date : Int]

Timely(x, t) == x # None /\ ~(x.date # Never /\ x.date <= t)
Own(rows, generation) == {i \in rows : i.key = "queue" /\ i.generation = generation}

\* From this position on, the rows hold these values, each once.
Spells(rows, head, list, date) ==
    /\ list \in Seq(Values)
    /\ \A r \in rows :
          /\ r.position \in head..(head + Len(list) - 1)
          /\ r.value = list[r.position - head + 1] /\ r.date = date
    /\ \A p \in head..(head + Len(list) - 1) : \E r \in rows : r.position = p
    /\ \A r, q \in rows : r.position = q.position => r = q

Holds(listed, rows, list, date) ==
    /\ listed \in ListDocs /\ listed.date = date /\ listed.tail = listed.head + Len(list) - 1
    /\ Spells(Own(rows, listed.generation), listed.head, list, date)

QueueAgrees(listed, rows, red, t) ==
    /\ Timely(listed, t) <=> Timely(red, t)
    /\ Timely(listed, t) => red.list # <<>> /\ Holds(listed, rows, red.list, red.date)

\* What a key holds at this time.
Current(x, t) == IF Timely(x, t) THEN x ELSE None

StoreTypeOK ==
    /\ now \in Nat /\ commands \in Nat
    /\ docs \in [Keys -> LockDocs \cup ListDocs \cup {None}]
    /\ redis \in [Keys -> LockDocs \cup RedisLists \cup {None}]
    /\ docs["lock"] \in LockDocs \cup {None} /\ redis["lock"] \in LockDocs \cup {None}
    /\ docs["queue"] \in ListDocs \cup {None} /\ redis["queue"] \in RedisLists \cup {None}
    /\ items \subseteq Items

StoreInv ==
    /\ StoreTypeOK
    /\ answers.mongo = answers.redis
    /\ Current(docs["lock"], now) = Current(redis["lock"], now)
    /\ QueueAgrees(docs["queue"], items, redis["queue"], now)
    /\ \A i \in items : i.generation <= commands
    /\ docs["queue"] # None => docs["queue"].generation <= commands

-----------------------------------------------------------------------------
(* Rows that spell a list                                                  *)

LEMMA SpellsCounts ==
    ASSUME NEW rows, NEW head \in Int, NEW list, NEW date, Spells(rows, head, list, date)
    PROVE  IsFiniteSet(rows) /\ Cardinality(rows) = Len(list)
<1> DEFINE last == head + Len(list) - 1
           at == [p \in head..last |-> CHOOSE r \in rows : r.position = p]
<1>1. Len(list) \in Nat /\ last \in Int
  BY DEF Spells
<1>2. \A p \in head..last : at[p] \in rows /\ at[p].position = p
  BY DEF Spells
<1>3. \A r \in rows : r.position \in head..last /\ at[r.position] = r
  BY <1>2 DEF Spells
<1>4. at \in [head..last -> rows]
  BY <1>2
<1>5. at \in Bijection(head..last, rows)
  <2>1. at \in Injection(head..last, rows)
    BY <1>2, <1>4, SMTT(30) DEF Injection, IsInjective
  <2>2. at \in Surjection(head..last, rows)
    BY <1>3, <1>4 DEF Surjection
  <2> QED BY <2>1, <2>2 DEF Bijection
<1>6. IsFiniteSet(head..last) /\ Cardinality(head..last) = Len(list)
  <2>1. /\ IsFiniteSet(head..last)
        /\ Cardinality(head..last) = IF head > last THEN 0 ELSE last - head + 1
    <3> HIDE DEF last
    <3> QED BY <1>1, FS_Interval
  <2> QED BY <1>1, <2>1
<1> HIDE DEF at, last
<1>7. ExistsBijection(head..last, rows)
  BY <1>5 DEF ExistsBijection
<1> QED BY <1>6, <1>7, FS_Bijection

LEMMA SpellsInOrder ==
    ASSUME NEW rows, NEW head \in Int, NEW list, NEW date, Spells(rows, head, list, date)
    PROVE  InOrder(rows) = list
<1> DEFINE Sorted(s) == /\ IsInjective(s)
                        /\ \A m, n \in DOMAIN s : m < n => s[m].position <= s[n].position
           sorted == CHOOSE s \in [1..Cardinality(rows) -> rows] : Sorted(s)
           plain == [n \in 1..Len(list) |-> CHOOSE r \in rows : r.position = head + n - 1]
<1>1. Len(list) \in Nat /\ Cardinality(rows) = Len(list)
  <2>1. Len(list) \in Nat
    BY DEF Spells
  <2>2. Cardinality(rows) = Len(list)
    BY SpellsCounts
  <2> QED BY <2>1, <2>2
<1>2. \A n \in 1..Len(list) : plain[n] \in rows /\ plain[n].position = head + n - 1
  <2> SUFFICES ASSUME NEW n \in 1..Len(list)
               PROVE  plain[n] \in rows /\ plain[n].position = head + n - 1
    OBVIOUS
  <2>1. head + n - 1 \in head..(head + Len(list) - 1)
    BY <1>1
  <2> QED BY <2>1 DEF Spells
<1>3. plain \in [1..Cardinality(rows) -> rows] /\ Sorted(plain)
  <2>1. plain \in [1..Len(list) -> rows] /\ DOMAIN plain = 1..Len(list)
    BY <1>2
  <2> HIDE DEF plain
  <2>2. IsInjective(plain)
    BY <1>1, <1>2, <2>1 DEF IsInjective
  <2>3. \A m, n \in DOMAIN plain : m < n => plain[m].position <= plain[n].position
    BY <1>1, <1>2, <2>1
  <2> QED BY <1>1, <2>1, <2>2, <2>3
<1> HIDE DEF plain
<1>4. sorted \in [1..Len(list) -> rows] /\ Sorted(sorted)
  <2>1. \E s \in [1..Cardinality(rows) -> rows] : Sorted(s)
    BY <1>3
  <2> HIDE DEF Sorted
  <2> QED BY <1>1, <2>1
<1>5. InOrder(rows) = [n \in DOMAIN sorted |-> sorted[n].value]
  BY Zenon DEF InOrder
<1> HIDE DEF sorted
<1>6. \A n \in 1..Len(list) :
        sorted[n] \in rows /\ sorted[n].position \in head..(head + Len(list) - 1)
  BY <1>4 DEF Spells
<1>7. \A m, n \in 1..Len(list) : m < n => sorted[m].position < sorted[n].position
  <2> SUFFICES ASSUME NEW m \in 1..Len(list), NEW n \in 1..Len(list), m < n
               PROVE  sorted[m].position < sorted[n].position
    OBVIOUS
  <2>1. sorted[m] # sorted[n]
    BY <1>4 DEF IsInjective
  <2>2. sorted[m].position # sorted[n].position
    BY <1>6, <2>1 DEF Spells
  <2>3. sorted[m].position <= sorted[n].position
    BY <1>4
  <2>4. sorted[m].position \in Int /\ sorted[n].position \in Int
    BY <1>1, <1>6
  <2> QED BY <2>2, <2>3, <2>4
<1> DEFINE pos(n) == sorted[n].position
           early == {n \in 1..Len(list) : pos(n) < head + n - 1}
           late == {n \in 1..Len(list) : pos(n) > head + n - 1}
<1>8. \A n \in 1..Len(list) : pos(n) \in Int /\ head <= pos(n) /\ pos(n) <= head + Len(list) - 1
  BY <1>1, <1>6
<1>9. \A m, n \in 1..Len(list) : m < n => pos(m) < pos(n)
  BY <1>7
<1> HIDE DEF pos
<1>10. early = {}
  <2> SUFFICES ASSUME early # {} PROVE FALSE
    OBVIOUS
  <2>1. early \subseteq 0..Len(list)
    BY <1>1
  <2>2. PICK n \in early : \A m \in early : n <= m
    <3> HIDE DEF early
    <3> QED BY <1>1, <2>1, LeastNumber
  <2>3. n \in 1..Len(list) /\ pos(n) < head + n - 1
    OBVIOUS
  <2>4. n # 1
    BY <1>8, <2>3
  <2>5. n - 1 \in 1..Len(list) /\ n - 1 \notin early
    BY <1>1, <2>2, <2>3, <2>4
  <2>6. pos(n - 1) >= head + n - 2
    BY <1>8, <2>3, <2>5, SMTT(30)
  <2> QED BY <1>8, <1>9, <2>3, <2>5, <2>6
<1>11. late = {}
  <2> SUFFICES ASSUME late # {} PROVE FALSE
    OBVIOUS
  <2>1. late \subseteq 1..Len(list)
    OBVIOUS
  <2>2. PICK n \in late : \A m \in late : m <= n
    <3> HIDE DEF late
    <3> QED BY <1>1, <2>1, GreatestNumber
  <2>3. n \in 1..Len(list) /\ pos(n) > head + n - 1
    OBVIOUS
  <2>4. n # Len(list)
    BY <1>1, <1>8, <2>3
  <2>5. n + 1 \in 1..Len(list) /\ n + 1 \notin late
    BY <1>1, <2>2, <2>3, <2>4
  <2>6. pos(n + 1) <= head + n
    BY <1>8, <2>3, <2>5
  <2> QED BY <1>8, <1>9, <2>3, <2>5, <2>6
<1>12. \A n \in 1..Len(list) : sorted[n].position = head + n - 1
  <2>1. ASSUME NEW n \in 1..Len(list) PROVE pos(n) = head + n - 1
    <3>1. ~(pos(n) < head + n - 1) /\ ~(pos(n) > head + n - 1)
      BY <1>10, <1>11
    <3>2. pos(n) \in Int /\ n \in Int
      BY <1>1, <1>8
    <3> QED BY <3>1, <3>2
  <2> QED BY <2>1 DEF pos
<1>13. \A n \in 1..Len(list) : sorted[n].value = list[n]
  <2> SUFFICES ASSUME NEW n \in 1..Len(list) PROVE sorted[n].value = list[n]
    OBVIOUS
  <2>1. sorted[n].value = list[sorted[n].position - head + 1]
    BY <1>6 DEF Spells
  <2>2. sorted[n].position - head + 1 = n
    BY <1>1, <1>12
  <2> QED BY <2>1, <2>2
<1>14. DOMAIN sorted = 1..Len(list) /\ list \in Seq(Values)
  BY <1>4 DEF Spells
<1>15. list = [n \in 1..Len(list) |-> list[n]]
  BY <1>14
<1>16. [n \in DOMAIN sorted |-> sorted[n].value] = [n \in 1..Len(list) |-> list[n]]
  BY <1>13, <1>14
<1> QED BY <1>5, <1>15, <1>16

LEMMA NothingSpellsNothing ==
    ASSUME NEW rows, rows = {}, NEW head \in Int, NEW date PROVE Spells(rows, head, <<>>, date)
BY DEF Spells

\* The rows from one position to another spell that part of the list.
LEMMA PartSpells ==
    ASSUME NEW rows, NEW head \in Int, NEW list, NEW date, Spells(rows, head, list, date),
           NEW a \in Int, NEW b \in Int, 1 <= a, a <= b + 1, b <= Len(list),
           NEW part, part = {r \in rows : r.position \in (head + a - 1)..(head + b - 1)}
    PROVE  /\ Spells(part, head + a - 1, SubSeq(list, a, b), date)
           /\ Len(SubSeq(list, a, b)) = b - a + 1
<1> DEFINE sub == SubSeq(list, a, b)
<1>1. list \in Seq(Values) /\ Len(list) \in Nat
  BY DEF Spells
<1>2. /\ sub \in Seq(Values) /\ Len(sub) = b - a + 1
      /\ \A n \in 1..Len(sub) : sub[n] = list[a + n - 1]
  BY <1>1
<1> HIDE DEF sub
<1>3. \A r \in part : /\ r \in rows /\ r.position \in Int
                       /\ r.position \in (head + a - 1)..(head + b - 1)
  <2> SUFFICES ASSUME NEW r \in part PROVE r \in rows /\ r.position \in (head + a - 1)..(head + b - 1)
    OBVIOUS
  <2> QED OBVIOUS
<1>4. ASSUME NEW r \in part
      PROVE  /\ r.position \in (head + a - 1)..(head + a - 1 + Len(sub) - 1)
             /\ r.value = sub[r.position - (head + a - 1) + 1] /\ r.date = date
  <2>1. r.value = list[r.position - head + 1] /\ r.date = date
    BY <1>3 DEF Spells
  <2>2. r.position \in (head + a - 1)..(head + a - 1 + Len(sub) - 1)
    BY <1>2, <1>3
  <2>3. /\ r.position - (head + a - 1) + 1 \in 1..Len(sub)
        /\ a + (r.position - (head + a - 1) + 1) - 1 = r.position - head + 1
    BY <1>2, <1>3
  <2> QED BY <1>2, <2>1, <2>2, <2>3
<1>5. ASSUME NEW p \in (head + a - 1)..(head + a - 1 + Len(sub) - 1)
      PROVE  \E r \in part : r.position = p
  <2>1. p \in head..(head + Len(list) - 1) /\ p \in (head + a - 1)..(head + b - 1)
    BY <1>1, <1>2
  <2>2. PICK r \in rows : r.position = p
    BY <2>1 DEF Spells
  <2> QED BY <2>1, <2>2
<1>6. \A r, q \in part : r.position = q.position => r = q
  BY <1>3 DEF Spells
<1>7. Spells(part, head + a - 1, sub, date)
  BY <1>2, <1>4, <1>5, <1>6 DEF Spells
<1> QED BY <1>2, <1>7 DEF sub

LEMMA OneMoreSpells ==
    ASSUME NEW rows, NEW head \in Int, NEW list, NEW date, Spells(rows, head, list, date),
           NEW value \in Values, NEW r, r.position = head + Len(list),
           r.value = value, r.date = date, NEW more, more = rows \cup {r}
    PROVE  Spells(more, head, Append(list, value), date)
<1> DEFINE app == Append(list, value)
<1>1. list \in Seq(Values) /\ Len(list) \in Nat
  BY DEF Spells
<1>2. /\ app \in Seq(Values) /\ Len(app) = Len(list) + 1
      /\ \A n \in 1..Len(list) : app[n] = list[n]
      /\ app[Len(list) + 1] = value
  BY <1>1
<1> HIDE DEF app
<1>3. \A q \in rows : /\ q.position \in head..(head + Len(list) - 1)
                       /\ q.value = list[q.position - head + 1] /\ q.date = date
  BY DEF Spells
<1>4. ASSUME NEW q \in more
      PROVE  /\ q.position \in head..(head + Len(app) - 1)
             /\ q.value = app[q.position - head + 1] /\ q.date = date
  <2>1. CASE q = r
    <3>1. q.position - head + 1 = Len(list) + 1
      BY <1>1, <2>1
    <3> QED BY <1>1, <1>2, <2>1, <3>1
  <2>2. CASE q \in rows
    <3>1. q.position - head + 1 \in 1..Len(list)
      BY <1>1, <1>3, <2>2
    <3> QED BY <1>1, <1>2, <1>3, <2>2, <3>1
  <2> QED BY <2>1, <2>2
<1>5. ASSUME NEW p \in head..(head + Len(app) - 1) PROVE \E q \in more : q.position = p
  <2>1. p = head + Len(list) \/ p \in head..(head + Len(list) - 1)
    BY <1>1, <1>2
  <2> QED BY <2>1 DEF Spells
<1>6. \A q \in rows : q.position # r.position
  BY <1>1, <1>3
<1>7. \A q, s \in more : q.position = s.position => q = s
  BY <1>6 DEF Spells
<1>8. Spells(more, head, app, date)
  BY <1>2, <1>4, <1>5, <1>7 DEF Spells
<1> QED BY <1>8 DEF app

MovedRows(rows, date) == {[i EXCEPT !.date = date] : i \in rows}

LEMMA MovedSpells ==
    ASSUME NEW rows, rows \subseteq Items, NEW head \in Int, NEW list, NEW date, NEW to,
           Spells(rows, head, list, date)
    PROVE  Spells(MovedRows(rows, to), head, list, to)
<1> DEFINE moved(i) == [i EXCEPT !.date = to]
<1>1. \A i \in rows : /\ moved(i).position = i.position /\ moved(i).value = i.value
                      /\ moved(i).date = to
  BY DEF Items
<1>2. MovedRows(rows, to) = {moved(i) : i \in rows}
  BY DEF MovedRows
<1> HIDE DEF moved
<1>3. ASSUME NEW r \in MovedRows(rows, to)
      PROVE  /\ r.position \in head..(head + Len(list) - 1)
             /\ r.value = list[r.position - head + 1] /\ r.date = to
  <2>1. PICK i \in rows : r = moved(i)
    BY <1>2
  <2>2. i.position \in head..(head + Len(list) - 1) /\ i.value = list[i.position - head + 1]
    BY DEF Spells
  <2>3. r.position = i.position /\ r.value = i.value /\ r.date = to
    BY <1>1, <2>1
  <2> QED BY <2>2, <2>3
<1>4. ASSUME NEW p \in head..(head + Len(list) - 1)
      PROVE  \E r \in MovedRows(rows, to) : r.position = p
  <2>1. PICK i \in rows : i.position = p
    BY DEF Spells
  <2> QED BY <1>1, <1>2, <2>1
<1>5. ASSUME NEW r \in MovedRows(rows, to), NEW q \in MovedRows(rows, to),
             r.position = q.position
      PROVE  r = q
  <2>1. PICK i \in rows, j \in rows : r = moved(i) /\ q = moved(j)
    BY <1>2
  <2>2. i = j
    BY <1>1, <1>5, <2>1 DEF Spells
  <2> QED BY <2>1, <2>2
<1>6. list \in Seq(Values)
  BY DEF Spells
<1> QED BY <1>3, <1>4, <1>5, <1>6 DEF Spells

-----------------------------------------------------------------------------
(* What every command starts from                                          *)

LEMMA DocumentsAreSome == \A x \in LockDocs \cup ListDocs \cup RedisLists : x # None
<1>1. \A x \in LockDocs \cup ListDocs \cup RedisLists : x.kind # None.kind
  BY DEF LockDocs, ListDocs, RedisLists, None
<1> QED BY <1>1

LEMMA LoadedIsCurrent ==
    \A k \in Keys : /\ Loaded(k) = Current(docs[k], now) /\ RedisGet(k) = Current(redis[k], now)
                    /\ RedisLive(k) <=> Timely(redis[k], now)
                    /\ Loaded(k) = None <=> ~Timely(docs[k], now)
                    /\ Loaded(k) # None => Loaded(k) = docs[k] /\ Kept(k) = items
                    /\ Loaded(k) = None => Kept(k) \subseteq items
BY DEF Loaded, RedisGet, RedisLive, Current, Timely, Overdue, Kept

LEMMA LaterIsFresh ==
    ASSUME NEW t \in Nat, NEW x, x # None, x.date = t + Ttl PROVE Timely(x, t)
BY DEF Timely, Ttl

\* The list a command works on is the one Redis has.
LEMMA ListIsKnown ==
    ASSUME StoreInv
    PROVE  /\ Holds(ListOf("queue"), Kept("queue"), RedisList, RedisDate)
           /\ ListOf("queue").generation <= commands + 1
           /\ Timely(ListOf("queue"), now)
           /\ OwnRows("queue", ListOf("queue"))
                = Own(Kept("queue"), ListOf("queue").generation)
           /\ Loaded("queue") = None <=> ~RedisLive("queue")
           /\ Loaded("queue") = None <=> RedisList = <<>>
           /\ Loaded("queue") # None => ListOf("queue") = Loaded("queue")
           /\ Kept("queue") \subseteq items
<1>1. "queue" \in Keys
  BY DEF Keys
<1>2. /\ Loaded("queue") = None <=> ~RedisLive("queue")
      /\ Kept("queue") \subseteq items
  BY <1>1, LoadedIsCurrent DEF StoreInv, QueueAgrees
<1>3. OwnRows("queue", ListOf("queue")) = Own(Kept("queue"), ListOf("queue").generation)
  BY DEF OwnRows, Own
<1>4. CASE Loaded("queue") # None
  <2>1. /\ Loaded("queue") = docs["queue"] /\ Kept("queue") = items
        /\ Timely(docs["queue"], now) /\ RedisLive("queue")
    BY <1>1, <1>2, <1>4, LoadedIsCurrent
  <2>2. /\ ListOf("queue") = docs["queue"] /\ RedisList = redis["queue"].list
        /\ RedisDate = redis["queue"].date
    BY <1>4, <2>1 DEF ListOf, RedisList, RedisDate
  <2>3. /\ redis["queue"].list # <<>>
        /\ Holds(docs["queue"], items, redis["queue"].list, redis["queue"].date)
    BY <2>1 DEF StoreInv, QueueAgrees
  <2>4. docs["queue"].generation <= commands + 1
    <3>1. docs["queue"].generation <= commands /\ docs["queue"].generation \in Nat
      BY <2>1, <2>3 DEF StoreInv, Timely, Holds, ListDocs
    <3>2. commands \in Nat
      BY DEF StoreInv, StoreTypeOK
    <3> QED BY <3>1, <3>2
  <2> QED BY <1>2, <1>3, <1>4, <2>1, <2>2, <2>3, <2>4
<1>5. CASE Loaded("queue") = None
  <2> DEFINE listed == ListOf("queue")
  <2>1. listed = [kind |-> "list", head |-> 0, tail |-> -1, generation |-> commands + 1, date |-> Never]
    BY <1>5 DEF ListOf
  <2>2. RedisList = <<>> /\ RedisDate = Never
    BY <1>2, <1>5 DEF RedisList, RedisDate
  <2>3. commands \in Nat
    BY DEF StoreInv, StoreTypeOK
  <2>4. /\ listed \in ListDocs /\ listed.head = 0 /\ listed.tail = -1 /\ listed.date = Never
        /\ listed.generation = commands + 1
    BY <2>1, <2>3 DEF ListDocs, Never
  <2> HIDE DEF listed
  <2>5. Own(Kept("queue"), commands + 1) = {}
    <3>1. \A i \in Kept("queue") : i.generation <= commands /\ i.generation \in Nat
      BY <1>2 DEF StoreInv, StoreTypeOK, Items
    <3> QED BY <2>3, <3>1 DEF Own
  <2>6. Spells(Own(Kept("queue"), commands + 1), 0, <<>>, Never)
    BY <2>5, NothingSpellsNothing
  <2>7. Holds(listed, Kept("queue"), <<>>, Never)
    <3>1. Len(<<>>) = 0
      OBVIOUS
    <3>2. listed.tail = listed.head + Len(<<>>) - 1
      BY <2>4, <3>1
    <3> QED BY <2>4, <2>6, <3>2 DEF Holds
  <2>8. Timely(listed, now)
    BY <2>4, DocumentsAreSome DEF Timely
  <2> QED BY <1>2, <1>3, <1>5, <2>2, <2>3, <2>4, <2>7, <2>8 DEF listed
<1> QED BY <1>4, <1>5

-----------------------------------------------------------------------------
(* What a command on either key has to show                                *)

Answered == answers'.mongo = answers'.redis /\ commands' = commands + 1 /\ now' = now

LEMMA BothAnswer ==
    ASSUME NEW a, NEW b, Both(a, b), a = b PROVE Answered
BY DEF Both, Answered

LEMMA QueueCommand ==
    ASSUME StoreInv, Answered, NEW d, NEW r,
           docs' = [docs EXCEPT !["queue"] = d], redis' = [redis EXCEPT !["queue"] = r],
           d \in ListDocs \cup {None}, r \in RedisLists \cup {None},
           d # None => d.generation <= commands + 1,
           items' \subseteq Items, \A i \in items' : i.generation <= commands + 1,
           QueueAgrees(d, items', r, now)
    PROVE  StoreInv'
<1>1. /\ DOMAIN docs = {"lock", "queue"} /\ DOMAIN redis = {"lock", "queue"}
      /\ commands \in Nat /\ now \in Nat
      /\ docs["lock"] \in LockDocs \cup {None} /\ redis["lock"] \in LockDocs \cup {None}
      /\ Current(docs["lock"], now) = Current(redis["lock"], now)
  BY DEF StoreInv, StoreTypeOK, Keys
<1>2. /\ DOMAIN docs' = {"lock", "queue"} /\ DOMAIN redis' = {"lock", "queue"}
      /\ docs'["lock"] = docs["lock"] /\ redis'["lock"] = redis["lock"]
      /\ docs'["queue"] = d /\ redis'["queue"] = r
  BY <1>1
<1>3. now' = now /\ commands' = commands + 1 /\ answers'.mongo = answers'.redis
  BY DEF Answered
<1>4. StoreTypeOK'
  <2>1. docs' \in [Keys -> LockDocs \cup ListDocs \cup {None}]
    BY DEF StoreInv, StoreTypeOK
  <2>2. redis' \in [Keys -> LockDocs \cup RedisLists \cup {None}]
    BY DEF StoreInv, StoreTypeOK
  <2> QED BY <1>1, <1>2, <1>3, <2>1, <2>2 DEF StoreTypeOK
<1>5. Current(docs'["lock"], now') = Current(redis'["lock"], now')
  BY <1>1, <1>2, <1>3
<1>6. QueueAgrees(docs'["queue"], items', redis'["queue"], now')
  BY <1>2, <1>3
<1>7. /\ \A i \in items' : i.generation <= commands'
      /\ docs'["queue"] # None => docs'["queue"].generation <= commands'
  BY <1>2, <1>3
<1> QED BY <1>3, <1>4, <1>5, <1>6, <1>7 DEF StoreInv

LEMMA LockCommand ==
    ASSUME StoreInv, Answered, NEW d, NEW r,
           docs' = [docs EXCEPT !["lock"] = d], redis' = [redis EXCEPT !["lock"] = r],
           d \in LockDocs \cup {None}, r \in LockDocs \cup {None},
           items' = items, Current(d, now) = Current(r, now)
    PROVE  StoreInv'
<1>1. /\ DOMAIN docs = {"lock", "queue"} /\ DOMAIN redis = {"lock", "queue"}
      /\ commands \in Nat /\ now \in Nat
      /\ docs["queue"] \in ListDocs \cup {None} /\ redis["queue"] \in RedisLists \cup {None}
      /\ QueueAgrees(docs["queue"], items, redis["queue"], now)
      /\ items \subseteq Items /\ \A i \in items : i.generation <= commands
      /\ docs["queue"] # None => docs["queue"].generation <= commands
  BY DEF StoreInv, StoreTypeOK, Keys
<1>2. /\ DOMAIN docs' = {"lock", "queue"} /\ DOMAIN redis' = {"lock", "queue"}
      /\ docs'["lock"] = d /\ redis'["lock"] = r
      /\ docs'["queue"] = docs["queue"] /\ redis'["queue"] = redis["queue"]
  BY <1>1
<1>3. now' = now /\ commands' = commands + 1 /\ answers'.mongo = answers'.redis
  BY DEF Answered
<1>4. StoreTypeOK'
  <2>1. docs' \in [Keys -> LockDocs \cup ListDocs \cup {None}]
    BY DEF StoreInv, StoreTypeOK
  <2>2. redis' \in [Keys -> LockDocs \cup RedisLists \cup {None}]
    BY DEF StoreInv, StoreTypeOK
  <2> QED BY <1>1, <1>2, <1>3, <2>1, <2>2 DEF StoreTypeOK
<1>5. Current(docs'["lock"], now') = Current(redis'["lock"], now')
  BY <1>2, <1>3
<1>6. QueueAgrees(docs'["queue"], items', redis'["queue"], now')
  BY <1>1, <1>2, <1>3
<1>7. /\ \A i \in items' : i.generation <= commands'
      /\ docs'["queue"] # None => docs'["queue"].generation <= commands'
  <2>1. \A i \in items : i.generation \in Nat
    BY <1>1 DEF Items
  <2>2. docs["queue"] # None => docs["queue"].generation \in Nat
    BY <1>1 DEF ListDocs
  <2> QED BY <1>1, <1>2, <1>3, <2>1, <2>2
<1> QED BY <1>3, <1>4, <1>5, <1>6, <1>7 DEF StoreInv

LEMMA KeptByLock == StoreInv => Kept("lock") = items
BY DEF StoreInv, StoreTypeOK, Kept, Items

\* The lock's document, and Redis's value, as a command on it finds them.
LEMMA LockIsKnown ==
    ASSUME StoreInv
    PROVE  /\ Loaded("lock") = RedisGet("lock")
           /\ Loaded("lock") = None <=> ~RedisLive("lock")
           /\ Loaded("lock") \in LockDocs \cup {None}
           /\ Loaded("lock") # None => Timely(Loaded("lock"), now)
           /\ RedisLive("lock") => redis["lock"] = Loaded("lock")
           /\ Current(Loaded("lock"), now) = Current(redis["lock"], now)
           /\ docs["lock"] \in LockDocs \cup {None} /\ redis["lock"] \in LockDocs \cup {None}
<1>1. "lock" \in Keys
  BY DEF Keys
<1>2. /\ docs["lock"] \in LockDocs \cup {None} /\ redis["lock"] \in LockDocs \cup {None}
      /\ Current(docs["lock"], now) = Current(redis["lock"], now)
  BY DEF StoreInv, StoreTypeOK
<1>3. ~Timely(None, now)
  BY DEF Timely
<1> QED BY <1>1, <1>2, <1>3, LoadedIsCurrent DEF Current

LEMMA SetNxKeeps ==
    ASSUME StoreInv, SetNx(0) PROVE StoreInv'
<1> DEFINE set == [kind |-> "value", value |-> 0, date |-> now + Ttl]
           d == IF Loaded("lock") = None THEN set ELSE docs["lock"]
           r == IF RedisLive("lock") THEN redis["lock"] ELSE set
<1>1. /\ docs' = [docs EXCEPT !["lock"] = d] /\ redis' = [redis EXCEPT !["lock"] = r]
      /\ items' = items
  <2>1. docs = [docs EXCEPT !["lock"] = docs["lock"]] /\ redis = [redis EXCEPT !["lock"] = redis["lock"]]
    BY DEF StoreInv, StoreTypeOK
  <2> QED BY <2>1, KeptByLock DEF SetNx, Save
<1>2. Answered
  BY LockIsKnown, BothAnswer DEF SetNx
<1>3. set \in LockDocs /\ Timely(set, now)
  <2>1. set \in LockDocs /\ now \in Nat /\ set.date = now + Ttl
    BY DEF StoreInv, StoreTypeOK, LockDocs, Ttl
  <2> QED BY <2>1, DocumentsAreSome, LaterIsFresh
<1> HIDE DEF set
<1>4. /\ d \in LockDocs \cup {None} /\ r \in LockDocs \cup {None}
      /\ Current(d, now) = Current(r, now)
  <2>1. "lock" \in Keys
    BY DEF Keys
  <2> QED BY <1>3, <2>1, LockIsKnown, LoadedIsCurrent
<1> HIDE DEF d, r
<1> QED BY <1>1, <1>2, <1>4, LockCommand

LEMMA GetKeeps ==
    ASSUME StoreInv, Get PROVE StoreInv'
<1>1. /\ docs' = [docs EXCEPT !["lock"] = Loaded("lock")]
      /\ redis' = [redis EXCEPT !["lock"] = redis["lock"]] /\ items' = items
  <2>1. redis = [redis EXCEPT !["lock"] = redis["lock"]]
    BY DEF StoreInv, StoreTypeOK
  <2> QED BY <2>1, KeptByLock DEF Get, Save
<1>2. Answered
  BY LockIsKnown, BothAnswer DEF Get
<1> QED BY <1>1, <1>2, LockIsKnown, LockCommand

LEMMA IncrKeeps ==
    ASSUME StoreInv, Incr PROVE StoreInv'
<1> DEFINE d == Bumped(Loaded("lock"))
<1>1. /\ docs' = [docs EXCEPT !["lock"] = d] /\ redis' = [redis EXCEPT !["lock"] = d]
      /\ items' = items
  BY KeptByLock, LockIsKnown DEF Incr, Save
<1>2. Answered
  BY LockIsKnown, BothAnswer DEF Incr
<1>3. d \in LockDocs
  BY LockIsKnown DEF Bumped, LockDocs, Never
<1> HIDE DEF d
<1> QED BY <1>1, <1>2, <1>3, LockCommand

-----------------------------------------------------------------------------
(* Commands on the list                                                    *)

LEMMA MinOfTwo ==
    ASSUME NEW a \in Int, NEW b \in Int PROVE Min({a, b}) = IF a <= b THEN a ELSE b
<1> DEFINE least == IF a <= b THEN a ELSE b
<1>1. least \in {a, b} /\ \A y \in {a, b} : least <= y
  OBVIOUS
<1>2. \A x \in {a, b} : (\A y \in {a, b} : x <= y) => x = least
  OBVIOUS
<1> HIDE DEF least
<1>3. Min({a, b}) \in {a, b} /\ \A y \in {a, b} : Min({a, b}) <= y
  BY <1>1 DEF Min
<1> QED BY <1>2, <1>3 DEF least

\* The rows a command finds, and how many there are.
LEMMA RowsAreKnown ==
    ASSUME StoreInv, NEW listed, listed = ListOf("queue"), NEW own, own = OwnRows("queue", listed)
    PROVE  /\ listed \in ListDocs /\ listed.head \in Int /\ listed.tail \in Int
           /\ listed.date = RedisDate /\ listed.tail = listed.head + Len(RedisList) - 1
           /\ RedisList \in Seq(Values) /\ Len(RedisList) \in Nat
           /\ Length(listed) = Len(RedisList)
           /\ own = Own(Kept("queue"), listed.generation) /\ own \subseteq Items
           /\ Spells(own, listed.head, RedisList, RedisDate)
           /\ listed.generation \in Nat /\ listed.generation <= commands + 1
           /\ Timely(listed, now)
           /\ Kept("queue") \subseteq Items
           /\ \A i \in Kept("queue") : i.generation \in Nat /\ i.generation <= commands
<1>1. Holds(listed, Kept("queue"), RedisList, RedisDate)
  BY ListIsKnown
<1>2. listed \in ListDocs /\ listed.head \in Int /\ listed.tail \in Int /\ listed.generation \in Nat
  BY <1>1 DEF Holds, ListDocs
<1>3. own = Own(Kept("queue"), listed.generation)
  BY ListIsKnown
<1>4. Spells(own, listed.head, RedisList, RedisDate)
  BY <1>1, <1>3 DEF Holds
<1>5. RedisList \in Seq(Values) /\ Len(RedisList) \in Nat
  BY <1>4 DEF Spells
<1>6. listed.date = RedisDate /\ listed.tail = listed.head + Len(RedisList) - 1
  BY <1>1 DEF Holds
<1>7. Length(listed) = Len(RedisList)
  BY <1>2, <1>5, <1>6 DEF Length
<1>8. Kept("queue") \subseteq Items /\ \A i \in Kept("queue") : i.generation <= commands
  BY ListIsKnown DEF StoreInv, StoreTypeOK
<1>9. \A i \in Kept("queue") : i.generation \in Nat
  BY <1>8 DEF Items
<1>10. own \subseteq Items
  BY <1>3, <1>8 DEF Own
<1>11. listed.generation <= commands + 1 /\ Timely(listed, now)
  BY ListIsKnown
<1> QED BY <1>2, <1>3, <1>4, <1>5, <1>6, <1>7, <1>8, <1>9, <1>10, <1>11

\* A command that leaves a list behind.
LEMMA ListStays ==
    ASSUME StoreInv, Answered, NEW d, NEW list, NEW date,
           docs' = [docs EXCEPT !["queue"] = d], RedisPut("queue", list, date),
           list # <<>>, Timely(d, now), d.generation <= commands + 1, date \in Int,
           items' \subseteq Items, \A i \in items' : i.generation <= commands + 1,
           Holds(d, items', list, date)
    PROVE  StoreInv'
<1> DEFINE r == [kind |-> "list", list |-> list, date |-> date]
<1>1. redis' = [redis EXCEPT !["queue"] = r]
  BY DEF RedisPut
<1>2. d \in ListDocs /\ list \in Seq(Values) /\ d.date = date
  BY DEF Holds, Spells
<1>3. r \in RedisLists /\ r.date = date /\ r.list = list
  BY <1>2 DEF RedisLists
<1> HIDE DEF r
<1>4. Timely(r, now)
  BY <1>2, <1>3, DocumentsAreSome DEF Timely
<1>5. QueueAgrees(d, items', r, now)
  BY <1>3, <1>4 DEF QueueAgrees
<1> QED BY <1>1, <1>2, <1>3, <1>5, QueueCommand

\* A command after which there is no list.
LEMMA ListGone ==
    ASSUME StoreInv, Answered, NEW r,
           docs' = [docs EXCEPT !["queue"] = None], redis' = [redis EXCEPT !["queue"] = r],
           r \in RedisLists \cup {None}, ~Timely(r, now), items' \subseteq items
    PROVE  StoreInv'
<1>1. ~Timely(None, now)
  BY DEF Timely
<1>2. QueueAgrees(None, items', r, now)
  BY <1>1 DEF QueueAgrees
<1>3. items' \subseteq Items /\ \A i \in items' : i.generation <= commands + 1
  <2>1. items \subseteq Items /\ commands \in Nat /\ \A i \in items : i.generation <= commands
    BY DEF StoreInv, StoreTypeOK
  <2>2. \A i \in items : i.generation \in Nat
    BY <2>1 DEF Items
  <2> QED BY <2>1, <2>2
<1> QED BY <1>2, <1>3, QueueCommand

\* A command that only reads the list.
LEMMA ListRead ==
    ASSUME StoreInv, Answered, docs' = [docs EXCEPT !["queue"] = Loaded("queue")],
           items' = Kept("queue"), redis' = redis
    PROVE  StoreInv'
<1>1. "queue" \in Keys
  BY DEF Keys
<1>2. redis' = [redis EXCEPT !["queue"] = redis["queue"]]
  BY DEF StoreInv, StoreTypeOK
<1>3. /\ redis["queue"] \in RedisLists \cup {None} /\ docs["queue"] \in ListDocs \cup {None}
      /\ QueueAgrees(docs["queue"], items, redis["queue"], now)
  BY DEF StoreInv, StoreTypeOK
<1>4. CASE Loaded("queue") = None
  <2>1. ~Timely(redis["queue"], now) /\ items' \subseteq items
    BY <1>1, <1>3, <1>4, LoadedIsCurrent DEF QueueAgrees
  <2> QED BY <1>2, <1>3, <1>4, <2>1, ListGone
<1>5. CASE Loaded("queue") # None
  <2>1. Loaded("queue") = docs["queue"] /\ Kept("queue") = items
    BY <1>1, <1>5, LoadedIsCurrent
  <2>2. /\ docs["queue"].generation <= commands + 1
        /\ items \subseteq Items /\ \A i \in items : i.generation <= commands + 1
    <3>1. /\ docs["queue"] \in ListDocs /\ docs["queue"].generation <= commands
          /\ items \subseteq Items /\ commands \in Nat
          /\ \A i \in items : i.generation <= commands
      BY <1>3, <1>5, <2>1 DEF StoreInv, StoreTypeOK
    <3>2. docs["queue"].generation \in Nat /\ \A i \in items : i.generation \in Nat
      BY <3>1 DEF ListDocs, Items
    <3> QED BY <3>1, <3>2
  <2> QED BY <1>2, <1>3, <2>1, <2>2, QueueCommand
<1> QED BY <1>4, <1>5

LEMMA DelKeeps ==
    ASSUME StoreInv, NEW k \in Keys, Del(k) PROVE StoreInv'
<1>1. k = "lock" \/ k = "queue"
  BY DEF Keys
<1>2. /\ docs' = [docs EXCEPT ![k] = None] /\ redis' = [redis EXCEPT ![k] = None]
      /\ items' = {i \in items : i.key # k}
  BY DEF Del, Drop
<1>3. ~Timely(None, now)
  BY DEF Timely
<1>4. CASE k = "lock"
  <2>1. items' = items
    BY <1>2, <1>4 DEF StoreInv, StoreTypeOK, Items
  <2>2. Answered
    <3>1. (Loaded("lock") # None) = RedisLive("lock")
      BY LockIsKnown, <1>4, Zenon DEF RedisLive
    <3> QED BY <1>4, <3>1, BothAnswer DEF Del
  <2> QED BY <1>2, <1>4, <2>1, <2>2, LockCommand
<1>5. CASE k = "queue"
  <2>1. items' \subseteq items
    BY <1>2
  <2>2. Answered
    <3>1. (Loaded("queue") # None) = RedisLive("queue")
      BY ListIsKnown, <1>5, Zenon DEF RedisLive
    <3> QED BY <1>5, <3>1, BothAnswer DEF Del
  <2> QED BY <1>2, <1>3, <1>5, <2>1, <2>2, ListGone
<1> QED BY <1>1, <1>4, <1>5

LEMMA TtlKeeps ==
    ASSUME StoreInv, NEW k \in Keys, TtlOf(k) PROVE StoreInv'
<1>1. k = "lock" \/ k = "queue"
  BY DEF Keys
<1>2. items' = Kept(k) /\ docs' = [docs EXCEPT ![k] = Loaded(k)] /\ redis' = redis
  BY DEF TtlOf, Save
<1>3. /\ Loaded(k) = None <=> ~RedisLive(k)
      /\ Loaded(k) # None => Loaded(k).date = redis[k].date
  <2>1. CASE k = "lock"
    BY <2>1, LockIsKnown
  <2>2. CASE k = "queue"
    <3>1. Loaded(k) = None <=> ~RedisLive(k)
      BY <2>2, ListIsKnown
    <3>2. Loaded(k) # None => Loaded(k).date = RedisDate
      BY <2>2, ListIsKnown DEF Holds
    <3> QED BY <2>2, <3>1, <3>2 DEF RedisDate
  <2> QED BY <1>1, <2>1, <2>2
<1>4. Answered
  <2>1. (IF Loaded(k) = None THEN -2 ELSE TimeLeft(Loaded(k).date))
            = (IF RedisLive(k) THEN TimeLeft(redis[k].date) ELSE -2)
    BY <1>3
  <2> QED BY <2>1, BothAnswer DEF TtlOf
<1>5. CASE k = "lock"
  <2>1. redis' = [redis EXCEPT !["lock"] = redis["lock"]] /\ items' = items
    BY <1>2, <1>5, KeptByLock DEF StoreInv, StoreTypeOK
  <2> QED BY <1>2, <1>4, <1>5, <2>1, LockIsKnown, LockCommand
<1>6. CASE k = "queue"
  BY <1>2, <1>4, <1>6, ListRead
<1> QED BY <1>1, <1>5, <1>6

LEMMA ExpireKeeps ==
    ASSUME StoreInv, NEW k \in Keys, Expire(k) PROVE StoreInv'
<1> DEFINE date == now + Ttl
           later == [Loaded(k) EXCEPT !.date = date]
<1>1. k = "lock" \/ k = "queue"
  BY DEF Keys
<1>2. date \in Int /\ now \in Nat /\ Ttl \in Nat
  BY DEF StoreInv, StoreTypeOK, Ttl
<1>3. Loaded(k) = None <=> ~RedisLive(k)
  BY <1>1, LockIsKnown, ListIsKnown
<1>4. Answered
  <2>1. (Loaded(k) # None) = RedisLive(k)
    BY <1>3, Zenon DEF RedisLive
  <2> QED BY <2>1, BothAnswer DEF Expire
<1>5. ASSUME Loaded(k) = None
      PROVE  /\ docs' = [docs EXCEPT ![k] = None] /\ items' = Kept(k)
             /\ redis' = [redis EXCEPT ![k] = redis[k]]
  <2>1. redis = [redis EXCEPT ![k] = redis[k]]
    BY DEF StoreInv, StoreTypeOK
  <2> QED BY <1>3, <1>5, <2>1 DEF Expire, Save
<1>6. ASSUME Loaded(k) # None
      PROVE  /\ docs' = [docs EXCEPT ![k] = later]
             /\ items' = (IF k = "queue" THEN Moved(k, date) ELSE Kept(k))
             /\ redis' = [redis EXCEPT ![k] = [redis[k] EXCEPT !.date = date]]
  BY <1>3, <1>6 DEF Expire, Save
<1>7. CASE k = "lock" /\ Loaded(k) = None
  <2>1. items' = items
    BY <1>5, <1>7, KeptByLock
  <2>2. Current(None, now) = Current(redis["lock"], now)
    BY <1>7, LockIsKnown
  <2> QED BY <1>4, <1>5, <1>7, <2>1, <2>2, LockIsKnown, LockCommand
<1>8. CASE k = "lock" /\ Loaded(k) # None
  <2>1. items' = items
    BY <1>6, <1>8, KeptByLock
  <2>2. redis[k] = Loaded(k) /\ Loaded(k) \in LockDocs
    BY <1>3, <1>8, LockIsKnown
  <2>3. later \in LockDocs
    BY <1>2, <2>2 DEF LockDocs
  <2> HIDE DEF later, date
  <2>4. docs' = [docs EXCEPT !["lock"] = later]
    BY <1>6, <1>8
  <2>5. redis' = [redis EXCEPT !["lock"] = later]
    BY <1>6, <1>8, <2>2 DEF later
  <2> QED BY <1>4, <2>1, <2>3, <2>4, <2>5, LockCommand
<1>9. CASE k = "queue" /\ Loaded(k) = None
  <2>1. items' \subseteq items
    BY <1>5, <1>9, ListIsKnown
  <2>2. redis["queue"] \in RedisLists \cup {None}
    BY DEF StoreInv, StoreTypeOK
  <2>3. ~Timely(redis["queue"], now)
    BY <1>3, <1>9, LoadedIsCurrent
  <2> QED BY <1>4, <1>5, <1>9, <2>1, <2>2, <2>3, ListGone
<1>10. CASE k = "queue" /\ Loaded(k) # None
  <2> DEFINE listed == ListOf("queue")
             own == OwnRows("queue", listed)
  <2>1. listed = Loaded("queue") /\ later = [listed EXCEPT !.date = date]
    BY <1>10, ListIsKnown
  <2>2. /\ listed \in ListDocs /\ listed.head \in Int /\ listed.tail = listed.head + Len(RedisList) - 1
        /\ RedisList \in Seq(Values)
        /\ own = Own(Kept("queue"), listed.generation) /\ own \subseteq Items
        /\ Spells(own, listed.head, RedisList, RedisDate)
        /\ listed.generation \in Nat /\ listed.generation <= commands + 1
        /\ Kept("queue") \subseteq Items
        /\ \A i \in Kept("queue") : i.generation \in Nat /\ i.generation <= commands
    BY RowsAreKnown
  <2>3. /\ later \in ListDocs /\ later.head = listed.head /\ later.tail = listed.tail
        /\ later.generation = listed.generation /\ later.date = date
    BY <1>2, <2>1, <2>2 DEF ListDocs
  <2>4. items' = {IF i \in own THEN [i EXCEPT !.date = date] ELSE i : i \in Kept("queue")}
    BY <1>6, <1>10 DEF Moved
  <2> HIDE DEF own, listed, later, date
  <2>5. \A i \in Items : LET m == [i EXCEPT !.date = date] IN
          m \in Items /\ m.key = i.key /\ m.generation = i.generation
    BY <1>2 DEF Items
  <2>6. own \subseteq Kept("queue")
    BY <2>2 DEF Own
  <2>7. items' = MovedRows(own, date) \cup (Kept("queue") \ own)
    BY <2>4, <2>6 DEF MovedRows
  <2>8. \A m \in MovedRows(own, date) :
          m \in Items /\ m.key = "queue" /\ m.generation = listed.generation
    BY <2>2, <2>5 DEF MovedRows, Own
  <2>9. Own(items', listed.generation) = MovedRows(own, date)
    BY <2>2, <2>7, <2>8 DEF Own
  <2>10. Spells(MovedRows(own, date), listed.head, RedisList, date)
    BY <2>2, MovedSpells
  <2>11. Holds(later, items', RedisList, date)
    BY <2>2, <2>3, <2>9, <2>10 DEF Holds
  <2>12. items' \subseteq Items /\ \A i \in items' : i.generation <= commands + 1
    <3>1. items' \subseteq Items
      BY <2>2, <2>7, <2>8
    <3>2. commands \in Nat
      BY DEF StoreInv, StoreTypeOK
    <3> QED BY <2>2, <2>7, <2>8, <3>1, <3>2
  <2>13. Timely(later, now)
    BY <1>2, <2>3, DocumentsAreSome, LaterIsFresh DEF date
  <2>14. RedisList # <<>> /\ RedisLive("queue")
    BY <1>3, <1>10, ListIsKnown
  <2>15. RedisPut("queue", RedisList, date)
    <3>1. redis["queue"] \in RedisLists
      <4>1. redis["queue"] \in RedisLists \cup {None} /\ redis["queue"] # None
        BY <2>14 DEF StoreInv, StoreTypeOK, RedisLive
      <4> QED BY <4>1
    <3>2. RedisList = redis["queue"].list
      BY <2>14 DEF RedisList
    <3>3. [redis["queue"] EXCEPT !.date = date]
            = [kind |-> "list", list |-> RedisList, date |-> date]
      BY <3>1, <3>2 DEF RedisLists
    <3> QED BY <1>6, <1>10, <2>14, <3>3 DEF RedisPut
  <2>16. docs' = [docs EXCEPT !["queue"] = later]
    BY <1>6, <1>10
  <2>17. later.generation <= commands + 1
    BY <2>2, <2>3
  <2>18. date \in Int
    BY <1>2
  <2> QED BY <1>4, <2>11, <2>12, <2>13, <2>14, <2>15, <2>16, <2>17, <2>18, ListStays
<1> QED BY <1>1, <1>7, <1>8, <1>9, <1>10

LEMMA RpushKeeps ==
    ASSUME StoreInv, NEW value \in Values, Rpush(value) PROVE StoreInv'
<1> DEFINE listed == ListOf("queue")
           own == OwnRows("queue", listed)
           added == [key |-> "queue", generation |-> listed.generation,
                   position |-> listed.tail + 1, value |-> value, date |-> listed.date]
           d == [listed EXCEPT !.tail = @ + 1]
           list == Append(RedisList, value)
<1>1. /\ listed \in ListDocs /\ listed.head \in Int /\ listed.tail \in Int
      /\ listed.date = RedisDate /\ listed.tail = listed.head + Len(RedisList) - 1
      /\ RedisList \in Seq(Values) /\ Len(RedisList) \in Nat
      /\ Length(listed) = Len(RedisList)
      /\ own = Own(Kept("queue"), listed.generation) /\ own \subseteq Items
      /\ Spells(own, listed.head, RedisList, RedisDate)
      /\ listed.generation \in Nat /\ listed.generation <= commands + 1
      /\ Timely(listed, now)
      /\ Kept("queue") \subseteq Items
      /\ \A i \in Kept("queue") : i.generation \in Nat /\ i.generation <= commands
  BY RowsAreKnown
<1>2. /\ docs' = [docs EXCEPT !["queue"] = d] /\ items' = Kept("queue") \cup {added}
      /\ RedisPut("queue", list, RedisDate)
  BY Zenon DEF Rpush, Save
<1>3. Answered
  <2>1. Length(listed) + 1 = Len(RedisList) + 1
    BY <1>1
  <2>2. Both(Length(listed) + 1, Len(RedisList) + 1)
    BY Zenon DEF Rpush
  <2> QED BY <2>1, <2>2, BothAnswer
<1>4. RedisDate \in Int
  BY <1>1 DEF ListDocs
<1>5. /\ added \in Items /\ added.key = "queue" /\ added.generation = listed.generation
      /\ added.position = listed.head + Len(RedisList) /\ added.value = value /\ added.date = RedisDate
  BY <1>1, <1>4 DEF Items
<1>6. /\ d \in ListDocs /\ d.head = listed.head /\ d.tail = listed.tail + 1 /\ d.date = listed.date
      /\ d.generation = listed.generation
  BY <1>1 DEF ListDocs
<1>7. list \in Seq(Values) /\ Len(list) = Len(RedisList) + 1 /\ list # <<>>
  BY <1>1
<1> HIDE DEF listed, own, added, d
<1>8. Own(items', listed.generation) = own \cup {added}
  BY <1>1, <1>2, <1>5 DEF Own
<1>9. Spells(Own(items', listed.generation), listed.head, list, RedisDate)
  BY <1>1, <1>5, <1>8, OneMoreSpells
<1> HIDE DEF list
<1>10. Holds(d, items', list, RedisDate)
  <2>1. d.tail = d.head + Len(list) - 1
    BY <1>1, <1>6, <1>7
  <2> QED BY <1>1, <1>6, <1>9, <2>1 DEF Holds
<1>11. items' \subseteq Items /\ \A i \in items' : i.generation <= commands + 1
  <2>1. commands \in Nat
    BY DEF StoreInv, StoreTypeOK
  <2> QED BY <1>1, <1>2, <1>5, <2>1
<1>12. Timely(d, now)
  <2>1. ~(listed.date # Never /\ listed.date <= now)
    BY <1>1 DEF Timely
  <2> QED BY <1>6, <2>1, DocumentsAreSome DEF Timely
<1>13. d.generation <= commands + 1
  BY <1>1, <1>6
<1> QED BY <1>2, <1>3, <1>4, <1>7, <1>10, <1>11, <1>12, <1>13, ListStays

\* The list without its first n rows.
Shorter(listed, n) == [listed EXCEPT !.head = @ + n]
Remaining(own, listed, n) == {r \in own : r.position \in (listed.head + n)..listed.tail}
Cut(kept, listed, n) ==
    LET own == Own(kept, listed.generation) IN kept \ (own \ Remaining(own, listed, n))

LEMMA ShorterHolds ==
    ASSUME NEW listed, NEW kept, NEW list, NEW date, Holds(listed, kept, list, date),
           NEW n \in Nat, n < Len(list)
    PROVE  /\ Holds(Shorter(listed, n), Cut(kept, listed, n), SubSeq(list, n + 1, Len(list)), date)
           /\ SubSeq(list, n + 1, Len(list)) # <<>>
           /\ Shorter(listed, n).date = listed.date /\ Shorter(listed, n).generation = listed.generation
<1> DEFINE own == Own(kept, listed.generation)
           sub == SubSeq(list, n + 1, Len(list))
           d == Shorter(listed, n)
           left == Remaining(own, listed, n)
           rest == Cut(kept, listed, n)
<1>1. /\ listed \in ListDocs /\ listed.head \in Int /\ listed.date = date
      /\ listed.tail = listed.head + Len(list) - 1 /\ Spells(own, listed.head, list, date)
      /\ list \in Seq(Values) /\ Len(list) \in Nat
  <2>1. listed \in ListDocs /\ listed.head \in Int
    BY DEF Holds, ListDocs
  <2>2. /\ listed.date = date /\ listed.tail = listed.head + Len(list) - 1
        /\ Spells(own, listed.head, list, date)
    BY DEF Holds
  <2>3. list \in Seq(Values)
    BY <2>2 DEF Spells
  <2> QED BY <2>1, <2>2, <2>3
<1>2. /\ d \in ListDocs /\ d.head = listed.head + n /\ d.tail = listed.tail /\ d.date = listed.date
      /\ d.generation = listed.generation
  BY <1>1 DEF ListDocs, Shorter
<1>3. listed.head + (n + 1) - 1 = listed.head + n
  BY <1>1
<1>4. left = {r \in own : r.position \in
                (listed.head + (n + 1) - 1)..(listed.head + Len(list) - 1)}
  BY <1>1, <1>3 DEF Remaining
<1>5. Own(rest, listed.generation) = left
  BY DEF Own, Cut, Remaining
<1> HIDE DEF own, sub, d, left, rest
<1>6. Spells(left, listed.head + n, sub, date) /\ Len(sub) = Len(list) - n
  <2> DEFINE a == n + 1
             b == Len(list)
  <2>1. a \in Int /\ 1 <= a /\ a <= b + 1 /\ b \in Int /\ b <= Len(list)
    BY <1>1
  <2>2. left = {r \in own : r.position \in (listed.head + a - 1)..(listed.head + b - 1)}
    BY <1>4
  <2>3. sub = SubSeq(list, a, b)
    BY DEF sub
  <2> HIDE DEF a, b
  <2>4. Spells(left, listed.head + a - 1, sub, date) /\ Len(sub) = b - a + 1
    BY <1>1, <2>1, <2>2, <2>3, PartSpells, SMTT(30)
  <2> QED BY <1>1, <1>3, <2>4 DEF a, b
<1>7. d.tail = d.head + Len(sub) - 1
  BY <1>1, <1>2, <1>6
<1>8. Holds(d, rest, sub, date)
  <2>1. d.date = date /\ Spells(Own(rest, d.generation), d.head, sub, date)
    BY <1>1, <1>2, <1>5, <1>6
  <2> QED BY <1>2, <1>7, <2>1 DEF Holds
<1>9. sub # <<>>
  <2>1. Len(sub) # 0
    BY <1>1, <1>6
  <2>2. Len(<<>>) = 0
    OBVIOUS
  <2> QED BY <2>1, <2>2
<1> QED BY <1>2, <1>8, <1>9 DEF sub, d, rest

LEMMA ShorterList ==
    ASSUME StoreInv, Answered, NEW n \in Nat, n < Len(RedisList),
           NEW listed, listed = ListOf("queue"),
           docs' = [docs EXCEPT !["queue"] = Shorter(listed, n)],
           items' = Cut(Kept("queue"), listed, n),
           NEW list, list = SubSeq(RedisList, n + 1, Len(RedisList)),
           RedisPut("queue", list, RedisDate)
    PROVE  StoreInv'
<1> DEFINE d == Shorter(listed, n)
<1>1. /\ listed \in ListDocs /\ listed.date = RedisDate
      /\ listed.generation <= commands + 1
      /\ Timely(listed, now)
      /\ Kept("queue") \subseteq Items
      /\ \A i \in Kept("queue") : i.generation \in Nat /\ i.generation <= commands
  BY RowsAreKnown
<1>2. Holds(listed, Kept("queue"), RedisList, RedisDate)
  BY ListIsKnown
<1>3. /\ Holds(d, items', list, RedisDate) /\ list # <<>>
      /\ d.date = listed.date /\ d.generation = listed.generation
  BY <1>2, ShorterHolds
<1> HIDE DEF d
<1>4. Timely(d, now)
  <2>1. ~(listed.date # Never /\ listed.date <= now)
    BY <1>1 DEF Timely
  <2>2. d \in ListDocs
    BY <1>3 DEF Holds
  <2> QED BY <1>3, <2>1, <2>2, DocumentsAreSome DEF Timely
<1>5. items' \subseteq Items /\ \A i \in items' : i.generation <= commands + 1
  <2>1. commands \in Nat
    BY DEF StoreInv, StoreTypeOK
  <2>2. items' \subseteq Kept("queue")
    BY DEF Cut
  <2> QED BY <1>1, <2>1, <2>2
<1>6. RedisDate \in Int /\ d.generation <= commands + 1
  BY <1>1, <1>3 DEF ListDocs
<1> QED BY <1>3, <1>4, <1>5, <1>6, ListStays DEF d

LEMMA LtrimKeeps ==
    ASSUME StoreInv, NEW n \in 1..2, Ltrim(n) PROVE StoreInv'
<1> DEFINE listed == ListOf("queue")
           own == OwnRows("queue", listed)
           list == SubSeq(RedisList, n + 1, Len(RedisList))
<1>1. /\ Length(listed) = Len(RedisList) /\ RedisList \in Seq(Values) /\ Len(RedisList) \in Nat
      /\ listed.tail \in Int /\ listed.head \in Int
  BY RowsAreKnown
<1>2. Answered
  BY BothAnswer DEF Ltrim
<1>3. RedisPut("queue", list, RedisDate)
  BY DEF Ltrim
<1>4. CASE n >= Len(RedisList)
  <2>1. docs' = [docs EXCEPT !["queue"] = None] /\ items' \subseteq items
    BY <1>1, <1>4 DEF Ltrim, Drop
  <2>2. list = <<>>
    BY <1>1, <1>4
  <2>3. redis' = [redis EXCEPT !["queue"] = None]
    BY <1>3, <2>2 DEF RedisPut
  <2>4. ~Timely(None, now)
    BY DEF Timely
  <2> QED BY <1>2, <2>1, <2>3, <2>4, ListGone
<1>5. CASE ~(n >= Len(RedisList))
  <2>1. /\ docs' = [docs EXCEPT !["queue"] = Shorter(listed, n)]
        /\ items' = Kept("queue") \ (own \ RowsAt("queue", listed, listed.head + n, listed.tail))
    BY <1>1, <1>5 DEF Ltrim, Save, Shorter
  <2>2. items' = Cut(Kept("queue"), listed, n)
    <3>1. own = Own(Kept("queue"), listed.generation)
      BY RowsAreKnown
    <3>2. RowsAt("queue", listed, listed.head + n, listed.tail) = Remaining(own, listed, n)
      BY DEF RowsAt, Remaining
    <3> HIDE DEF own, listed
    <3> QED BY <2>1, <3>1, <3>2 DEF Cut
  <2>3. n \in Nat /\ n < Len(RedisList)
    BY <1>1, <1>5
  <2> HIDE DEF listed, own, list
  <2> QED BY <1>2, <1>3, <2>1, <2>2, <2>3, ShorterList DEF listed, list
<1> QED BY <1>4, <1>5

LEMMA LrangeKeeps ==
    ASSUME StoreInv, NEW n \in 1..2, Lrange(n) PROVE StoreInv'
<1> DEFINE listed == ListOf("queue")
           own == OwnRows("queue", listed)
           size == Min({n, Length(listed)})
           rows == RowsAt("queue", listed, listed.head, listed.head + size - 1)
<1>1. /\ listed.head \in Int /\ Length(listed) = Len(RedisList) /\ RedisList \in Seq(Values)
      /\ Len(RedisList) \in Nat /\ Spells(own, listed.head, RedisList, RedisDate)
  BY RowsAreKnown
<1>2. size = Min({n, Len(RedisList)}) /\ size \in Nat /\ size <= Len(RedisList)
  <2>1. size = IF n <= Len(RedisList) THEN n ELSE Len(RedisList)
    BY <1>1, MinOfTwo
  <2> HIDE DEF listed, size
  <2>2. size = Min({n, Len(RedisList)})
    BY <1>1 DEF size
  <2> QED BY <1>1, <2>1, <2>2
<1>3. rows = {r \in own : r.position \in listed.head..(listed.head + size - 1)}
  BY DEF RowsAt
<1>4. /\ docs' = [docs EXCEPT !["queue"] = Loaded("queue")] /\ items' = Kept("queue")
      /\ redis' = redis
      /\ Both(IF Cardinality(rows) # size THEN <<"inconsistent">> ELSE InOrder(rows),
              SubSeq(RedisList, 1, Min({n, Len(RedisList)})))
  BY Zenon DEF Lrange, Save
<1> HIDE DEF listed, own, size, rows
<1>5. /\ Spells(rows, listed.head, SubSeq(RedisList, 1, size), RedisDate)
      /\ Len(SubSeq(RedisList, 1, size)) = size
  <2>1. listed.head + 1 - 1 = listed.head /\ size - 1 + 1 = size
    BY <1>1, <1>2
  <2>2. rows = {r \in own : r.position \in (listed.head + 1 - 1)..(listed.head + size - 1)}
    BY <1>3, <2>1
  <2>3. /\ Spells(rows, listed.head + 1 - 1, SubSeq(RedisList, 1, size), RedisDate)
        /\ Len(SubSeq(RedisList, 1, size)) = size - 1 + 1
    <3>1. 1 \in Int /\ size \in Int /\ 1 <= 1 /\ 1 <= size + 1 /\ size <= Len(RedisList)
      BY <1>2
    <3> HIDE DEF size
    <3> QED BY <1>1, <2>2, <3>1, PartSpells
  <2> QED BY <2>1, <2>3
<1>6. Cardinality(rows) = size /\ InOrder(rows) = SubSeq(RedisList, 1, size)
  BY <1>1, <1>5, SpellsCounts, SpellsInOrder
<1>7. Answered
  BY <1>2, <1>4, <1>6, BothAnswer
<1> QED BY <1>4, <1>7, ListRead

LEMMA LpopKeeps ==
    ASSUME StoreInv, Lpop PROVE StoreInv'
<1> DEFINE listed == ListOf("queue")
           own == OwnRows("queue", listed)
           rows == RowsAt("queue", listed, listed.head, listed.head)
<1>1. /\ listed.head \in Int /\ listed.tail \in Int /\ Length(listed) = Len(RedisList)
      /\ RedisList \in Seq(Values) /\ listed.tail = listed.head + Len(RedisList) - 1
      /\ Len(RedisList) \in Nat /\ Spells(own, listed.head, RedisList, RedisDate)
  BY RowsAreKnown
<1>2. rows = {r \in own : r.position \in listed.head..listed.head}
  BY DEF RowsAt
<1>3. Both(IF Length(listed) > 0 /\ rows = {} THEN <<"inconsistent">> ELSE InOrder(rows),
           SubSeq(RedisList, 1, Min({1, Len(RedisList)})))
  BY Zenon DEF Lpop
<1>4. CASE Len(RedisList) = 0
  <2>1. docs' = [docs EXCEPT !["queue"] = Loaded("queue")] /\ items' = Kept("queue")
    BY <1>1, <1>4 DEF Lpop, Save
  <2>2. RedisList = <<>> /\ redis' = redis
    BY <1>1, <1>4 DEF Lpop
  <2> HIDE DEF listed, own, rows
  <2>3. rows = {}
    <3>1. \A r \in own : r.position \in listed.head..(listed.head + 0 - 1)
      BY <1>1, <1>4 DEF Spells
    <3> QED BY <1>1, <1>2, <3>1
  <2>4. InOrder(rows) = <<>>
    BY <1>1, <2>3, NothingSpellsNothing, SpellsInOrder
  <2>5. SubSeq(RedisList, 1, Min({1, Len(RedisList)})) = <<>>
    <3>1. Min({1, Len(RedisList)}) = 0
      BY <1>4, MinOfTwo
    <3> QED BY <1>1, <3>1
  <2>6. Answered
    <3>1. ~(Length(listed) > 0 /\ rows = {})
      BY <1>1, <1>4
    <3> QED BY <1>3, <2>4, <2>5, <3>1, BothAnswer
  <2> QED BY <2>1, <2>2, <2>6, ListRead
<1>5. CASE Len(RedisList) > 0
  <2>1. /\ Spells(rows, listed.head, SubSeq(RedisList, 1, 1), RedisDate)
        /\ Len(SubSeq(RedisList, 1, 1)) = 1
    <3> HIDE DEF listed, own, rows
    <3>1. listed.head + 1 - 1 = listed.head
      BY <1>1
    <3>2. rows = {r \in own : r.position \in (listed.head + 1 - 1)..(listed.head + 1 - 1)}
      BY <1>2, <3>1
    <3>3. 1 \in Int /\ 1 <= 1 /\ 1 <= 1 + 1 /\ 1 <= Len(RedisList) /\ 1 - 1 + 1 = 1
      BY <1>1, <1>5
    <3> QED BY <1>1, <3>1, <3>2, <3>3, PartSpells
  <2>2. Cardinality(rows) = 1 /\ IsFiniteSet(rows) /\ InOrder(rows) = SubSeq(RedisList, 1, 1)
    <3> HIDE DEF listed, own, rows
    <3> QED BY <1>1, <2>1, SpellsCounts, SpellsInOrder
  <2>3. rows # {}
    <3> HIDE DEF rows
    <3> QED BY <2>2, FS_EmptySet
  <2>4. Answered
    <3>1. Min({1, Len(RedisList)}) = 1
      BY <1>1, <1>5, MinOfTwo
    <3> HIDE DEF rows
    <3> QED BY <1>3, <2>2, <2>3, <3>1, BothAnswer
  <2>5. RedisList # <<>> /\ RedisPut("queue", Tail(RedisList), RedisDate)
    BY <1>1, <1>5 DEF Lpop
  <2>6. Tail(RedisList) = SubSeq(RedisList, 1 + 1, Len(RedisList))
    BY <1>1, <1>5
  <2>7. CASE Len(RedisList) = 1
    <3>1. docs' = [docs EXCEPT !["queue"] = None] /\ items' \subseteq items
      BY <1>1, <2>7 DEF Lpop, Drop
    <3>2. redis' = [redis EXCEPT !["queue"] = None]
      <4>1. Tail(RedisList) = <<>>
        <5>1. SubSeq(RedisList, 2, Len(RedisList)) = <<>>
          BY <1>1, <2>7
        <5> QED BY <2>6, <5>1
      <4> QED BY <2>5, <4>1 DEF RedisPut
    <3>3. ~Timely(None, now)
      BY DEF Timely
    <3> QED BY <2>4, <3>1, <3>2, <3>3, ListGone
  <2>8. CASE Len(RedisList) # 1
    <3>1. /\ docs' = [docs EXCEPT !["queue"] = Shorter(listed, 1)]
          /\ items' = Kept("queue") \ rows
      BY <1>1, <1>5, <2>8 DEF Lpop, Save, Shorter
    <3>2. rows = own \ Remaining(own, listed, 1)
      <4>1. \A r \in own : r.position \in listed.head..listed.tail
        BY <1>1 DEF Spells
      <4> HIDE DEF listed, own, rows
      <4> QED BY <1>1, <1>2, <4>1 DEF Remaining
    <3>3. 1 \in Nat /\ 1 < Len(RedisList)
      BY <1>1, <1>5, <2>8
    <3>4. own = Own(Kept("queue"), listed.generation)
      BY RowsAreKnown
    <3> HIDE DEF listed, own, rows
    <3>5. items' = Cut(Kept("queue"), listed, 1)
      BY <3>1, <3>2, <3>4 DEF Cut
    <3> QED BY <2>4, <2>5, <2>6, <3>1, <3>3, <3>5, ShorterList DEF listed
  <2> QED BY <2>7, <2>8
<1> QED BY <1>1, <1>4, <1>5

-----------------------------------------------------------------------------
(* Time, the TTL index, and the whole                                      *)

LEMMA ClockKeeps ==
    ASSUME StoreInv, Clock PROVE StoreInv'
<1>1. /\ now' = now + 1 /\ now \in Nat /\ commands' = commands /\ answers' = answers
      /\ docs' = docs /\ redis' = redis /\ items' = items
  BY DEF Clock, StoreInv, StoreTypeOK
<1>2. \A x \in LockDocs \cup ListDocs \cup RedisLists \cup {None} :
        Timely(x, now + 1) => Timely(x, now)
  <2>1. \A x \in LockDocs \cup ListDocs \cup RedisLists : x.date \in Int
    BY DEF LockDocs, ListDocs, RedisLists
  <2> QED BY <1>1, <2>1 DEF Timely
<1>3. /\ docs["lock"] \in LockDocs \cup {None} /\ redis["lock"] \in LockDocs \cup {None}
      /\ docs["queue"] \in ListDocs \cup {None} /\ redis["queue"] \in RedisLists \cup {None}
  BY DEF StoreInv, StoreTypeOK
<1>4. Current(docs'["lock"], now') = Current(redis'["lock"], now')
  <2>1. Current(docs["lock"], now) = Current(redis["lock"], now)
    BY DEF StoreInv
  <2>2. \/ docs["lock"] = redis["lock"]
        \/ ~Timely(docs["lock"], now) /\ ~Timely(redis["lock"], now)
    BY <1>3, <2>1, DocumentsAreSome DEF Current, Timely
  <2> QED BY <1>1, <1>2, <1>3, <2>2 DEF Current
<1>5. QueueAgrees(docs'["queue"], items', redis'["queue"], now')
  <2> DEFINE d == docs["queue"]
             r == redis["queue"]
  <2>1. QueueAgrees(d, items, r, now)
    BY DEF StoreInv
  <2>2. Timely(d, now) => d.date = r.date
    BY <2>1 DEF QueueAgrees, Holds
  <2>3. Timely(d, now) <=> Timely(r, now)
    BY <2>1 DEF QueueAgrees
  <2>4. Timely(d, now + 1) <=> Timely(r, now + 1)
    BY <1>2, <1>3, <2>2, <2>3 DEF Timely
  <2>5. Timely(d, now + 1) => Timely(d, now)
    BY <1>2, <1>3
  <2> HIDE DEF d, r
  <2>6. QueueAgrees(d, items, r, now + 1)
    BY <2>1, <2>4, <2>5 DEF QueueAgrees
  <2> QED BY <1>1, <2>6 DEF d, r
<1>6. StoreTypeOK'
  <2>1. now' \in Nat
    BY <1>1
  <2> QED BY <1>1, <2>1 DEF StoreInv, StoreTypeOK
<1> QED BY <1>1, <1>4, <1>5, <1>6 DEF StoreInv

LEMMA PurgeDocumentKeeps ==
    ASSUME StoreInv, NEW k \in Keys, PurgeDocument(k) PROVE StoreInv'
<1>1. /\ now' = now /\ commands' = commands /\ answers' = answers /\ redis' = redis
      /\ items' = items /\ docs' = [docs EXCEPT ![k] = None] /\ ~Timely(docs[k], now)
  BY DEF PurgeDocument, Save, Timely, Overdue
<1>2. k = "lock" \/ k = "queue"
  BY DEF Keys
<1>3. /\ docs'["lock"] = (IF k = "lock" THEN None ELSE docs["lock"])
      /\ docs'["queue"] = (IF k = "queue" THEN None ELSE docs["queue"])
  BY <1>1, <1>2 DEF StoreInv, StoreTypeOK, Keys
<1>4. ~Timely(None, now)
  BY DEF Timely
<1>5. Current(docs'["lock"], now') = Current(redis'["lock"], now')
  <2>1. Current(docs["lock"], now) = Current(redis["lock"], now)
    BY DEF StoreInv
  <2> QED BY <1>1, <1>3, <1>4, <2>1 DEF Current
<1>6. QueueAgrees(docs'["queue"], items', redis'["queue"], now')
  <2>1. QueueAgrees(docs["queue"], items, redis["queue"], now)
    BY DEF StoreInv
  <2> QED BY <1>1, <1>3, <1>4, <2>1 DEF QueueAgrees
<1>7. StoreTypeOK'
  <2>1. docs' \in [Keys -> LockDocs \cup ListDocs \cup {None}]
    BY <1>1 DEF StoreInv, StoreTypeOK
  <2>2. docs'["lock"] \in LockDocs \cup {None} /\ docs'["queue"] \in ListDocs \cup {None}
    BY <1>3 DEF StoreInv, StoreTypeOK
  <2> QED BY <1>1, <2>1, <2>2 DEF StoreInv, StoreTypeOK
<1>8. docs'["queue"] # None => docs'["queue"].generation <= commands'
  BY <1>1, <1>3 DEF StoreInv
<1> QED BY <1>1, <1>5, <1>6, <1>7, <1>8 DEF StoreInv

\* An overdue item is not one of a list that is there: those have its date.
LEMMA PurgeItemKeeps ==
    ASSUME StoreInv, PurgeItem PROVE StoreInv'
<1>1. PICK i \in items : Overdue(i.date) /\ items' = items \ {i}
  BY DEF PurgeItem
<1>2. /\ now' = now /\ commands' = commands /\ answers' = answers /\ redis' = redis
      /\ docs' = docs
  BY DEF PurgeItem
<1>3. QueueAgrees(docs["queue"], items, redis["queue"], now)
  BY DEF StoreInv
<1>4. QueueAgrees(docs["queue"], items', redis["queue"], now)
  <2> DEFINE d == docs["queue"]
             r == redis["queue"]
  <2>1. ASSUME Timely(d, now) PROVE Own(items', d.generation) = Own(items, d.generation)
    <3>1. /\ Spells(Own(items, d.generation), d.head, r.list, r.date) /\ d.date = r.date
      BY <1>3, <2>1 DEF QueueAgrees, Holds
    <3>2. i \in Own(items, d.generation) => i.date = d.date
      BY <3>1 DEF Spells
    <3>3. ~Overdue(d.date)
      BY <2>1 DEF Timely, Overdue
    <3> HIDE DEF d
    <3> QED BY <1>1, <3>2, <3>3 DEF Own
  <2> HIDE DEF d, r
  <2>2. QueueAgrees(d, items, r, now)
    BY <1>3 DEF d, r
  <2>3. QueueAgrees(d, items', r, now)
    BY <2>1, <2>2 DEF QueueAgrees, Holds
  <2> QED BY <2>3 DEF d, r
<1>5. StoreTypeOK'
  <2>1. items' \subseteq Items
    BY <1>1 DEF StoreInv, StoreTypeOK
  <2> QED BY <1>2, <2>1 DEF StoreInv, StoreTypeOK
<1> QED BY <1>1, <1>2, <1>4, <1>5 DEF StoreInv

LEMMA StoreInvHolds == StoreSpec => []StoreInv
<1>1. StoreInit => StoreInv
  <2> SUFFICES ASSUME StoreInit PROVE StoreInv
    OBVIOUS
  <2>1. /\ docs["lock"] = None /\ docs["queue"] = None /\ redis["lock"] = None
        /\ redis["queue"] = None /\ items = {} /\ now = 0 /\ commands = 0
        /\ answers.mongo = answers.redis
    BY DEF StoreInit, Keys
  <2>2. StoreTypeOK
    <3>1. docs \in [Keys -> LockDocs \cup ListDocs \cup {None}]
      BY DEF StoreInit
    <3>2. redis \in [Keys -> LockDocs \cup RedisLists \cup {None}]
      BY DEF StoreInit
    <3> QED BY <2>1, <3>1, <3>2 DEF StoreTypeOK
  <2>3. QueueAgrees(None, items, None, now)
    BY DEF QueueAgrees, Timely
  <2> QED BY <2>1, <2>2, <2>3 DEF StoreInv
<1>2. StoreInv /\ [StoreNext]_storeVars => StoreInv'
  <2> SUFFICES ASSUME StoreInv, [StoreNext]_storeVars PROVE StoreInv'
    OBVIOUS
  <2>1. CASE UNCHANGED storeVars
    BY <2>1 DEF storeVars, StoreInv, StoreTypeOK
  <2>2. ASSUME NEW value \in {"x", "y"}, Rpush(value) PROVE StoreInv'
    BY <2>2, RpushKeeps DEF Values
  <2> QED BY <2>1, <2>2, SetNxKeeps, GetKeeps, IncrKeeps, LpopKeeps, ClockKeeps,
             PurgeItemKeeps, DelKeeps, ExpireKeeps, TtlKeeps, PurgeDocumentKeeps,
             LrangeKeeps, LtrimKeeps DEF StoreNext
<1> QED BY <1>1, <1>2, PTL DEF StoreSpec

\* redis/mongo.ts: for every number of commands and however late the TTL index
\* is, MongoDB answers every command as Redis would and holds the same lock and
\* the same list, its items in order, with the same date.
THEOREM StoreAlwaysAgrees == StoreSpec => []StoreAgrees
<1>1. StoreInv => StoreAgrees
  <2> SUFFICES ASSUME StoreInv PROVE StoreAgrees
    OBVIOUS
  <2> DEFINE listed == ListOf("queue")
             rows == OwnRows("queue", listed)
  <2>1. answers.mongo = answers.redis /\ Loaded("lock") = RedisGet("lock")
    BY LockIsKnown DEF StoreInv
  <2>2. /\ listed.head \in Int /\ listed.date = RedisDate /\ Length(listed) = Len(RedisList)
        /\ Spells(rows, listed.head, RedisList, RedisDate)
    BY RowsAreKnown
  <2>3. InOrder(rows) = RedisList /\ Cardinality(rows) = Len(RedisList)
    <3> HIDE DEF listed, rows
    <3> QED BY <2>2, SpellsCounts, SpellsInOrder
  <2>4. Loaded("queue") # None => listed = Loaded("queue")
    BY ListIsKnown
  <2> QED BY <2>1, <2>2, <2>3, <2>4 DEF StoreAgrees
<1> QED BY <1>1, StoreInvHolds, PTL

(***************************************************************************)
(* ScriptTwins.  A script in Lua is one step; its twin is several, with    *)
(* the steps of others between them.  So the proof says of a running twin  *)
(* what is still to come: which commands it will give on the store it      *)
(* finds, whatever replies it gets, and that the last leaves what the Lua  *)
(* script leaves and answers what it answers.                              *)
(*                                                                         *)
(* For most scripts nothing comes between (Alone): the whole run is known  *)
(* once it begins.  A request may leave while another is admitted (Admits) *)
(* and a row may join the buffer, or somebody ask for its lock, while the  *)
(* lock's owner frees it (Unlocks); there each stage of the twin says how  *)
(* the two stores differ, and what comes between keeps to the stage.       *)
(*                                                                         *)
(* The queue is what makes this true: only its head is at work, and        *)
(* between scripts the two stores hold the same.                           *)
(***************************************************************************)
-----------------------------------------------------------------------------
(* Stores, entry by entry.                                                 *)

IsEntry(e) == e = [type |-> e.type, is |-> e.is, date |-> e.date] /\ e.date \in Int
IsStore(s) == s = [k \in StoreKeys |-> s[k]] /\ \A k \in StoreKeys : IsEntry(s[k])
Entry(type, is, date) == [type |-> type, is |-> is, date |-> date]
Lasts(date) == date \in Int /\ (date = Forever \/ date > clock)

LEMMA EntryIs ==
    ASSUME NEW type, NEW is, NEW date
    PROVE  /\ Entry(type, is, date).type = type /\ Entry(type, is, date).is = is
           /\ Entry(type, is, date).date = date
           /\ date \in Int => IsEntry(Entry(type, is, date))
           /\ type # "gone" => Entry(type, is, date) # NoEntry
BY DEF Entry, IsEntry, NoEntry

LEMMA NoEntryIs == IsEntry(NoEntry) /\ NoEntry.type = "gone" /\ NoEntry.is = Nil /\ NoEntry.date = Forever
BY DEF IsEntry, NoEntry, Forever

\* What is there is as it was put, and not past its date.
LEMMA LiveIs ==
    ASSUME NEW s, IsStore(s), NEW k \in StoreKeys, clock \in Int
    PROVE  /\ IsEntry(Live(s, k)) /\ Lasts(Live(s, k).date)
           /\ Live(s, k) \in {NoEntry, s[k]}
<1>1. IsEntry(s[k])
  BY DEF IsStore
<1>2. CASE s[k].date # Forever /\ s[k].date <= clock
  BY <1>2, NoEntryIs DEF Live, Lasts, Forever
<1>3. CASE ~(s[k].date # Forever /\ s[k].date <= clock)
  BY <1>1, <1>3 DEF Live, Lasts, IsEntry
<1> QED BY <1>2, <1>3

LEMMA SetIs ==
    ASSUME NEW s, IsStore(s), NEW k \in StoreKeys, NEW type, NEW is, NEW date \in Int
    PROVE  /\ IsStore(Set(s, k, type, is, date))
           /\ Set(s, k, type, is, date)[k] = Entry(type, is, date)
           /\ \A j \in StoreKeys : j # k => Set(s, k, type, is, date)[j] = s[j]
<1> DEFINE t == Set(s, k, type, is, date)
<1>1. t = [j \in StoreKeys |-> IF j = k THEN Entry(type, is, date) ELSE s[j]]
  BY DEF IsStore, Set, Entry
<1> HIDE DEF t
<1>2. \A j \in StoreKeys : IsEntry(t[j])
  BY <1>1, EntryIs DEF IsStore
<1>3. IsStore(t)
  BY <1>1, <1>2 DEF IsStore
<1> QED BY <1>1, <1>3 DEF t

LEMMA LiveSet ==
    ASSUME NEW s, IsStore(s), NEW k \in StoreKeys, NEW type, NEW is, NEW date, Lasts(date), clock \in Int
    PROVE  /\ Live(Set(s, k, type, is, date), k) = Entry(type, is, date)
           /\ \A j \in StoreKeys : j # k => Live(Set(s, k, type, is, date), j) = Live(s, j)
<1> DEFINE t == Set(s, k, type, is, date)
<1>1. t[k] = Entry(type, is, date) /\ \A j \in StoreKeys : j # k => t[j] = s[j]
  BY SetIs DEF Lasts
<1>2. t[k].date = date
  BY <1>1, EntryIs
<1> HIDE DEF t
<1>3. Live(t, k) = Entry(type, is, date)
  BY <1>1, <1>2 DEF Live, Lasts
<1>4. \A j \in StoreKeys : j # k => Live(t, j) = Live(s, j)
  BY <1>1 DEF Live
<1> QED BY <1>3, <1>4 DEF t

\* The last of two writes to a key counts.
LEMMA SetTwice ==
    ASSUME NEW s, IsStore(s), NEW k \in StoreKeys, NEW type, NEW is, NEW date, NEW was, NEW had, NEW on
    PROVE  Set(Set(s, k, was, had, on), k, type, is, date) = Set(s, k, type, is, date)
BY DEF IsStore, Set

LEMMA DatedAnew ==
    ASSUME NEW s, IsStore(s), NEW k \in StoreKeys, NEW type, NEW is, NEW date, NEW anew
    PROVE  [Set(s, k, type, is, date) EXCEPT ![k].date = anew] = Set(s, k, type, is, anew)
<1> DEFINE t == Set(s, k, type, is, date)
<1>1. t = [j \in StoreKeys |-> IF j = k THEN Entry(type, is, date) ELSE s[j]]
  BY DEF IsStore, Set, Entry
<1>2. Set(s, k, type, is, anew) = [j \in StoreKeys |-> IF j = k THEN Entry(type, is, anew) ELSE s[j]]
  BY DEF IsStore, Set, Entry
<1>3. [Entry(type, is, date) EXCEPT !.date = anew] = Entry(type, is, anew)
  BY DEF Entry
<1> HIDE DEF t
<1>4. [t EXCEPT ![k].date = anew] = [j \in StoreKeys |-> IF j = k THEN Entry(type, is, anew) ELSE s[j]]
  BY <1>1, <1>3
<1> QED BY <1>2, <1>4 DEF t

-----------------------------------------------------------------------------
(* Commands.                                                               *)

LEMMA GetDoes ==
    ASSUME NEW s, NEW k
    PROVE  TwinCommand(s, <<"GET", k>>) = Reply(Value(s, k), s)
BY DEF TwinCommand, Strings, Value

LEMMA IncrByDoes ==
    ASSUME NEW s, NEW k, NEW n
    PROVE  TwinCommand(s, <<"INCRBY", k, n>>) = Reply(Or(Value(s, k), 0) + n, Add(s, k, n))
BY DEF TwinCommand, Strings, Value, Add, Set, Rewritten

LEMMA ExistsDoes ==
    ASSUME NEW s, NEW k
    PROVE  TwinCommand(s, <<"EXISTS", k>>) = Reply(IF Live(s, k) = NoEntry THEN 0 ELSE 1, s)
BY DEF TwinCommand, Keyspace

LEMMA TtlDoes ==
    ASSUME NEW s, NEW k
    PROVE  TwinCommand(s, <<"TTL", k>>) =
             Reply(CASE Live(s, k) = NoEntry -> -2
                     [] Live(s, k).date = Forever -> -1
                     [] OTHER -> s[k].date - clock, s)
BY DEF TwinCommand, Keyspace

\* EXPIRE of what was just written.
LEMMA ExpireDoes ==
    ASSUME NEW s, IsStore(s), NEW k \in StoreKeys, NEW type, type # "gone", NEW is, NEW date, Lasts(date),
           NEW life, clock \in Int
    PROVE  TwinCommand(Set(s, k, type, is, date), <<"EXPIRE", k, life>>) =
             Reply(1, Set(s, k, type, is, clock + life))
<1> DEFINE t == Set(s, k, type, is, date)
<1>1. Live(t, k) # NoEntry
  BY LiveSet, EntryIs
<1>2. [t EXCEPT ![k].date = clock + life] = Set(s, k, type, is, clock + life)
  BY DatedAnew
<1> HIDE DEF t
<1>3. TwinCommand(t, <<"EXPIRE", k, life>>) = Reply(1, [t EXCEPT ![k].date = clock + life])
  BY <1>1 DEF TwinCommand, Keyspace
<1> QED BY <1>2, <1>3 DEF t

LEMMA HSetDoes ==
    ASSUME NEW s, NEW k, NEW fields
    PROVE  TwinCommand(s, <<"HSET", k, fields>>) =
             Reply(0, Set(s, k, "hash", Merged(fields, Hash(s, k)), Live(s, k).date))
BY DEF TwinCommand, Hashes, Set, Rewritten

LEMMA HGetDoes ==
    ASSUME NEW s, NEW k, NEW f
    PROVE  TwinCommand(s, <<"HGET", k, f>>) = Reply(Hashed(s, k, f), s)
BY DEF TwinCommand, Hashes, Hashed

LEMMA HMGetDoes ==
    ASSUME NEW s, NEW k, NEW f, NEW g
    PROVE  \E h : /\ TwinCommand(s, <<"HMGET", k, <<f, g>>>>) = Reply(h, s)
                  /\ h[1] = Hashed(s, k, f) /\ h[2] = Hashed(s, k, g)
<1> DEFINE h == [n \in DOMAIN <<f, g>> |-> Field(Hash(s, k), <<f, g>>[n])]
<1>1. TwinCommand(s, <<"HMGET", k, <<f, g>>>>) = Reply(h, s)
  BY DEF TwinCommand, Hashes
<1>2. h[1] = Hashed(s, k, f) /\ h[2] = Hashed(s, k, g)
  BY DEF Hashed
<1> QED BY <1>1, <1>2

LEMMA HIncrByDoes ==
    ASSUME NEW s, NEW k, NEW f, NEW n
    PROVE  TwinCommand(s, <<"HINCRBY", k, f, n>>) =
             Reply(Or(Hashed(s, k, f), 0) + n,
                   Set(s, k, "hash", Merged(One(f, Or(Hashed(s, k, f), 0) + n), Hash(s, k)), Live(s, k).date))
BY DEF TwinCommand, Hashes, Set, Rewritten, Hashed

LEMMA RPushDoes ==
    ASSUME NEW s, NEW k, NEW x
    PROVE  TwinCommand(s, <<"RPUSH", k, x>>) =
             Reply(Len(Held(s, k, <<>>)) + 1, Set(s, k, "list", Append(Held(s, k, <<>>), x), Live(s, k).date))
BY DEF TwinCommand, Lists, Set, Rewritten

LEMMA ReplyIs == \A x, s : Reply(x, s).answer = x /\ Reply(x, s).store = s
BY DEF Reply

\* HSET and EXPIRE write a hash with a date.
LEMMA HSetExpires ==
    ASSUME NEW s, IsStore(s), NEW k \in StoreKeys, NEW fields, NEW life, clock \in Int
    PROVE  /\ TwinCommand(s, <<"HSET", k, fields>>).answer = 0
           /\ TwinCommand(TwinCommand(s, <<"HSET", k, fields>>).store, <<"EXPIRE", k, life>>) =
                Reply(1, Write(s, k, fields, life))
<1>1. Lasts(Live(s, k).date)
  BY LiveIs
<1>2. /\ TwinCommand(s, <<"HSET", k, fields>>).answer = 0
      /\ TwinCommand(s, <<"HSET", k, fields>>).store =
           Set(s, k, "hash", Merged(fields, Hash(s, k)), Live(s, k).date)
  BY HSetDoes, ReplyIs
<1> QED BY <1>1, <1>2, ExpireDoes DEF Write

-----------------------------------------------------------------------------
(* What a twin comes to: the commands it still gives, one after the other, and *)
(* where they lead.                                                         *)

Stand(r, s) == [r |-> r, s |-> s]
After(a, p) ==
    LET done == TwinCommand(p.s, Twin(a, p.r).is)
    IN  Stand(Append(p.r, done.answer), done.store)
Trace(a, n, tr) == \A i \in 0..(n - 1) : Twin(a, tr[i].r).next = "command" /\ tr[i + 1] = After(a, tr[i])
Ends(a, r, s, answer, last) ==
    \E n \in Nat : \E tr :
        /\ tr[0] = Stand(r, s) /\ Trace(a, n, tr)
        /\ Twin(a, tr[n].r) = Finished(answer) /\ tr[n].s = last

LEMMA NextIs ==
    \A x : /\ Do(x).next = "command" /\ Do(x).is = x
           /\ Finished(x).next = "done" /\ Finished(x).is = x
           /\ \A s : Stand(x, s).r = x /\ Stand(x, s).s = s
BY DEF Do, Finished, Stand

LEMMA EndsDone ==
    ASSUME NEW a, NEW r, NEW s, NEW answer, Twin(a, r) = Finished(answer)
    PROVE  Ends(a, r, s, answer, s)
<1> DEFINE tr == [i \in Nat |-> Stand(r, s)]
<1>1. tr[0] = Stand(r, s) /\ tr[0].r = r /\ tr[0].s = s
  BY NextIs
<1>2. Trace(a, 0, tr)
  BY DEF Trace
<1> HIDE DEF tr
<1> QED BY <1>1, <1>2 DEF Ends

LEMMA EndsMore ==
    ASSUME NEW a, NEW r, NEW s, NEW answer, NEW last, NEW c, NEW x, NEW t,
           Twin(a, r) = Do(c), TwinCommand(s, c) = Reply(x, t), Ends(a, Append(r, x), t, answer, last)
    PROVE  Ends(a, r, s, answer, last)
<1>1. PICK n \in Nat : \E tr :
        /\ tr[0] = Stand(Append(r, x), t) /\ Trace(a, n, tr)
        /\ Twin(a, tr[n].r) = Finished(answer) /\ tr[n].s = last
  BY DEF Ends
<1>2. PICK tr :
        /\ tr[0] = Stand(Append(r, x), t) /\ Trace(a, n, tr)
        /\ Twin(a, tr[n].r) = Finished(answer) /\ tr[n].s = last
  BY <1>1
<1> DEFINE all == [i \in Nat |-> IF i = 0 THEN Stand(r, s) ELSE tr[i - 1]]
<1>3. all[0] = Stand(r, s) /\ \A i \in Nat : all[i + 1] = tr[i]
  OBVIOUS
<1> HIDE DEF all
<1>4. Twin(a, all[0].r).next = "command" /\ all[1] = After(a, all[0])
  <2>1. all[0].r = r /\ all[0].s = s
    BY <1>3, NextIs
  <2>2. Twin(a, r).next = "command" /\ Twin(a, r).is = c
    BY NextIs
  <2>3. After(a, all[0]) = Stand(Append(r, x), t)
    BY <2>1, <2>2, ReplyIs DEF After
  <2>4. all[1] = tr[0]
    BY <1>3
  <2> QED BY <1>2, <2>1, <2>2, <2>3, <2>4
<1>5. Trace(a, n + 1, all)
  <2> SUFFICES ASSUME NEW i \in 0..n
               PROVE  Twin(a, all[i].r).next = "command" /\ all[i + 1] = After(a, all[i])
    BY DEF Trace
  <2>1. CASE i = 0
    BY <2>1, <1>4
  <2>2. CASE i # 0
    <3>1. i - 1 \in 0..(n - 1) /\ i - 1 \in Nat /\ (i - 1) + 1 = i /\ i \in Nat
      BY <2>2
    <3>2. all[i] = tr[i - 1] /\ all[i + 1] = tr[i]
      BY <1>3, <3>1
    <3>3. Twin(a, tr[i - 1].r).next = "command" /\ tr[(i - 1) + 1] = After(a, tr[i - 1])
      BY <1>2, <3>1 DEF Trace
    <3> QED BY <3>1, <3>2, <3>3
  <2> QED BY <2>1, <2>2
<1>6. all[n + 1] = tr[n] /\ n + 1 \in Nat
  BY <1>3
<1> QED BY <1>2, <1>3, <1>5, <1>6 DEF Ends

LEMMA EndsNow ==
    ASSUME NEW a, NEW r, NEW s, NEW answer, NEW last, Ends(a, r, s, answer, last), Twin(a, r).next = "done"
    PROVE  Twin(a, r).is = answer /\ s = last
<1>1. PICK n \in Nat : \E tr :
        /\ tr[0] = Stand(r, s) /\ Trace(a, n, tr)
        /\ Twin(a, tr[n].r) = Finished(answer) /\ tr[n].s = last
  BY DEF Ends
<1>2. PICK tr :
        /\ tr[0] = Stand(r, s) /\ Trace(a, n, tr)
        /\ Twin(a, tr[n].r) = Finished(answer) /\ tr[n].s = last
  BY <1>1
<1>3. n = 0
  <2>1. n # 0 => Twin(a, tr[0].r).next = "command"
    BY <1>2 DEF Trace
  <2>2. tr[0].r = r
    BY <1>2, NextIs
  <2> QED BY <2>1, <2>2
<1> QED BY <1>2, <1>3, NextIs

LEMMA EndsStep ==
    ASSUME NEW a, NEW r, NEW s, NEW answer, NEW last, Ends(a, r, s, answer, last), Twin(a, r).next = "command"
    PROVE  LET done == TwinCommand(s, Twin(a, r).is)
           IN  Ends(a, Append(r, done.answer), done.store, answer, last)
<1> DEFINE done == TwinCommand(s, Twin(a, r).is)
<1>1. PICK n \in Nat : \E tr :
        /\ tr[0] = Stand(r, s) /\ Trace(a, n, tr)
        /\ Twin(a, tr[n].r) = Finished(answer) /\ tr[n].s = last
  BY DEF Ends
<1>2. PICK tr :
        /\ tr[0] = Stand(r, s) /\ Trace(a, n, tr)
        /\ Twin(a, tr[n].r) = Finished(answer) /\ tr[n].s = last
  BY <1>1
<1>3. n # 0
  <2>1. tr[0].r = r
    BY <1>2, NextIs
  <2>2. Finished(answer).next = "done"
    BY NextIs
  <2> QED BY <1>2, <2>1, <2>2
<1> DEFINE rest == [i \in Nat |-> tr[i + 1]]
<1>4. \A i \in Nat : rest[i] = tr[i + 1]
  OBVIOUS
<1>5. rest[0] = Stand(Append(r, done.answer), done.store)
  <2>1. rest[0] = tr[1]
    BY <1>4
  <2>2. tr[0 + 1] = After(a, tr[0])
    BY <1>2, <1>3 DEF Trace
  <2>3. tr[0].r = r /\ tr[0].s = s
    BY <1>2, NextIs
  <2> QED BY <2>1, <2>2, <2>3 DEF After
<1> HIDE DEF rest
<1>6. Trace(a, n - 1, rest)
  <2> SUFFICES ASSUME NEW i \in 0..((n - 1) - 1)
               PROVE  Twin(a, rest[i].r).next = "command" /\ rest[i + 1] = After(a, rest[i])
    BY DEF Trace
  <2>1. i \in Nat /\ i + 1 \in 0..(n - 1) /\ i + 1 \in Nat
    OBVIOUS
  <2>2. rest[i] = tr[i + 1] /\ rest[i + 1] = tr[(i + 1) + 1]
    BY <1>4, <2>1
  <2>3. Twin(a, tr[i + 1].r).next = "command" /\ tr[(i + 1) + 1] = After(a, tr[i + 1])
    BY <1>2, <2>1 DEF Trace
  <2> QED BY <2>2, <2>3
<1>7. n - 1 \in Nat /\ rest[n - 1] = tr[n]
  BY <1>3, <1>4
<1> HIDE DEF done
<1>8. Ends(a, Append(r, done.answer), done.store, answer, last)
  BY <1>2, <1>5, <1>6, <1>7 DEF Ends
<1> QED BY <1>8 DEF done

-----------------------------------------------------------------------------
(* Two stores that hold the same.                                           *)

\* An empty list or set is no key.
Emptied(e) == e.type \in {"list", "zset"} /\ DOMAIN e.is = {}
Visible(e) == IF Emptied(e) THEN NoEntry ELSE e
Emptiable == {"successes", "inflight", "buffer"}

Replies(r, n) == n \in Nat /\ Len(r) = n /\ r = [i \in 1..n |-> r[i]]

\* Entries of keys that are never left empty.
Fits(k, e) ==
    e = NoEntry \/
    /\ ~Emptied(e)
    /\ k = "bucket" => \A f \in {"tokens", "ts"} : Field(e.is, f) \in Int \cup {Nil}
    /\ k = "window" => e.is \in Nat \ {0}
    /\ k \in {"user", "token"} => e.is \in Int
    /\ k = "journal" => Replies(e.is, Len(e.is))
    /\ k = "ledger" /\ Field(e.is, "state") = "open" =>
         Field(e.is, "amount") \in Int /\ Field(e.is, "unlimited") \in BOOLEAN

\* Entries of keys that are.
FitsEmptiable(k, e) ==
    e = NoEntry \/
    /\ e.type = IF k = "buffer" THEN "list" ELSE "zset"
    /\ k = "buffer" => e.is \in Seq(Nat) /\ e.date = Forever
    /\ k # "buffer" => e.is = [m \in DOMAIN e.is |-> e.is[m]] /\ IsFiniteSet(DOMAIN e.is)

Alike(k, d, e) ==
    IF k \in Emptiable THEN Visible(d) = Visible(e) /\ FitsEmptiable(k, d) /\ FitsEmptiable(k, e)
    ELSE d = e /\ Fits(k, e)

AlikeBut(m, l, keys) == \A k \in StoreKeys \ keys : Alike(k, Live(m, k), Live(l, k))
Good(m, l) == IsStore(m) /\ IsStore(l) /\ AlikeBut(m, l, {})

LEMMA NothingAlike == \A k : Alike(k, NoEntry, NoEntry)
BY DEF Alike, Fits, FitsEmptiable

LEMMA SeenIs == \A s, k : Seen(s, k) = Visible(Live(s, k))
BY DEF Seen, Visible, Emptied

LEMMA GoodAgrees == ASSUME NEW m, NEW l, Good(m, l), NEW k \in StoreKeys PROVE Seen(m, k) = Seen(l, k)
BY SeenIs DEF Good, AlikeBut, Alike

\* A key set to something in both.
LEMMA GoodSet ==
    ASSUME NEW m, NEW l, Good(m, l), NEW k \in StoreKeys \ Emptiable, clock \in Int,
           NEW type, NEW is, NEW date, Lasts(date), Fits(k, Entry(type, is, date))
    PROVE  Good(Set(m, k, type, is, date), Set(l, k, type, is, date))
<1> DEFINE n == Set(m, k, type, is, date)
           o == Set(l, k, type, is, date)
<1>0. IsStore(m) /\ IsStore(l) /\ date \in Int
  BY DEF Good, Lasts
<1>1. IsStore(n) /\ IsStore(o)
  BY <1>0, SetIs
<1>2. /\ Live(n, k) = Entry(type, is, date) /\ Live(o, k) = Entry(type, is, date)
      /\ \A j \in StoreKeys : j # k => Live(n, j) = Live(m, j) /\ Live(o, j) = Live(l, j)
  BY <1>0, LiveSet
<1> HIDE DEF n, o
<1>3. \A j \in StoreKeys : Alike(j, Live(n, j), Live(o, j))
  <2>1. ASSUME NEW j \in StoreKeys, j # k PROVE Alike(j, Live(n, j), Live(o, j))
    BY <1>2, <2>1 DEF Good, AlikeBut
  <2>2. Alike(k, Live(n, k), Live(o, k))
    BY <1>2 DEF Alike
  <2> QED BY <2>1, <2>2
<1> QED BY <1>1, <1>3 DEF Good, AlikeBut, n, o

\* What both say of a key.
LEMMA GoodLive ==
    ASSUME NEW m, NEW l, Good(m, l), NEW k \in StoreKeys \ Emptiable, clock \in Int
    PROVE  /\ Live(m, k) = Live(l, k) /\ Fits(k, Live(l, k))
           /\ Hash(m, k) = Hash(l, k) /\ Value(m, k) = Value(l, k)
           /\ Held(m, k, <<>>) = Held(l, k, <<>>)
           /\ Lasts(Live(m, k).date) /\ IsStore(m) /\ IsStore(l)
           /\ \A f : Hashed(m, k, f) = Hashed(l, k, f)
<1>1. Live(m, k) = Live(l, k) /\ Fits(k, Live(l, k)) /\ IsStore(m) /\ IsStore(l)
  BY DEF Good, AlikeBut, Alike
<1>2. Lasts(Live(m, k).date)
  BY <1>1, LiveIs
<1>3. Held(m, k, <<>>) = Held(l, k, <<>>)
  BY <1>1 DEF Held
<1> QED BY <1>1, <1>2, <1>3 DEF Hash, Value, Hashed

-----------------------------------------------------------------------------
(* A reply more.                                                            *)

LEMMA Append0 == \A y : Append(<<>>, y) = <<y>>
OBVIOUS

LEMMA Append1 ==
    ASSUME NEW x1, NEW y
    PROVE  Append(<<x1>>, y) = <<x1, y>>
<1>1. Append(<<x1>>, y) = [i \in 1..2 |-> IF i = 2 THEN y ELSE <<x1>>[i]]
  OBVIOUS
<1>2. <<x1, y>> = [i \in 1..2 |-> IF i = 2 THEN y ELSE <<x1>>[i]]
  OBVIOUS
<1> QED BY <1>1, <1>2

LEMMA Append2 ==
    ASSUME NEW x1, NEW x2, NEW y
    PROVE  Append(<<x1, x2>>, y) = <<x1, x2, y>>
<1>1. Append(<<x1, x2>>, y) = [i \in 1..3 |-> IF i = 3 THEN y ELSE <<x1, x2>>[i]]
  OBVIOUS
<1>2. <<x1, x2, y>> = [i \in 1..3 |-> IF i = 3 THEN y ELSE <<x1, x2>>[i]]
  OBVIOUS
<1> QED BY <1>1, <1>2

LEMMA Append3 ==
    ASSUME NEW x1, NEW x2, NEW x3, NEW y
    PROVE  Append(<<x1, x2, x3>>, y) = <<x1, x2, x3, y>>
<1>1. Append(<<x1, x2, x3>>, y) = [i \in 1..4 |-> IF i = 4 THEN y ELSE <<x1, x2, x3>>[i]]
  OBVIOUS
<1>2. <<x1, x2, x3, y>> = [i \in 1..4 |-> IF i = 4 THEN y ELSE <<x1, x2, x3>>[i]]
  OBVIOUS
<1> QED BY <1>1, <1>2

LEMMA Append4 ==
    ASSUME NEW x1, NEW x2, NEW x3, NEW x4, NEW y
    PROVE  Append(<<x1, x2, x3, x4>>, y) = <<x1, x2, x3, x4, y>>
<1>1. Append(<<x1, x2, x3, x4>>, y) = [i \in 1..5 |-> IF i = 5 THEN y ELSE <<x1, x2, x3, x4>>[i]]
  OBVIOUS
<1>2. <<x1, x2, x3, x4, y>> = [i \in 1..5 |-> IF i = 5 THEN y ELSE <<x1, x2, x3, x4>>[i]]
  OBVIOUS
<1> QED BY <1>1, <1>2

LEMMA Append5 ==
    ASSUME NEW x1, NEW x2, NEW x3, NEW x4, NEW x5, NEW y
    PROVE  Append(<<x1, x2, x3, x4, x5>>, y) = <<x1, x2, x3, x4, x5, y>>
<1>1. Append(<<x1, x2, x3, x4, x5>>, y) = [i \in 1..6 |-> IF i = 6 THEN y ELSE <<x1, x2, x3, x4, x5>>[i]]
  OBVIOUS
<1>2. <<x1, x2, x3, x4, x5, y>> = [i \in 1..6 |-> IF i = 6 THEN y ELSE <<x1, x2, x3, x4, x5>>[i]]
  OBVIOUS
<1> QED BY <1>1, <1>2

LEMMA Append6 ==
    ASSUME NEW x1, NEW x2, NEW x3, NEW x4, NEW x5, NEW x6, NEW y
    PROVE  Append(<<x1, x2, x3, x4, x5, x6>>, y) = <<x1, x2, x3, x4, x5, x6, y>>
<1>1. Append(<<x1, x2, x3, x4, x5, x6>>, y) = [i \in 1..7 |-> IF i = 7 THEN y ELSE <<x1, x2, x3, x4, x5, x6>>[i]]
  OBVIOUS
<1>2. <<x1, x2, x3, x4, x5, x6, y>> = [i \in 1..7 |-> IF i = 7 THEN y ELSE <<x1, x2, x3, x4, x5, x6>>[i]]
  OBVIOUS
<1> QED BY <1>1, <1>2

LEMMA Append7 ==
    ASSUME NEW x1, NEW x2, NEW x3, NEW x4, NEW x5, NEW x6, NEW x7, NEW y
    PROVE  Append(<<x1, x2, x3, x4, x5, x6, x7>>, y) = <<x1, x2, x3, x4, x5, x6, x7, y>>
<1>1. Append(<<x1, x2, x3, x4, x5, x6, x7>>, y) = [i \in 1..8 |-> IF i = 8 THEN y ELSE <<x1, x2, x3, x4, x5, x6, x7>>[i]]
  OBVIOUS
<1>2. <<x1, x2, x3, x4, x5, x6, x7, y>> = [i \in 1..8 |-> IF i = 8 THEN y ELSE <<x1, x2, x3, x4, x5, x6, x7>>[i]]
  OBVIOUS
<1> QED BY <1>1, <1>2

LEMMA Append8 ==
    ASSUME NEW x1, NEW x2, NEW x3, NEW x4, NEW x5, NEW x6, NEW x7, NEW x8, NEW y
    PROVE  Append(<<x1, x2, x3, x4, x5, x6, x7, x8>>, y) = <<x1, x2, x3, x4, x5, x6, x7, x8, y>>
<1>1. Append(<<x1, x2, x3, x4, x5, x6, x7, x8>>, y) = [i \in 1..9 |-> IF i = 9 THEN y ELSE <<x1, x2, x3, x4, x5, x6, x7, x8>>[i]]
  OBVIOUS
<1>2. <<x1, x2, x3, x4, x5, x6, x7, x8, y>> = [i \in 1..9 |-> IF i = 9 THEN y ELSE <<x1, x2, x3, x4, x5, x6, x7, x8>>[i]]
  OBVIOUS
<1> QED BY <1>1, <1>2

LEMMA Append9 ==
    ASSUME NEW x1, NEW x2, NEW x3, NEW x4, NEW x5, NEW x6, NEW x7, NEW x8, NEW x9, NEW y
    PROVE  Append(<<x1, x2, x3, x4, x5, x6, x7, x8, x9>>, y) = <<x1, x2, x3, x4, x5, x6, x7, x8, x9, y>>
<1>1. Append(<<x1, x2, x3, x4, x5, x6, x7, x8, x9>>, y) = [i \in 1..10 |-> IF i = 10 THEN y ELSE <<x1, x2, x3, x4, x5, x6, x7, x8, x9>>[i]]
  OBVIOUS
<1>2. <<x1, x2, x3, x4, x5, x6, x7, x8, x9, y>> = [i \in 1..10 |-> IF i = 10 THEN y ELSE <<x1, x2, x3, x4, x5, x6, x7, x8, x9>>[i]]
  OBVIOUS
<1> QED BY <1>1, <1>2

-----------------------------------------------------------------------------
(* Each twin comes to what its script does at once.                         *)

Starts(a, m, l) ==
    \E last : Ends(a, <<>>, m, Script(a, l).answer, last) /\ Good(last, Script(a, l).store)

LEMMA KeysAre ==
    {"bucket", "window", "pool", "health", "ledger", "lock", "user", "token", "journal"}
      = StoreKeys \ Emptiable
BY DEF StoreKeys, ScriptFamilies, Emptiable

LEMMA LifeIs == \A n \in Int : n + Life \in Int /\ n + Life > n /\ n + 2 * Life \in Int /\ n + 2 * Life > n
BY DEF Life

LEMMA NextKeyStarts ==
    ASSUME NEW m, NEW l, Good(m, l), clock \in Int, NEW a, a.name = "nextKey", a.size \in Int
    PROVE  Starts(a, m, l)
<1> DEFINE n == Or(Value(l, "pool"), 0) + 1
<1>1. CASE a.size <= 0
  <2>1. Twin(a, <<>>) = Finished(<<-1>>)
    BY <1>1 DEF Twin, NextKeyTwin
  <2>2. Script(a, l) = Reply(<<-1>>, l)
    BY <1>1 DEF Script, NEXT_KEY_LUA
  <2> QED BY <2>1, <2>2, EndsDone, ReplyIs DEF Starts
<1>2. CASE ~(a.size <= 0)
  <2>0. "pool" \in StoreKeys \ Emptiable
    BY KeysAre
  <2>1. /\ IsStore(m) /\ Lasts(Live(m, "pool").date) /\ Value(m, "pool") = Value(l, "pool")
        /\ Lasts(clock + Life)
    BY <2>0, GoodLive, LifeIs DEF Lasts
  <2>2. Script(a, l) = Reply(<<(n - 1) % a.size>>, Set(l, "pool", "scalar", n, clock + Life))
    BY <1>2 DEF Script, NEXT_KEY_LUA
  <2>3. Good(Set(m, "pool", "scalar", n, clock + Life), Set(l, "pool", "scalar", n, clock + Life))
    <3>1. Fits("pool", Entry("scalar", n, clock + Life))
      BY EntryIs DEF Fits, Emptied
    <3> QED BY <2>0, <2>1, <3>1, GoodSet
  <2>4. Twin(a, <<>>) = Do(<<"INCRBY", "pool", 1>>)
    BY <1>2 DEF Twin, NextKeyTwin, Then
  <2>5. TwinCommand(m, <<"INCRBY", "pool", 1>>) = Reply(n, Set(m, "pool", "scalar", n, Live(m, "pool").date))
    BY <2>1, IncrByDoes DEF Add
  <2> HIDE DEF n
  <2>6. Twin(a, <<n>>) = Do(<<"EXPIRE", "pool", Life>>)
    BY <1>2 DEF Twin, NextKeyTwin, Then
  <2>7. TwinCommand(Set(m, "pool", "scalar", n, Live(m, "pool").date), <<"EXPIRE", "pool", Life>>) =
          Reply(1, Set(m, "pool", "scalar", n, clock + Life))
    BY <2>0, <2>1, ExpireDoes
  <2>8. Twin(a, <<n, 1>>) = Finished(<<(n - 1) % a.size>>)
    BY <1>2 DEF Twin, NextKeyTwin, Then
  <2>9. Ends(a, <<n, 1>>, Set(m, "pool", "scalar", n, clock + Life), <<(n - 1) % a.size>>,
             Set(m, "pool", "scalar", n, clock + Life))
    BY <2>8, EndsDone
  <2>10. Ends(a, <<n>>, Set(m, "pool", "scalar", n, Live(m, "pool").date), <<(n - 1) % a.size>>,
              Set(m, "pool", "scalar", n, clock + Life))
    BY <2>6, <2>7, <2>9, EndsMore, Append1
  <2>11. Ends(a, <<>>, m, <<(n - 1) % a.size>>, Set(m, "pool", "scalar", n, clock + Life))
    BY <2>4, <2>5, <2>10, EndsMore, Append0
  <2> QED BY <2>2, <2>3, <2>11, ReplyIs DEF Starts
<1> QED BY <1>1, <1>2

\* A hash written with a date is a twin's HSET and EXPIRE.
LEMMA EndsInWrite ==
    ASSUME NEW a, NEW r, NEW s, IsStore(s), clock \in Int, NEW k \in StoreKeys, NEW fields, NEW life, NEW answer,
           NEW last, Twin(a, r) = Do(<<"HSET", k, fields>>), Twin(a, Append(r, 0)) = Do(<<"EXPIRE", k, life>>),
           Ends(a, Append(Append(r, 0), 1), Write(s, k, fields, life), answer, last)
    PROVE  Ends(a, r, s, answer, last)
<1> DEFINE t == TwinCommand(s, <<"HSET", k, fields>>).store
<1>1. /\ TwinCommand(s, <<"HSET", k, fields>>).answer = 0
      /\ TwinCommand(t, <<"EXPIRE", k, life>>) = Reply(1, Write(s, k, fields, life))
  BY HSetExpires
<1>2. TwinCommand(s, <<"HSET", k, fields>>) = Reply(0, t)
  BY <1>1, HSetDoes, ReplyIs
<1> HIDE DEF t
<1>3. Ends(a, Append(r, 0), t, answer, last)
  BY <1>1, EndsMore
<1> QED BY <1>2, <1>3, EndsMore

LEMMA GoodWrite ==
    ASSUME NEW m, NEW l, Good(m, l), NEW k \in StoreKeys \ Emptiable, clock \in Int, NEW fields,
           NEW life, Lasts(clock + life), Fits(k, Entry("hash", Merged(fields, Hash(l, k)), clock + life))
    PROVE  Good(Write(m, k, fields, life), Write(l, k, fields, life))
<1>1. Hash(m, k) = Hash(l, k)
  BY GoodLive
<1> QED BY <1>1, GoodSet DEF Write

\* What a hash holds once it was set.
LEMMA HashSet ==
    ASSUME NEW s, IsStore(s), NEW k \in StoreKeys, NEW is, NEW date, Lasts(date), clock \in Int
    PROVE  /\ Hash(Set(s, k, "hash", is, date), k) = is
           /\ Live(Set(s, k, "hash", is, date), k).date = date
<1>1. Live(Set(s, k, "hash", is, date), k) = Entry("hash", is, date)
  BY LiveSet
<1>2. Live(Set(s, k, "hash", is, date), k) # NoEntry /\ Live(Set(s, k, "hash", is, date), k).is = is
  BY <1>1, EntryIs
<1> QED BY <1>1, <1>2, EntryIs DEF Hash, Held

LEMMA HealthStarts ==
    ASSUME NEW m, NEW l, Good(m, l), clock \in Int, NEW a, a.name = "health", a.ok \in BOOLEAN
    PROVE  Starts(a, m, l)
<1>0. "health" \in StoreKeys \ Emptiable
  BY KeysAre
<1>1. /\ IsStore(m) /\ IsStore(l) /\ Lasts(Live(m, "health").date) /\ Lasts(clock + 2 * Life)
      /\ Hash(m, "health") = Hash(l, "health") /\ Hashed(m, "health", "fails") = Hashed(l, "health", "fails")
  BY <1>0, GoodLive, LifeIs DEF Lasts
<1>2. \A is, date : Fits("health", Entry("hash", is, date))
  BY EntryIs DEF Fits, Emptied
<1>3. CASE a.ok
  <2> DEFINE fields == [fails |-> 0, openUntil |-> 0]
  <2>1. Script(a, l) = Reply(<<0, 0>>, Write(l, "health", fields, 2 * Life))
    BY <1>3 DEF Script, HEALTH_LUA
  <2>2. /\ Twin(a, <<>>) = Do(<<"HSET", "health", fields>>)
        /\ Twin(a, <<0>>) = Do(<<"EXPIRE", "health", 2 * Life>>)
        /\ Twin(a, <<0, 1>>) = Finished(<<0, 0>>)
    BY <1>3 DEF Twin, HealthTwin, Then
  <2> HIDE DEF fields
  <2>3. Ends(a, <<0, 1>>, Write(m, "health", fields, 2 * Life), <<0, 0>>, Write(m, "health", fields, 2 * Life))
    BY <2>2, EndsDone
  <2>4. Append(<<>>, 0) = <<0>> /\ Append(<<0>>, 1) = <<0, 1>>
    BY Append0, Append1
  <2>5. Ends(a, <<>>, m, <<0, 0>>, Write(m, "health", fields, 2 * Life))
    BY <1>0, <1>1, <2>2, <2>3, <2>4, EndsInWrite
  <2>6. Good(Write(m, "health", fields, 2 * Life), Write(l, "health", fields, 2 * Life))
    BY <1>0, <1>1, <1>2, GoodWrite
  <2> QED BY <2>1, <2>5, <2>6, ReplyIs DEF Starts
<1>4. CASE ~a.ok
  <2> DEFINE n == Or(Hashed(l, "health", "fails"), 0) + 1
             counted == Merged(One("fails", n), Hash(l, "health"))
             s == Set(m, "health", "hash", counted, Live(m, "health").date)
  <2>1. /\ Twin(a, <<>>) = Do(<<"HINCRBY", "health", "fails", 1>>)
        /\ TwinCommand(m, <<"HINCRBY", "health", "fails", 1>>) = Reply(n, s)
    <3>1. Twin(a, <<>>) = Do(<<"HINCRBY", "health", "fails", 1>>)
      BY <1>4 DEF Twin, HealthTwin
    <3> QED BY <1>1, <3>1, HIncrByDoes
  <2>2. Append(<<>>, n) = <<n>> /\ Append(<<n>>, 0) = <<n, 0>> /\ Append(<<n, 0>>, 1) = <<n, 0, 1>> /\ Append(<<n>>, 1) = <<n, 1>>
    BY Append0, Append1, Append2
  <2>3. IsStore(s) /\ Hash(s, "health") = counted
    BY <1>0, <1>1, SetIs, HashSet DEF Lasts
  <2>4. CASE n >= a.threshold
    <3> DEFINE opens == [openUntil |-> a.now + Life]
               both == [fails |-> n, openUntil |-> a.now + Life]
    <3>1. Script(a, l) = Reply(<<1, n>>, Write(l, "health", both, 2 * Life))
      BY <1>4, <2>4 DEF Script, HEALTH_LUA
    <3>2. Merged(opens, counted) = Merged(both, Hash(l, "health"))
      BY DEF Merged, One
    <3>3. /\ Twin(a, <<n>>) = Do(<<"HSET", "health", opens>>)
          /\ Twin(a, <<n, 0>>) = Do(<<"EXPIRE", "health", 2 * Life>>)
          /\ Twin(a, <<n, 0, 1>>) = Finished(<<1, n>>)
      <4> HIDE DEF n
      <4> QED BY <1>4, <2>4 DEF Twin, HealthTwin, Then
    <3> HIDE DEF n, counted, opens, both
    <3>4. Write(s, "health", opens, 2 * Life) = Write(m, "health", both, 2 * Life)
      BY <1>0, <1>1, <2>3, <3>2, SetTwice DEF Write
    <3> HIDE DEF s
    <3>5. Ends(a, <<n, 0, 1>>, Write(s, "health", opens, 2 * Life), <<1, n>>, Write(s, "health", opens, 2 * Life))
      BY <3>3, EndsDone
    <3>6. Ends(a, <<n>>, s, <<1, n>>, Write(s, "health", opens, 2 * Life))
      BY <1>0, <2>2, <2>3, <3>3, <3>5, EndsInWrite
    <3>7. Ends(a, <<>>, m, <<1, n>>, Write(s, "health", opens, 2 * Life))
      BY <2>1, <2>2, <3>6, EndsMore
    <3>8. Good(Write(m, "health", both, 2 * Life), Write(l, "health", both, 2 * Life))
      BY <1>0, <1>1, <1>2, GoodWrite
    <3> QED BY <3>1, <3>4, <3>7, <3>8, ReplyIs DEF Starts
  <2>5. CASE ~(n >= a.threshold)
    <3>1. Script(a, l) = Reply(<<0, n>>, Write(l, "health", [fails |-> n], 2 * Life))
      BY <1>4, <2>5 DEF Script, HEALTH_LUA
    <3>2. One("fails", n) = [fails |-> n]
      BY DEF One
    <3>3. /\ Twin(a, <<n>>) = Do(<<"EXPIRE", "health", 2 * Life>>)
          /\ Twin(a, <<n, 1>>) = Finished(<<0, n>>)
      <4> HIDE DEF n
      <4> QED BY <1>4, <2>5 DEF Twin, HealthTwin, Then
    <3>4. TwinCommand(s, <<"EXPIRE", "health", 2 * Life>>) =
            Reply(1, Set(m, "health", "hash", counted, clock + 2 * Life))
      BY <1>0, <1>1, ExpireDoes
    <3>5. Set(m, "health", "hash", counted, clock + 2 * Life) = Write(m, "health", [fails |-> n], 2 * Life)
      BY <1>1, <3>2 DEF Write
    <3> HIDE DEF n, counted, s
    <3>6. Ends(a, <<n, 1>>, Write(m, "health", [fails |-> n], 2 * Life), <<0, n>>,
               Write(m, "health", [fails |-> n], 2 * Life))
      BY <3>3, EndsDone
    <3>7. Ends(a, <<n>>, s, <<0, n>>, Write(m, "health", [fails |-> n], 2 * Life))
      BY <2>2, <3>3, <3>4, <3>5, <3>6, EndsMore
    <3>8. Ends(a, <<>>, m, <<0, n>>, Write(m, "health", [fails |-> n], 2 * Life))
      BY <2>1, <2>2, <3>7, EndsMore
    <3>9. Good(Write(m, "health", [fails |-> n], 2 * Life), Write(l, "health", [fails |-> n], 2 * Life))
      BY <1>0, <1>1, <1>2, GoodWrite
    <3> QED BY <3>1, <3>8, <3>9, ReplyIs DEF Starts
  <2> QED BY <2>4, <2>5
<1> QED BY <1>3, <1>4

LEMMA ThenIs ==
    ASSUME NEW cmds, NEW r, NEW tuple
    PROVE  /\ Len(r) < Len(cmds) => Then(cmds, r, tuple) = Do(cmds[Len(r) + 1])
           /\ ~(Len(r) < Len(cmds)) => Then(cmds, r, tuple) = Finished(tuple)
BY DEF Then

LEMMA WindowTwinIs ==
    ASSUME NEW a, a.name = "fixedWindow", ~(a.limit <= 0), NEW r, r # <<>>, Len(r) # 1,
           ~(Or(r[1], 0) + a.cost > a.limit)
    PROVE  Twin(a, r) =
             Then(<<"GET", "INCRBY">> \o (IF r[2] = a.cost THEN <<<<"EXPIRE", "window", Life>>>> ELSE <<>>)
                    \o <<<<"TTL", "window">>>>, r,
                  <<1, r[2], IF r[Len(r)] < 0 THEN Life ELSE r[Len(r)]>>)
BY DEF Twin, FixedWindowTwin

LEMMA BucketTwinIs ==
    ASSUME NEW a, a.name = "tokenBucket", ~(a.capacity <= 0), NEW r, r # <<>>, NEW left, NEW ok, NEW retry,
           NEW tokens,
           tokens = Least(a.capacity, Or(r[1][1], a.capacity) + Most(0, a.now - Or(r[1][2], a.now)) * a.refill),
           ok = (tokens >= a.cost),
           left = IF ok THEN tokens - a.cost ELSE tokens,
           retry = IF ok THEN 0 ELSE IF a.refill > 0 THEN CeilDiv(a.cost - tokens, a.refill) ELSE Life
    PROVE  Twin(a, r) =
             Then(<<"HMGET", <<"HSET", "bucket", [tokens |-> left, ts |-> a.now]>>, <<"EXPIRE", "bucket", Life>>>>,
                  r, <<IF ok THEN 1 ELSE 0, left, retry>>)
BY DEF Twin, TokenBucketTwin

LEMMA BucketHolds ==
    ASSUME NEW l, Fits("bucket", Live(l, "bucket")), NEW f \in {"tokens", "ts"}
    PROVE  Hashed(l, "bucket", f) \in Int \cup {Nil}
<1>1. CASE Live(l, "bucket") = NoEntry
  <2>1. Hash(l, "bucket") = <<>>
    BY <1>1 DEF Hash, Held
  <2>2. f \notin DOMAIN <<>>
    OBVIOUS
  <2> QED BY <2>1, <2>2 DEF Hashed, Field
<1>2. CASE Live(l, "bucket") # NoEntry
  BY <1>2 DEF Fits, Hashed, Hash, Held
<1> QED BY <1>1, <1>2

LEMMA TokenBucketStarts ==
    ASSUME NEW m, NEW l, Good(m, l), clock \in Int, NEW a, a.name = "tokenBucket",
           a.capacity \in Int, a.refill \in Int, a.cost \in Int, a.now \in Int
    PROVE  Starts(a, m, l)
<1>1. CASE a.capacity <= 0
  <2>1. Twin(a, <<>>) = Finished(<<1, -1, 0>>)
    BY <1>1 DEF Twin, TokenBucketTwin
  <2>2. Script(a, l) = Reply(<<1, -1, 0>>, l)
    BY <1>1 DEF Script, TOKEN_BUCKET_LUA
  <2> QED BY <2>1, <2>2, EndsDone, ReplyIs DEF Starts
<1>2. CASE ~(a.capacity <= 0)
  <2> DEFINE held == Hashed(l, "bucket", "tokens")
             at == Hashed(l, "bucket", "ts")
             tokens == Least(a.capacity, Or(held, a.capacity) + Most(0, a.now - Or(at, a.now)) * a.refill)
             ok == tokens >= a.cost
             left == IF ok THEN tokens - a.cost ELSE tokens
             retry == IF ok THEN 0 ELSE IF a.refill > 0 THEN CeilDiv(a.cost - tokens, a.refill) ELSE Life
             answer == <<IF ok THEN 1 ELSE 0, left, retry>>
             fields == [tokens |-> left, ts |-> a.now]
  <2>0. "bucket" \in StoreKeys \ Emptiable
    BY KeysAre
  <2>1. /\ IsStore(m) /\ Lasts(clock + Life) /\ Fits("bucket", Live(l, "bucket"))
        /\ \A f : Hashed(m, "bucket", f) = Hashed(l, "bucket", f)
    BY <2>0, GoodLive, LifeIs DEF Lasts
  <2>2. held \in Int \cup {Nil} /\ at \in Int \cup {Nil}
    BY <2>1, BucketHolds
  <2>3. tokens \in Int
    <3>1. Or(held, a.capacity) \in Int /\ Or(at, a.now) \in Int
      BY <2>2 DEF Or
    <3>2. Most(0, a.now - Or(at, a.now)) * a.refill \in Int
      BY <3>1 DEF Most
    <3> QED BY <3>1, <3>2 DEF Least
  <2>4. Script(a, l) = Reply(answer, Write(l, "bucket", fields, Life))
    <3>1. Script(a, l) = TOKEN_BUCKET_LUA(l, a)
      BY DEF Script
    <3> HIDE DEF held, at
    <3>2. CASE ok
      <4>1. a.cost - tokens <= 0 /\ -(a.cost - tokens) = tokens - a.cost
        BY <2>3, <3>2
      <4>2. answer = <<1, tokens - a.cost, 0>> /\ fields = [tokens |-> tokens - a.cost, ts |-> a.now]
        BY <3>2
      <4> QED BY <1>2, <3>1, <4>1, <4>2 DEF TOKEN_BUCKET_LUA, held, at
    <3>3. CASE ~ok
      <4>1. ~(a.cost - tokens <= 0)
        BY <2>3, <3>3
      <4>2. /\ answer = <<0, tokens, IF a.refill > 0 THEN CeilDiv(a.cost - tokens, a.refill) ELSE Life>>
            /\ fields = [tokens |-> tokens, ts |-> a.now]
        BY <3>3
      <4> QED BY <1>2, <3>1, <4>1, <4>2 DEF TOKEN_BUCKET_LUA, held, at
    <3> QED BY <3>2, <3>3
  <2>5. PICK h : /\ TwinCommand(m, <<"HMGET", "bucket", <<"tokens", "ts">>>>) = Reply(h, m)
                 /\ h[1] = held /\ h[2] = at
    BY <2>1, HMGetDoes
  <2>6. Twin(a, <<>>) = Do(<<"HMGET", "bucket", <<"tokens", "ts">>>>)
    BY <1>2 DEF Twin, TokenBucketTwin
  <2>7. /\ Twin(a, <<h>>) = Do(<<"HSET", "bucket", fields>>)
        /\ Twin(a, <<h, 0>>) = Do(<<"EXPIRE", "bucket", Life>>)
        /\ Twin(a, <<h, 0, 1>>) = Finished(answer)
    <3> HIDE DEF held, at
    <3> DEFINE cmds == <<"HMGET", <<"HSET", "bucket", fields>>, <<"EXPIRE", "bucket", Life>>>>
    <3>1. ASSUME NEW r, r[1] = h, r # <<>> PROVE Twin(a, r) = Then(cmds, r, answer)
      <4>1. tokens = Least(a.capacity, Or(r[1][1], a.capacity) + Most(0, a.now - Or(r[1][2], a.now)) * a.refill)
        BY <2>5, <3>1
      <4>2. left = (IF ok THEN tokens - a.cost ELSE tokens) /\ ok = (tokens >= a.cost)
            /\ retry = (IF ok THEN 0 ELSE IF a.refill > 0 THEN CeilDiv(a.cost - tokens, a.refill) ELSE Life)
            /\ answer = <<IF ok THEN 1 ELSE 0, left, retry>> /\ fields = [tokens |-> left, ts |-> a.now]
        OBVIOUS
      <4> HIDE DEF tokens, left, ok, retry, answer, fields
      <4>3. Twin(a, r) =
             Then(<<"HMGET", <<"HSET", "bucket", [tokens |-> left, ts |-> a.now]>>, <<"EXPIRE", "bucket", Life>>>>,
                  r, <<IF ok THEN 1 ELSE 0, left, retry>>)
        BY <1>2, <3>1, <4>1, <4>2 DEF Twin, TokenBucketTwin
      <4> QED BY <4>2, <4>3
    <3> HIDE DEF fields, answer
    <3>2. Len(cmds) = 3 /\ cmds[2] = <<"HSET", "bucket", fields>> /\ cmds[3] = <<"EXPIRE", "bucket", Life>>
      OBVIOUS
    <3> HIDE DEF cmds
    <3>3. Twin(a, <<h>>) = Do(<<"HSET", "bucket", fields>>)
      <4>1. PICK r : r = <<h>>
        OBVIOUS
      <4>1x. r # <<>> /\ Len(r) = 1 /\ r[1] = h
        BY <4>1
      <4>2. Twin(a, r) = Then(cmds, r, answer)
        BY <3>1, <4>1x
      <4> QED BY <3>2, <4>1, <4>1x, <4>2 DEF Then
    <3>4. Twin(a, <<h, 0>>) = Do(<<"EXPIRE", "bucket", Life>>)
      <4>1. PICK r : r = <<h, 0>>
        OBVIOUS
      <4>1x. r # <<>> /\ Len(r) = 2 /\ r[1] = h /\ r[2] = 0
        BY <4>1
      <4>2. Twin(a, r) = Then(cmds, r, answer)
        BY <3>1, <4>1x
      <4> QED BY <3>2, <4>1, <4>1x, <4>2 DEF Then
    <3>5. Twin(a, <<h, 0, 1>>) = Finished(answer)
      <4>1. PICK r : r = <<h, 0, 1>>
        OBVIOUS
      <4>1x. r # <<>> /\ Len(r) = 3 /\ r[1] = h /\ r[2] = 0 /\ r[3] = 1
        BY <4>1
      <4>2. Twin(a, r) = Then(cmds, r, answer)
        BY <3>1, <4>1x
      <4> QED BY <3>2, <4>1, <4>1x, <4>2 DEF Then
    <3> QED BY <3>3, <3>4, <3>5
  <2>8. Append(<<>>, h) = <<h>> /\ Append(<<h>>, 0) = <<h, 0>> /\ Append(<<h, 0>>, 1) = <<h, 0, 1>>
    BY Append0, Append1, Append2
  <2>9. Good(Write(m, "bucket", fields, Life), Write(l, "bucket", fields, Life))
    <3> DEFINE is == Merged(fields, Hash(l, "bucket"))
    <3>1. left \in Int
      BY <2>3
    <3>2. Field(is, "tokens") = left /\ Field(is, "ts") = a.now
      BY DEF Merged, Field
    <3> HIDE DEF is
    <3>3. Fits("bucket", Entry("hash", is, clock + Life))
      BY <3>1, <3>2, EntryIs DEF Fits, Emptied
    <3> QED BY <2>0, <2>1, <3>3, GoodWrite DEF is
  <2> HIDE DEF held, at, tokens, ok, left, retry, answer, fields
  <2>10. Ends(a, <<h, 0, 1>>, Write(m, "bucket", fields, Life), answer, Write(m, "bucket", fields, Life))
    BY <2>7, EndsDone
  <2>11. Ends(a, <<h>>, m, answer, Write(m, "bucket", fields, Life))
    BY <2>0, <2>1, <2>7, <2>8, <2>10, EndsInWrite
  <2>12. Ends(a, <<>>, m, answer, Write(m, "bucket", fields, Life))
    BY <2>5, <2>6, <2>8, <2>11, EndsMore
  <2> QED BY <2>4, <2>9, <2>12, ReplyIs DEF Starts
<1> QED BY <1>1, <1>2

\* What is left of a window, as TTL tells it.
LEMMA TtlTells ==
    ASSUME NEW s, IsStore(s), NEW k \in StoreKeys, clock \in Int, NEW t,
           t = CASE Live(s, k) = NoEntry -> -2
                 [] Live(s, k).date = Forever -> -1
                 [] OTHER -> s[k].date - clock
    PROVE  /\ t < 0 <=> Live(s, k) = NoEntry \/ Live(s, k).date = Forever
           /\ t >= 0 => t = Live(s, k).date - clock
           /\ t \in Int
<1>1. Lasts(Live(s, k).date) /\ (Live(s, k) # NoEntry => Live(s, k) = s[k])
  BY LiveIs
<1>2. CASE Live(s, k) = NoEntry
  BY <1>2
<1>3. CASE Live(s, k) # NoEntry /\ Live(s, k).date = Forever
  BY <1>3
<1>4. CASE Live(s, k) # NoEntry /\ Live(s, k).date # Forever
  BY <1>1, <1>4 DEF Lasts
<1> QED BY <1>2, <1>3, <1>4

LEMMA FixedWindowStarts ==
    ASSUME NEW m, NEW l, Good(m, l), clock \in Int, NEW a, a.name = "fixedWindow",
           a.limit \in Int, a.cost \in Nat \ {0}
    PROVE  Starts(a, m, l)
<1>1. CASE a.limit <= 0
  <2>1. Twin(a, <<>>) = Finished(<<1, 0, Life>>)
    BY <1>1 DEF Twin, FixedWindowTwin
  <2>2. Script(a, l) = Reply(<<1, 0, Life>>, l)
    BY <1>1 DEF Script, FIXED_WINDOW_LUA
  <2> QED BY <2>1, <2>2, EndsDone, ReplyIs DEF Starts
<1>2. CASE ~(a.limit <= 0)
  <2> DEFINE v == Value(l, "window")
             current == Or(v, 0)
             n == current + a.cost
             was == Live(l, "window")
             Tells(s) == CASE Live(s, "window") = NoEntry -> -2
                           [] Live(s, "window").date = Forever -> -1
                           [] OTHER -> s["window"].date - clock
             Left(t) == IF t < 0 THEN Life ELSE t
  <2>0. "window" \in StoreKeys \ Emptiable
    BY KeysAre
  <2>1. /\ IsStore(m) /\ IsStore(l) /\ Lasts(clock + Life) /\ Fits("window", was) /\ Live(m, "window") = was
        /\ Value(m, "window") = v /\ Lasts(was.date)
    BY <2>0, GoodLive, LifeIs DEF Lasts
  <2>2. current \in Nat /\ n \in Nat \ {0} /\ (current = 0 <=> was = NoEntry)
    <3>1. v = was.is
      BY DEF Value
    <3>2. CASE was = NoEntry
      BY <3>1, <3>2, NoEntryIs DEF Or
    <3>3. CASE was # NoEntry
      BY <2>1, <3>1, <3>3, TwinsAssumption DEF Fits, Or
    <3> QED BY <3>2, <3>3
  <2>3. /\ Twin(a, <<>>) = Do(<<"GET", "window">>)
        /\ TwinCommand(m, <<"GET", "window">>) = Reply(v, m)
    BY <1>2, <2>1, GetDoes DEF Twin, FixedWindowTwin
  <2>4. CASE n > a.limit
    <3> DEFINE t == Tells(m)
    <3>1. Script(a, l) = Reply(<<0, current, IF current = 0 THEN Life
                                             ELSE IF was.date = Forever THEN Life ELSE was.date - clock>>, l)
      BY <1>2, <2>4 DEF Script, FIXED_WINDOW_LUA
    <3>2. TwinCommand(m, <<"TTL", "window">>) = Reply(t, m)
      BY TtlDoes
    <3>3. t < 0 <=> was = NoEntry \/ was.date = Forever
      BY <2>0, <2>1, TtlTells
    <3>4. t >= 0 => t = was.date - clock
      BY <2>0, <2>1, TtlTells
    <3>5. t \in Int
      BY <2>0, <2>1, TtlTells
    <3> HIDE DEF t
    <3>6. Left(t) = IF current = 0 THEN Life ELSE IF was.date = Forever THEN Life ELSE was.date - clock
      BY <2>2, <3>3, <3>4, <3>5
    <3>7. /\ Twin(a, <<v>>) = Do(<<"TTL", "window">>)
          /\ Twin(a, <<v, t>>) = Finished(<<0, current, Left(t)>>)
      <4> HIDE DEF v
      <4> QED BY <1>2, <2>4 DEF Twin, FixedWindowTwin, Then
    <3>8. Append(<<>>, v) = <<v>> /\ Append(<<v>>, t) = <<v, t>>
      BY Append0, Append1
    <3> HIDE DEF v, Left, current
    <3>9. Ends(a, <<v, t>>, m, <<0, current, Left(t)>>, m)
      BY <3>7, EndsDone
    <3>10. Ends(a, <<v>>, m, <<0, current, Left(t)>>, m)
      BY <3>2, <3>7, <3>8, <3>9, EndsMore
    <3>11. Ends(a, <<>>, m, <<0, current, Left(t)>>, m)
      BY <2>3, <3>8, <3>10, EndsMore
    <3> QED BY <3>1, <3>6, <3>11, ReplyIs DEF Starts
  <2>5. CASE ~(n > a.limit)
    <3> DEFINE date == IF current = 0 THEN clock + Life ELSE was.date
               s == Set(m, "window", "scalar", n, was.date)
               last == Set(m, "window", "scalar", n, date)
               t == Tells(last)
    <3>1. Script(a, l) = Reply(<<1, n, IF date = Forever THEN Life ELSE date - clock>>,
                               Set(l, "window", "scalar", n, date))
      BY <1>2, <2>5 DEF Script, FIXED_WINDOW_LUA
    <3>2. Lasts(date) /\ IsStore(last) /\ Live(last, "window") = Entry("scalar", n, date)
      BY <2>0, <2>1, SetIs, LiveSet DEF Lasts
    <3>3. Good(last, Set(l, "window", "scalar", n, date))
      <4>1. Fits("window", Entry("scalar", n, date))
        BY <2>2, EntryIs DEF Fits, Emptied
      <4> QED BY <2>0, <3>2, <4>1, GoodSet
    <3>4. TwinCommand(last, <<"TTL", "window">>) = Reply(t, last)
      BY TtlDoes
    <3>5. /\ t < 0 <=> date = Forever
          /\ t >= 0 => t = date - clock
          /\ t \in Int
      <4>1. Live(last, "window") # NoEntry /\ Live(last, "window").date = date
        BY <3>2, EntryIs
      <4> HIDE DEF last
      <4>2. t < 0 <=> Live(last, "window") = NoEntry \/ Live(last, "window").date = Forever
        BY <2>0, <3>2, TtlTells
      <4>3. t >= 0 => t = Live(last, "window").date - clock
        BY <2>0, <3>2, TtlTells
      <4>4. t \in Int
        BY <2>0, <3>2, TtlTells
      <4> QED BY <4>1, <4>2, <4>3, <4>4
    <3> HIDE DEF t
    <3>6. Left(t) = IF date = Forever THEN Life ELSE date - clock
      BY <3>5
    <3>7. /\ Twin(a, <<v>>) = Do(<<"INCRBY", "window", a.cost>>)
          /\ TwinCommand(m, <<"INCRBY", "window", a.cost>>) = Reply(n, s)
      <4>1. Twin(a, <<v>>) = Do(<<"INCRBY", "window", a.cost>>)
        <5> HIDE DEF v
        <5> QED BY <1>2, <2>5 DEF Twin, FixedWindowTwin
      <4> QED BY <2>1, <4>1, IncrByDoes DEF Add
    <3>8. Append(<<>>, v) = <<v>> /\ Append(<<v>>, n) = <<v, n>>
      BY Append0, Append1
    <3>9. Ends(a, <<v, n>>, s, <<1, n, Left(t)>>, last)
      <4>1. CASE current = 0
        <5>1. n = a.cost
          BY <2>2, <4>1
        <5>2. /\ Twin(a, <<v, n>>) = Do(<<"EXPIRE", "window", Life>>)
              /\ Twin(a, <<v, n, 1>>) = Do(<<"TTL", "window">>)
              /\ Twin(a, <<v, n, 1, t>>) = Finished(<<1, n, Left(t)>>)
          <6> HIDE DEF v
          <6> DEFINE cmds == <<"GET", "INCRBY">> \o <<<<"EXPIRE", "window", Life>>>> \o <<<<"TTL", "window">>>>
          <6>1. ASSUME NEW r, r[1] = v, r[2] = n, Len(r) > 1, r # <<>>
                PROVE  Twin(a, r) = Then(cmds, r, <<1, n, Left(r[Len(r)])>>)
            <7>1. Len(r) # 1 /\ ~(Or(r[1], 0) + a.cost > a.limit) /\ r[2] = a.cost
              BY <2>5, <5>1, <6>1
            <7> QED BY <1>2, <6>1, <7>1, WindowTwinIs
          <6>2. Len(cmds) = 4 /\ cmds[3] = <<"EXPIRE", "window", Life>> /\ cmds[4] = <<"TTL", "window">>
            OBVIOUS
          <6> HIDE DEF n, Left, cmds
          <6>3. Twin(a, <<v, n>>) = Do(<<"EXPIRE", "window", Life>>)
            <7>1. PICK r : r = <<v, n>>
              OBVIOUS
            <7>1x. r # <<>> /\ Len(r) = 2 /\ r[1] = v /\ r[2] = n
              BY <7>1
            <7>2. Twin(a, r) = Then(cmds, r, <<1, n, Left(n)>>)
              <8>1. Twin(a, r) = Then(cmds, r, <<1, n, Left(r[Len(r)])>>)
                <9>1. r[1] = v /\ r[2] = n /\ r # <<>> /\ Len(r) > 1
                  BY <7>1x
                <9> QED BY <6>1, <9>1
              <8>2. r[Len(r)] = n
                BY <7>1x
              <8> QED BY <8>1, <8>2
            <7> QED BY <6>2, <7>1, <7>1x, <7>2 DEF Then
          <6>4. Twin(a, <<v, n, 1>>) = Do(<<"TTL", "window">>)
            <7>1. PICK r : r = <<v, n, 1>>
              OBVIOUS
            <7>1x. r # <<>> /\ Len(r) = 3 /\ r[1] = v /\ r[2] = n /\ r[3] = 1
              BY <7>1
            <7>2. Twin(a, r) = Then(cmds, r, <<1, n, Left(1)>>)
              <8>1. Twin(a, r) = Then(cmds, r, <<1, n, Left(r[Len(r)])>>)
                <9>1. r[1] = v /\ r[2] = n /\ r # <<>> /\ Len(r) > 1
                  BY <7>1x
                <9> QED BY <6>1, <9>1
              <8>2. r[Len(r)] = 1
                BY <7>1x
              <8> QED BY <8>1, <8>2
            <7> QED BY <6>2, <7>1, <7>1x, <7>2 DEF Then
          <6>5. Twin(a, <<v, n, 1, t>>) = Finished(<<1, n, Left(t)>>)
            <7>1. PICK r : r = <<v, n, 1, t>>
              OBVIOUS
            <7>1x. r # <<>> /\ Len(r) = 4 /\ r[1] = v /\ r[2] = n /\ r[3] = 1 /\ r[4] = t
              BY <7>1
            <7>2. Twin(a, r) = Then(cmds, r, <<1, n, Left(t)>>)
              <8>1. Twin(a, r) = Then(cmds, r, <<1, n, Left(r[Len(r)])>>)
                <9>1. r[1] = v /\ r[2] = n /\ r # <<>> /\ Len(r) > 1
                  BY <7>1x
                <9> QED BY <6>1, <9>1
              <8>2. r[Len(r)] = t
                BY <7>1x
              <8> QED BY <8>1, <8>2
            <7> QED BY <6>2, <7>1, <7>1x, <7>2 DEF Then
          <6> QED BY <6>3, <6>4, <6>5
        <5>3. TwinCommand(s, <<"EXPIRE", "window", Life>>) = Reply(1, last)
          BY <2>0, <2>1, <4>1, ExpireDoes
        <5>4. Append(<<v, n>>, 1) = <<v, n, 1>> /\ Append(<<v, n, 1>>, t) = <<v, n, 1, t>>
          BY Append2, Append3
        <5> HIDE DEF v, n, s, last, Left
        <5>5. Ends(a, <<v, n, 1, t>>, last, <<1, n, Left(t)>>, last)
          BY <5>2, EndsDone
        <5>6. Ends(a, <<v, n, 1>>, last, <<1, n, Left(t)>>, last)
          BY <3>4, <5>2, <5>4, <5>5, EndsMore
        <5> QED BY <5>2, <5>3, <5>4, <5>6, EndsMore
      <4>2. CASE current # 0
        <5>1. n # a.cost /\ s = last
          BY <2>2, <4>2
        <5>2. /\ Twin(a, <<v, n>>) = Do(<<"TTL", "window">>)
              /\ Twin(a, <<v, n, t>>) = Finished(<<1, n, Left(t)>>)
          <6> HIDE DEF v
          <6> DEFINE cmds == <<"GET", "INCRBY">> \o <<>> \o <<<<"TTL", "window">>>>
          <6>1. ASSUME NEW r, r[1] = v, r[2] = n, Len(r) > 1, r # <<>>
                PROVE  Twin(a, r) = Then(cmds, r, <<1, n, Left(r[Len(r)])>>)
            <7>1. Len(r) # 1 /\ ~(Or(r[1], 0) + a.cost > a.limit) /\ r[2] # a.cost
              BY <2>5, <5>1, <6>1
            <7> QED BY <1>2, <6>1, <7>1, WindowTwinIs
          <6>2. Len(cmds) = 3 /\ cmds[3] = <<"TTL", "window">>
            OBVIOUS
          <6> HIDE DEF n, Left, cmds
          <6>3. Twin(a, <<v, n>>) = Do(<<"TTL", "window">>)
            <7>1. PICK r : r = <<v, n>>
              OBVIOUS
            <7>1x. r # <<>> /\ Len(r) = 2 /\ r[1] = v /\ r[2] = n
              BY <7>1
            <7>2. Twin(a, r) = Then(cmds, r, <<1, n, Left(n)>>)
              <8>1. Twin(a, r) = Then(cmds, r, <<1, n, Left(r[Len(r)])>>)
                <9>1. r[1] = v /\ r[2] = n /\ r # <<>> /\ Len(r) > 1
                  BY <7>1x
                <9> QED BY <6>1, <9>1
              <8>2. r[Len(r)] = n
                BY <7>1x
              <8> QED BY <8>1, <8>2
            <7> QED BY <6>2, <7>1, <7>1x, <7>2 DEF Then
          <6>4. Twin(a, <<v, n, t>>) = Finished(<<1, n, Left(t)>>)
            <7>1. PICK r : r = <<v, n, t>>
              OBVIOUS
            <7>1x. r # <<>> /\ Len(r) = 3 /\ r[1] = v /\ r[2] = n /\ r[3] = t
              BY <7>1
            <7>2. Twin(a, r) = Then(cmds, r, <<1, n, Left(t)>>)
              <8>1. Twin(a, r) = Then(cmds, r, <<1, n, Left(r[Len(r)])>>)
                <9>1. r[1] = v /\ r[2] = n /\ r # <<>> /\ Len(r) > 1
                  BY <7>1x
                <9> QED BY <6>1, <9>1
              <8>2. r[Len(r)] = t
                BY <7>1x
              <8> QED BY <8>1, <8>2
            <7> QED BY <6>2, <7>1, <7>1x, <7>2 DEF Then
          <6> QED BY <6>3, <6>4
        <5>3. Append(<<v, n>>, t) = <<v, n, t>>
          BY Append2
        <5> HIDE DEF v, n, s, last, Left
        <5>4. Ends(a, <<v, n, t>>, last, <<1, n, Left(t)>>, last)
          BY <5>2, EndsDone
        <5> QED BY <3>4, <5>1, <5>2, <5>3, <5>4, EndsMore
      <4> QED BY <4>1, <4>2
    <3> HIDE DEF v, n, s, last, Left
    <3>10. Ends(a, <<v>>, m, <<1, n, Left(t)>>, last)
      <4>1. Ends(a, Append(<<v>>, n), s, <<1, n, Left(t)>>, last)
        BY <3>8, <3>9
      <4> QED BY <3>7, <4>1, EndsMore
    <3>11. Ends(a, <<>>, m, <<1, n, Left(t)>>, last)
      BY <2>3, <3>8, <3>10, EndsMore
    <3> QED BY <3>1, <3>3, <3>6, <3>11, ReplyIs DEF Starts, n, Left
  <2> QED BY <2>4, <2>5
<1> QED BY <1>1, <1>2

-----------------------------------------------------------------------------
(* ZSets sets: what admissions count.                                      *)

ZSets == {"successes", "inflight"}
IsZSet(z) == z = [m \in DOMAIN z |-> z[m]] /\ IsFiniteSet(DOMAIN z)
SameBut(s, t, k) == \A j \in StoreKeys : j # k => Live(t, j) = Live(s, j)

LEMMA SortedKeys == ZSets \subseteq StoreKeys /\ ZSets \subseteq Emptiable /\ "buffer" \notin ZSets
BY DEF ZSets, StoreKeys, ScriptFamilies, Emptiable

LEMMA NothingSorted == IsZSet(<<>>)
<1>1. DOMAIN <<>> = {} /\ <<>> = [m \in {} |-> <<>>[m]]
  OBVIOUS
<1> QED BY <1>1, FS_EmptySet DEF IsZSet

LEMMA SortedIs ==
    ASSUME NEW s, NEW k \in ZSets, FitsEmptiable(k, Live(s, k))
    PROVE  /\ IsZSet(Hash(s, k))
           /\ Live(s, k) = NoEntry => Hash(s, k) = <<>> /\ DOMAIN Hash(s, k) = {}
           /\ Live(s, k) # NoEntry => Hash(s, k) = Live(s, k).is /\ Live(s, k).type = "zset"
<1>1. k # "buffer"
  BY SortedKeys
<1>2. CASE Live(s, k) = NoEntry
  BY <1>2, NothingSorted DEF Hash, Held
<1>3. CASE Live(s, k) # NoEntry
  BY <1>1, <1>3 DEF Hash, Held, FitsEmptiable, IsZSet
<1> QED BY <1>2, <1>3

LEMMA EmptySorted ==
    ASSUME NEW s, NEW k \in ZSets, FitsEmptiable(k, Live(s, k))
    PROVE  Visible(Live(s, k)) = IF DOMAIN Hash(s, k) = {} THEN NoEntry ELSE Live(s, k)
<1>1. CASE Live(s, k) = NoEntry
  BY <1>1, SortedIs, NoEntryIs DEF Visible, Emptied
<1>2. CASE Live(s, k) # NoEntry
  BY <1>2, SortedIs DEF Visible, Emptied
<1> QED BY <1>1, <1>2

\* Two stores that show the same of a sorted set hold the same members.
LEMMA SameSorted ==
    ASSUME NEW m, NEW l, NEW k \in ZSets, Alike(k, Live(m, k), Live(l, k))
    PROVE  /\ Hash(m, k) = Hash(l, k)
           /\ DOMAIN Hash(m, k) # {} => Live(m, k) = Live(l, k)
<1>1. FitsEmptiable(k, Live(m, k)) /\ FitsEmptiable(k, Live(l, k)) /\ Visible(Live(m, k)) = Visible(Live(l, k))
  BY SortedKeys DEF Alike
<1>2. /\ Visible(Live(m, k)) = IF DOMAIN Hash(m, k) = {} THEN NoEntry ELSE Live(m, k)
      /\ Visible(Live(l, k)) = IF DOMAIN Hash(l, k) = {} THEN NoEntry ELSE Live(l, k)
  BY <1>1, EmptySorted
<1>3. CASE DOMAIN Hash(m, k) # {}
  <2>1. Live(m, k) # NoEntry
    BY <1>1, <1>3, SortedIs
  <2>2. Live(l, k) = Live(m, k)
    BY <1>1, <1>2, <1>3, <2>1
  <2> QED BY <2>2 DEF Hash, Held
<1>4. CASE DOMAIN Hash(m, k) = {}
  <2>1. DOMAIN Hash(l, k) = {}
    BY <1>1, <1>2, <1>4, SortedIs
  <2>2. IsZSet(Hash(m, k)) /\ IsZSet(Hash(l, k))
    BY <1>1, SortedIs
  <2> QED BY <1>4, <2>1, <2>2 DEF IsZSet
<1> QED BY <1>3, <1>4

LEMMA AlikeSorted ==
    ASSUME NEW m, IsStore(m), NEW l, IsStore(l), NEW k \in ZSets, clock \in Int,
           FitsEmptiable(k, Live(m, k)), FitsEmptiable(k, Live(l, k)), Hash(m, k) = Hash(l, k),
           DOMAIN Hash(m, k) # {} => Live(m, k).date = Live(l, k).date
    PROVE  Alike(k, Live(m, k), Live(l, k))
<1>1. /\ Visible(Live(m, k)) = IF DOMAIN Hash(m, k) = {} THEN NoEntry ELSE Live(m, k)
      /\ Visible(Live(l, k)) = IF DOMAIN Hash(l, k) = {} THEN NoEntry ELSE Live(l, k)
  BY EmptySorted
<1>2. DOMAIN Hash(m, k) # {} => Live(m, k) = Live(l, k)
  <2> SUFFICES ASSUME DOMAIN Hash(m, k) # {} PROVE Live(m, k) = Live(l, k)
    OBVIOUS
  <2>1. Live(m, k) # NoEntry /\ Live(l, k) # NoEntry
    BY SortedIs
  <2>2. IsEntry(Live(m, k)) /\ IsEntry(Live(l, k))
    BY LiveIs, SortedKeys
  <2>3. Live(m, k).is = Live(l, k).is /\ Live(m, k).type = Live(l, k).type
    BY <2>1, SortedIs
  <2> QED BY <2>2, <2>3 DEF IsEntry
<1> QED BY <1>1, <1>2, SortedKeys DEF Alike

\* A sorted set put under its key.
LEMMA ZSetIs ==
    ASSUME NEW s, IsStore(s), NEW k \in ZSets, NEW z, IsZSet(z), NEW date, Lasts(date), clock \in Int
    PROVE  LET t == Set(s, k, "zset", z, date)
           IN  /\ IsStore(t) /\ SameBut(s, t, k) /\ Live(t, k) = Entry("zset", z, date)
               /\ Live(t, k) # NoEntry /\ Hash(t, k) = z /\ Live(t, k).date = date /\ FitsEmptiable(k, Live(t, k))
<1> DEFINE t == Set(s, k, "zset", z, date)
<1>0. k \in StoreKeys /\ k # "buffer"
  BY SortedKeys
<1>1. IsStore(t) /\ Live(t, k) = Entry("zset", z, date) /\ SameBut(s, t, k)
  BY <1>0, SetIs, LiveSet DEF Lasts, SameBut
<1> HIDE DEF t
<1>2. Live(t, k) # NoEntry /\ Live(t, k).is = z /\ Live(t, k).date = date /\ Live(t, k).type = "zset"
  BY <1>1, EntryIs
<1>3. Hash(t, k) = z
  BY <1>2 DEF Hash, Held
<1>4. FitsEmptiable(k, Live(t, k))
  BY <1>0, <1>2 DEF FitsEmptiable, IsZSet
<1> QED BY <1>1, <1>2, <1>3, <1>4 DEF t

LEMMA WithoutIs ==
    ASSUME NEW z, IsZSet(z), NEW gone
    PROVE  IsZSet(Without(z, gone)) /\ DOMAIN Without(z, gone) = DOMAIN z \ gone
<1>1. DOMAIN Without(z, gone) = DOMAIN z \ gone
  BY DEF Without
<1>2. Without(z, gone) = [m \in DOMAIN Without(z, gone) |-> Without(z, gone)[m]]
  BY DEF Without
<1>3. IsFiniteSet(DOMAIN z \ gone)
  BY FS_Difference DEF IsZSet
<1> QED BY <1>1, <1>2, <1>3 DEF IsZSet

LEMMA OneMoreIs ==
    ASSUME NEW z, IsZSet(z), NEW x, NEW v
    PROVE  /\ IsZSet(Merged(One(x, v), z)) /\ DOMAIN Merged(One(x, v), z) = DOMAIN z \cup {x}
           /\ \A y \in DOMAIN z \cup {x} : Merged(One(x, v), z)[y] = IF y = x THEN v ELSE z[y]
<1> DEFINE w == Merged(One(x, v), z)
<1>1. w = [y \in DOMAIN z \cup {x} |-> IF y = x THEN v ELSE z[y]]
  BY DEF Merged, One
<1> HIDE DEF w
<1>2. DOMAIN w = DOMAIN z \cup {x} /\ w = [y \in DOMAIN w |-> w[y]]
  BY <1>1
<1>3. IsFiniteSet(DOMAIN z \cup {x})
  BY FS_AddElement DEF IsZSet
<1> QED BY <1>1, <1>2, <1>3 DEF IsZSet, w

LEMMA ZRemRangeDoes ==
    ASSUME NEW s, NEW k, NEW d
    PROVE  LET low == {x \in DOMAIN Hash(s, k) : Hash(s, k)[x] <= d}
           IN  TwinCommand(s, <<"ZREMRANGEBYSCORE", k, d>>) =
                 Reply(Cardinality(low), IF Live(s, k) = NoEntry THEN s
                                         ELSE Set(s, k, "zset", Without(Hash(s, k), low), Live(s, k).date))
BY DEF TwinCommand, SortedSets, Set, Rewritten, Hash

LEMMA ZRemDoes ==
    ASSUME NEW s, NEW k, NEW x
    PROVE  TwinCommand(s, <<"ZREM", k, x>>) =
             Reply(Cardinality(DOMAIN Hash(s, k) \cap {x}),
                   IF Live(s, k) = NoEntry THEN s
                   ELSE Set(s, k, "zset", Without(Hash(s, k), {x}), Live(s, k).date))
BY DEF TwinCommand, SortedSets, Set, Rewritten, Hash

LEMMA ZCardDoes ==
    ASSUME NEW s, NEW k
    PROVE  TwinCommand(s, <<"ZCARD", k>>) = Reply(Cardinality(DOMAIN Hash(s, k)), s)
BY DEF TwinCommand, SortedSets, Hash

LEMMA ZAddDoes ==
    ASSUME NEW s, NEW k, NEW v, NEW x
    PROVE  \E n : TwinCommand(s, <<"ZADD", k, v, x>>) =
             Reply(n, Set(s, k, "zset", Merged(One(x, v), Hash(s, k)), Live(s, k).date))
BY DEF TwinCommand, SortedSets, Set, Rewritten, Hash

-----------------------------------------------------------------------------
(* An admission, command by command: the two stores after each.             *)

Low(z, d) == {x \in DOMAIN z : z[x] <= d}
Apart(m, l, k) ==
    /\ IsStore(m) /\ IsStore(l) /\ AlikeBut(m, l, {k})
    /\ FitsEmptiable(k, Live(m, k)) /\ FitsEmptiable(k, Live(l, k))

\* The old members are dropped from the twin's store.
Trimmed(k, m, l, d) ==
    /\ Apart(m, l, k)
    /\ Hash(m, k) = Without(Hash(l, k), Low(Hash(l, k), d))
    /\ DOMAIN Hash(m, k) # {} => Live(m, k).date = Live(l, k).date

\* Lua has added the member, the twin will.
Missing(k, m, l, x, v, life) ==
    /\ Apart(m, l, k)
    /\ Hash(l, k) = Merged(One(x, v), Hash(m, k))
    /\ Live(l, k).date = clock + life

\* The twin has to set the date.
Undated(k, m, l, life) ==
    /\ Apart(m, l, k)
    /\ Hash(l, k) = Hash(m, k) /\ DOMAIN Hash(l, k) # {}
    /\ Live(l, k).date = clock + life

LEMMA GoodIsApart ==
    ASSUME NEW m, NEW l, NEW k \in ZSets
    PROVE  Good(m, l) <=> Apart(m, l, k) /\ Alike(k, Live(m, k), Live(l, k))
<1>1. k \in StoreKeys /\ k \in Emptiable
  BY SortedKeys
<1>2. ASSUME Good(m, l) PROVE Apart(m, l, k) /\ Alike(k, Live(m, k), Live(l, k))
  <2>1. \A j \in StoreKeys : Alike(j, Live(m, j), Live(l, j))
    BY <1>2 DEF Good, AlikeBut
  <2>2. AlikeBut(m, l, {k}) /\ Alike(k, Live(m, k), Live(l, k))
    BY <1>1, <2>1 DEF AlikeBut
  <2> QED BY <1>1, <1>2, <2>2 DEF Apart, Good, Alike
<1>3. ASSUME Apart(m, l, k), Alike(k, Live(m, k), Live(l, k)) PROVE Good(m, l)
  <2>1. \A j \in StoreKeys : Alike(j, Live(m, j), Live(l, j))
    BY <1>3 DEF Apart, AlikeBut
  <2>2. AlikeBut(m, l, {})
    BY <2>1 DEF AlikeBut
  <2> QED BY <1>3, <2>2 DEF Good, Apart
<1> QED BY <1>2, <1>3

LEMMA StaysApart ==
    ASSUME NEW m, NEW l, NEW k, Apart(m, l, k), NEW n, NEW o, IsStore(n), IsStore(o), SameBut(m, n, k),
           SameBut(l, o, k), FitsEmptiable(k, Live(n, k)), FitsEmptiable(k, Live(o, k))
    PROVE  Apart(n, o, k)
<1>1. AlikeBut(n, o, {k})
  <2> SUFFICES ASSUME NEW j \in StoreKeys \ {k} PROVE Alike(j, Live(n, j), Live(o, j))
    BY DEF AlikeBut
  <2>1. Live(n, j) = Live(m, j) /\ Live(o, j) = Live(l, j)
    BY DEF SameBut
  <2> QED BY <2>1 DEF Apart, AlikeBut
<1> QED BY <1>1 DEF Apart

LEMMA SameButItself == \A s, k : SameBut(s, s, k)
BY DEF SameBut

LEMMA DateLasts ==
    ASSUME NEW s, IsStore(s), NEW k \in ZSets, clock \in Int
    PROVE  Lasts(Live(s, k).date)
BY LiveIs, SortedKeys

\* A set with members taken out, as the twin's commands do it.
LEMMA TakenOut ==
    ASSUME NEW s, IsStore(s), NEW k \in ZSets, FitsEmptiable(k, Live(s, k)), NEW gone, clock \in Int
    PROVE  LET t == IF Live(s, k) = NoEntry THEN s
                    ELSE Set(s, k, "zset", Without(Hash(s, k), gone), Live(s, k).date)
           IN  /\ IsStore(t) /\ SameBut(s, t, k) /\ FitsEmptiable(k, Live(t, k))
               /\ Hash(t, k) = Without(Hash(s, k), gone) /\ Live(t, k).date = Live(s, k).date
<1>1. IsZSet(Hash(s, k)) /\ IsZSet(Without(Hash(s, k), gone)) /\ Lasts(Live(s, k).date)
  BY SortedIs, WithoutIs, DateLasts
<1>2. CASE Live(s, k) = NoEntry
  <2>1. Without(<<>>, gone) = <<>>
    BY DEF Without
  <2>2. Hash(s, k) = <<>>
    BY <1>2, SortedIs
  <2> QED BY <1>2, <2>1, <2>2, SameButItself
<1>3. CASE Live(s, k) # NoEntry
  <2> DEFINE z == Without(Hash(s, k), gone)
             date == Live(s, k).date
             t == Set(s, k, "zset", z, date)
  <2>1. IsZSet(z) /\ Lasts(date)
    BY <1>1
  <2> HIDE DEF z, date
  <2>2. IsStore(t) /\ SameBut(s, t, k) /\ FitsEmptiable(k, Live(t, k)) /\ Hash(t, k) = z /\ Live(t, k).date = date
    BY <2>1, ZSetIs
  <2> QED BY <1>3, <2>2 DEF z, date
<1> QED BY <1>2, <1>3

LEMMA ZRemRangeTrims ==
    ASSUME NEW m, NEW l, NEW k \in ZSets, Good(m, l), NEW d, clock \in Int
    PROVE  Trimmed(k, TwinCommand(m, <<"ZREMRANGEBYSCORE", k, d>>).store, l, d)
<1> DEFINE low == Low(Hash(m, k), d)
           t == IF Live(m, k) = NoEntry THEN m ELSE Set(m, k, "zset", Without(Hash(m, k), low), Live(m, k).date)
<1>1. Apart(m, l, k) /\ Alike(k, Live(m, k), Live(l, k))
  BY GoodIsApart
<1>2. TwinCommand(m, <<"ZREMRANGEBYSCORE", k, d>>).store = t
  BY ZRemRangeDoes, ReplyIs DEF Low
<1>3. /\ IsStore(t) /\ SameBut(m, t, k) /\ FitsEmptiable(k, Live(t, k))
      /\ Hash(t, k) = Without(Hash(m, k), low) /\ Live(t, k).date = Live(m, k).date
  BY <1>1, TakenOut DEF Apart
<1> HIDE DEF t
<1>4. Apart(t, l, k)
  BY <1>1, <1>3, StaysApart, SameButItself DEF Apart
<1>5. Hash(m, k) = Hash(l, k) /\ (DOMAIN Hash(m, k) # {} => Live(m, k) = Live(l, k))
  BY <1>1, SameSorted
<1>6. DOMAIN Hash(t, k) # {} => DOMAIN Hash(m, k) # {}
  BY <1>3 DEF Without
<1> QED BY <1>2, <1>3, <1>4, <1>5, <1>6 DEF Trimmed

LEMMA ZCardDecides ==
    ASSUME NEW m, NEW l, NEW k \in ZSets, NEW d, Trimmed(k, m, l, d), clock \in Int, NEW a, NEW v, NEW life,
           Lasts(clock + life)
    PROVE  LET n == Cardinality(DOMAIN Hash(m, k))
               lua == Admission(l, k, a, d, v, life)
           IN  /\ n >= a.limit => lua.answer = <<0, n>> /\ Good(m, lua.store)
               /\ ~(n >= a.limit) => lua.answer = <<1, n + 1>> /\ Missing(k, m, lua.store, a.member, v, life)
<1> DEFINE n == Cardinality(DOMAIN Hash(m, k))
           lua == Admission(l, k, a, d, v, life)
           z == Hash(m, k)
<1>0. k \in StoreKeys
  BY SortedKeys
<1>1. z = Without(Hash(l, k), {x \in DOMAIN Hash(l, k) : Hash(l, k)[x] <= d})
  BY DEF Trimmed, Low
<1>2. IsZSet(z) /\ (n = 0 <=> DOMAIN z = {})
  <2>1. IsZSet(z)
    BY SortedIs DEF Trimmed, Apart
  <2> QED BY <2>1, FS_EmptySet DEF IsZSet
<1>3. lua = IF n >= a.limit
            THEN Reply(<<0, n>>, IF n = 0 THEN [l EXCEPT ![k] = NoEntry] ELSE Set(l, k, "zset", z, Live(l, k).date))
            ELSE Reply(<<1, n + 1>>, Set(l, k, "zset", Merged(One(a.member, v), z), clock + life))
  BY <1>1 DEF Admission
<1> HIDE DEF lua
<1>4. CASE n >= a.limit /\ n = 0
  <2> DEFINE o == [l EXCEPT ![k] = NoEntry]
  <2>1. o = Set(l, k, "gone", Nil, Forever)
    BY DEF Set, NoEntry
  <2>2. Lasts(Forever) /\ Entry("gone", Nil, Forever) = NoEntry
    BY DEF Lasts, Forever, Entry, NoEntry
  <2>3. IsStore(o) /\ Live(o, k) = NoEntry /\ SameBut(l, o, k)
    <3>1. IsStore(l) /\ Forever \in Int
      BY DEF Trimmed, Apart, Forever
    <3>2. IsStore(o)
      <4>1. IsStore(Set(l, k, "gone", Nil, Forever))
        BY <1>0, <3>1, SetIs
      <4> QED BY <2>1, <4>1
    <3>3. /\ Live(Set(l, k, "gone", Nil, Forever), k) = Entry("gone", Nil, Forever)
          /\ \A j \in StoreKeys : j # k => Live(Set(l, k, "gone", Nil, Forever), j) = Live(l, j)
      BY <1>0, <2>2, <3>1, LiveSet
    <3> QED BY <2>1, <2>2, <3>2, <3>3 DEF SameBut
  <2> HIDE DEF o
  <2>4. FitsEmptiable(k, Live(o, k)) /\ Hash(o, k) = <<>>
    BY <2>3 DEF FitsEmptiable, Hash, Held
  <2>5. Apart(m, o, k)
    BY <2>3, <2>4, StaysApart, SameButItself DEF Trimmed, Apart
  <2>6. Alike(k, Live(m, k), Live(o, k))
    <3>1. Visible(Live(m, k)) = NoEntry
      BY <1>2, <1>4, EmptySorted DEF Trimmed, Apart
    <3>2. Visible(Live(o, k)) = NoEntry
      BY <2>3, NoEntryIs DEF Visible, Emptied
    <3> QED BY <2>5, <3>1, <3>2, SortedKeys DEF Alike, Apart
  <2>7. lua = Reply(<<0, n>>, o)
    BY <1>3, <1>4 DEF o
  <2> QED BY <1>4, <2>5, <2>6, <2>7, GoodIsApart, ReplyIs DEF lua
<1>5. CASE n >= a.limit /\ n # 0
  <2> DEFINE date == Live(l, k).date
             o == Set(l, k, "zset", z, date)
  <2>1. Lasts(date) /\ IsStore(l)
    BY DateLasts DEF Trimmed, Apart
  <2> HIDE DEF z
  <2>2. IsStore(o) /\ SameBut(l, o, k) /\ Hash(o, k) = z /\ FitsEmptiable(k, Live(o, k)) /\ Live(o, k).date = date
    BY <1>2, <2>1, ZSetIs
  <2> HIDE DEF o
  <2>3. Apart(m, o, k)
    BY <2>2, StaysApart, SameButItself DEF Trimmed, Apart
  <2>4. Live(m, k).date = date
    BY <1>2, <1>5 DEF Trimmed, z
  <2>5. Alike(k, Live(m, k), Live(o, k))
    BY <2>2, <2>3, <2>4, AlikeSorted DEF Apart, z
  <2>6. lua = Reply(<<0, n>>, o)
    BY <1>3, <1>5 DEF o
  <2> QED BY <1>5, <2>3, <2>5, <2>6, GoodIsApart, ReplyIs DEF lua
<1>6. CASE ~(n >= a.limit)
  <2> DEFINE w == Merged(One(a.member, v), z)
             o == Set(l, k, "zset", w, clock + life)
  <2>1. IsZSet(w)
    BY <1>2, OneMoreIs
  <2> HIDE DEF w
  <2>2. IsStore(o) /\ SameBut(l, o, k) /\ Hash(o, k) = w /\ FitsEmptiable(k, Live(o, k)) /\ Live(o, k).date = clock + life
    BY <2>1, ZSetIs DEF Trimmed, Apart
  <2>3. lua = Reply(<<1, n + 1>>, o)
    BY <1>3, <1>6 DEF w
  <2> HIDE DEF o
  <2>4. Apart(m, o, k)
    BY <2>2, StaysApart, SameButItself DEF Trimmed, Apart
  <2>5. Missing(k, m, o, a.member, v, life)
    BY <2>2, <2>4 DEF Missing, w
  <2> QED BY <1>6, <2>3, <2>5, ReplyIs DEF lua
<1> QED BY <1>4, <1>5, <1>6

LEMMA ZAddAdds ==
    ASSUME NEW m, NEW l, NEW k \in ZSets, NEW x, NEW v, NEW life, Missing(k, m, l, x, v, life), clock \in Int
    PROVE  Undated(k, TwinCommand(m, <<"ZADD", k, v, x>>).store, l, life)
<1> DEFINE w == Merged(One(x, v), Hash(m, k))
           t == Set(m, k, "zset", w, Live(m, k).date)
<1>1. TwinCommand(m, <<"ZADD", k, v, x>>).store = t
  BY ZAddDoes, ReplyIs
<1>2. IsZSet(w) /\ DOMAIN w # {} /\ Lasts(Live(m, k).date)
  <2>1. IsStore(m) /\ FitsEmptiable(k, Live(m, k))
    BY DEF Missing, Apart
  <2>2. IsZSet(Hash(m, k))
    BY <2>1, SortedIs
  <2>3. IsZSet(w) /\ DOMAIN w = DOMAIN Hash(m, k) \cup {x}
    BY <2>2, OneMoreIs
  <2>4. Lasts(Live(m, k).date)
    BY <2>1, DateLasts
  <2> QED BY <2>3, <2>4
<1>3. IsStore(t) /\ SameBut(m, t, k) /\ Hash(t, k) = w /\ FitsEmptiable(k, Live(t, k))
  <2> HIDE DEF w
  <2> QED BY <1>2, ZSetIs DEF Missing, Apart
<1> HIDE DEF t
<1>4. Apart(t, l, k)
  BY <1>3, StaysApart, SameButItself DEF Missing, Apart
<1> QED BY <1>1, <1>2, <1>3, <1>4 DEF Undated, Missing

LEMMA ExpireDates ==
    ASSUME NEW m, NEW l, NEW k \in ZSets, NEW life, Undated(k, m, l, life), clock \in Int, Lasts(clock + life)
    PROVE  /\ TwinCommand(m, <<"EXPIRE", k, life>>).answer = 1
           /\ Good(TwinCommand(m, <<"EXPIRE", k, life>>).store, l)
<1> DEFINE t == [m EXCEPT ![k].date = clock + life]
           z == Hash(m, k)
<1>0. k \in StoreKeys /\ IsStore(m) /\ FitsEmptiable(k, Live(m, k)) /\ IsZSet(z)
  BY SortedKeys, SortedIs DEF Undated, Apart
<1>1. Live(m, k) # NoEntry /\ z = Live(m, k).is /\ Live(m, k).type = "zset"
  BY <1>0, SortedIs DEF Undated
<1>2. TwinCommand(m, <<"EXPIRE", k, life>>) = Reply(1, t)
  BY <1>1 DEF TwinCommand, Keyspace
<1>3. m[k] = Entry("zset", z, m[k].date)
  <2>1. Live(m, k) = m[k] /\ IsEntry(m[k])
    BY <1>0, <1>1, LiveIs DEF IsStore
  <2> QED BY <1>1, <2>1 DEF IsEntry, Entry
<1>4. t = Set(m, k, "zset", z, clock + life)
  <2> HIDE DEF z
  <2>1. m = [j \in StoreKeys |-> m[j]]
    BY <1>0 DEF IsStore
  <2>2. Set(m, k, "zset", z, clock + life) = [j \in StoreKeys |-> IF j = k THEN Entry("zset", z, clock + life) ELSE m[j]]
    BY <2>1 DEF Set, Entry
  <2>3. [Entry("zset", z, m[k].date) EXCEPT !.date = clock + life] = Entry("zset", z, clock + life)
    BY DEF Entry
  <2>4. t = [j \in StoreKeys |-> IF j = k THEN Entry("zset", z, clock + life) ELSE m[j]]
    <3>1. [m[k] EXCEPT !.date = clock + life] = Entry("zset", z, clock + life)
      BY <1>3, <2>3
    <3> QED BY <2>1, <3>1
  <2> QED BY <2>2, <2>4
<1> HIDE DEF t, z
<1>5. IsStore(t) /\ SameBut(m, t, k) /\ Hash(t, k) = z /\ FitsEmptiable(k, Live(t, k)) /\ Live(t, k).date = clock + life
  BY <1>0, <1>4, ZSetIs
<1>6. Apart(t, l, k)
  BY <1>5, StaysApart, SameButItself DEF Undated, Apart
<1>7. Alike(k, Live(t, k), Live(l, k))
  BY <1>5, <1>6, AlikeSorted DEF Undated, Apart, z
<1> QED BY <1>2, <1>6, <1>7, GoodIsApart, ReplyIs

LEMMA AdmissionTwinIs ==
    ASSUME NEW key, NEW a, NEW dropped, NEW score, NEW life, NEW r, NEW does,
           does = AdmissionTwin(key, a, dropped, score, life, r)
    PROVE  /\ Len(r) = 0 => does = Do(<<"ZREMRANGEBYSCORE", key, dropped>>)
           /\ Len(r) = 1 => does = Do(<<"ZCARD", key>>)
           /\ Len(r) \in 2..4 /\ r[2] >= a.limit => does = Finished(<<0, r[2]>>)
           /\ ~(r[2] >= a.limit) =>
                /\ Len(r) = 2 => does = Do(<<"ZADD", key, score, a.member>>)
                /\ Len(r) = 3 => does = Do(<<"EXPIRE", key, life>>)
                /\ Len(r) = 4 => does = Finished(<<1, r[2] + 1>>)
<1> DEFINE counts == <<<<"ZREMRANGEBYSCORE", key, dropped>>, <<"ZCARD", key>>>>
           adds == <<<<"ZADD", key, score, a.member>>, <<"EXPIRE", key, life>>>>
           cmds == counts \o adds
<1>1. does = IF Len(r) < 2 THEN Do(counts[Len(r) + 1])
             ELSE IF r[2] >= a.limit THEN Finished(<<0, r[2]>>)
             ELSE Then(cmds, r, <<1, r[2] + 1>>)
  BY DEF AdmissionTwin
<1>2. counts[1] = <<"ZREMRANGEBYSCORE", key, dropped>> /\ counts[2] = <<"ZCARD", key>>
  OBVIOUS
<1>3. Len(cmds) = 4 /\ cmds[3] = <<"ZADD", key, score, a.member>> /\ cmds[4] = <<"EXPIRE", key, life>>
  OBVIOUS
<1> HIDE DEF cmds, counts
<1>4. /\ Len(r) = 0 => does = Do(<<"ZREMRANGEBYSCORE", key, dropped>>)
      /\ Len(r) = 1 => does = Do(<<"ZCARD", key>>)
  BY <1>1, <1>2
<1>5. Len(r) \in 2..4 /\ r[2] >= a.limit => does = Finished(<<0, r[2]>>)
  BY <1>1
<1>6. ASSUME ~(r[2] >= a.limit), Len(r) = 2 PROVE does = Do(<<"ZADD", key, score, a.member>>)
  <2>1. does = Then(cmds, r, <<1, r[2] + 1>>)
    BY <1>1, <1>6
  <2>2. Len(r) < Len(cmds) /\ cmds[Len(r) + 1] = cmds[3]
    BY <1>3, <1>6
  <2> QED BY <1>3, <2>1, <2>2, ThenIs
<1>7. ASSUME ~(r[2] >= a.limit), Len(r) = 3 PROVE does = Do(<<"EXPIRE", key, life>>)
  <2>1. does = Then(cmds, r, <<1, r[2] + 1>>)
    BY <1>1, <1>7
  <2>2. Len(r) < Len(cmds) /\ cmds[Len(r) + 1] = cmds[4]
    BY <1>3, <1>7
  <2> QED BY <1>3, <2>1, <2>2, ThenIs
<1>8. ASSUME ~(r[2] >= a.limit), Len(r) = 4 PROVE does = Finished(<<1, r[2] + 1>>)
  BY <1>1, <1>3, <1>8, ThenIs
<1> QED BY <1>4, <1>5, <1>6, <1>7, <1>8

LEMMA SlidingTwinIs ==
    ASSUME NEW a, a.name = "slidingSuccess", ~(a.limit <= 0), NEW r
    PROVE  /\ Len(r) = 0 => Twin(a, r) = Do(<<"ZREMRANGEBYSCORE", "successes", a.now - Life>>)
           /\ Len(r) = 1 => Twin(a, r) = Do(<<"ZCARD", "successes">>)
           /\ Len(r) \in 2..4 /\ r[2] >= a.limit => Twin(a, r) = Finished(<<0, r[2]>>)
           /\ ~(r[2] >= a.limit) =>
                /\ Len(r) = 2 => Twin(a, r) = Do(<<"ZADD", "successes", a.now, a.member>>)
                /\ Len(r) = 3 => Twin(a, r) = Do(<<"EXPIRE", "successes", Life>>)
                /\ Len(r) = 4 => Twin(a, r) = Finished(<<1, r[2] + 1>>)
<1> DEFINE does == Twin(a, r)
<1>1. does = AdmissionTwin("successes", a, a.now - Life, a.now, Life, r)
  BY DEF Twin, SlidingSuccessTwin
<1> HIDE DEF does
<1> QED BY <1>1, AdmissionTwinIs DEF does

LEMMA SlidingSuccessStarts ==
    ASSUME NEW m, NEW l, Good(m, l), clock \in Int, NEW a, a.name = "slidingSuccess"
    PROVE  Starts(a, m, l)
<1>1. CASE a.limit <= 0
  <2>1. Twin(a, <<>>) = Finished(<<1, 0>>)
    BY <1>1 DEF Twin, SlidingSuccessTwin
  <2>2. Script(a, l) = Reply(<<1, 0>>, l)
    BY <1>1 DEF Script, SLIDING_SUCCESS_LUA
  <2> QED BY <2>1, <2>2, EndsDone, ReplyIs DEF Starts
<1>2. CASE ~(a.limit <= 0)
  <2> DEFINE k == "successes"
             d == a.now - Life
             drops == TwinCommand(m, <<"ZREMRANGEBYSCORE", k, d>>)
             x == drops.answer
             s == drops.store
             n == Cardinality(DOMAIN Hash(s, k))
             lua == Admission(l, k, a, d, a.now, Life)
  <2>0. k \in ZSets /\ Lasts(clock + Life)
    BY LifeIs DEF ZSets, Lasts
  <2>1. Script(a, l) = lua
    BY <1>2 DEF Script, SLIDING_SUCCESS_LUA
  <2>3. Twin(a, <<>>) = Do(<<"ZREMRANGEBYSCORE", k, d>>)
    <3>1. PICK r : r = <<>>
      OBVIOUS
    <3>2. Len(r) = 0
      BY <3>1
    <3> QED BY <1>2, <3>1, <3>2, SlidingTwinIs DEF k, d
  <2>4. drops = Reply(x, s)
    <3>1. \E u, v : drops = Reply(u, v)
      BY ZRemRangeDoes
    <3> QED BY <3>1, ReplyIs
  <2>5. Trimmed(k, s, l, d)
    BY <2>0, ZRemRangeTrims
  <2> HIDE DEF k, d, x, s, drops, lua
  <2>6. /\ n >= a.limit => lua.answer = <<0, n>> /\ Good(s, lua.store)
        /\ ~(n >= a.limit) => lua.answer = <<1, n + 1>> /\ Missing(k, s, lua.store, a.member, a.now, Life)
    BY <2>0, <2>5, ZCardDecides DEF lua
  <2>7. TwinCommand(s, <<"ZCARD", k>>) = Reply(n, s)
    BY ZCardDoes
  <2> HIDE DEF n
  <2>8. Twin(a, <<x>>) = Do(<<"ZCARD", k>>)
    <3>1. PICK r : r = <<x>>
      OBVIOUS
    <3>2. Len(r) = 1
      BY <3>1
    <3> QED BY <1>2, <3>1, <3>2, SlidingTwinIs DEF k, d
  <2>9. Append(<<>>, x) = <<x>> /\ Append(<<x>>, n) = <<x, n>>
    BY Append0, Append1
  <2>10. \E last : Ends(a, <<x, n>>, s, lua.answer, last) /\ Good(last, lua.store)
    <3>1. CASE n >= a.limit
      <4>1. Twin(a, <<x, n>>) = Finished(<<0, n>>)
        <5>1. PICK r : r = <<x, n>>
          OBVIOUS
        <5>2. Len(r) \in 2..4 /\ r[2] = n
          BY <5>1
        <5> QED BY <1>2, <3>1, <5>1, <5>2, SlidingTwinIs DEF k, d
      <4> QED BY <2>6, <3>1, <4>1, EndsDone
    <3>2. CASE ~(n >= a.limit)
      <4> DEFINE adds == TwinCommand(s, <<"ZADD", k, a.now, a.member>>)
                 y == adds.answer
                 t == adds.store
                 ends == TwinCommand(t, <<"EXPIRE", k, Life>>)
      <4>1. adds = Reply(y, t)
        BY ZAddDoes, ReplyIs
      <4>2. Undated(k, t, lua.store, Life)
        BY <2>0, <2>6, <3>2, ZAddAdds
      <4> HIDE DEF y, t, adds
      <4>3. ends.answer = 1 /\ Good(ends.store, lua.store)
        BY <2>0, <4>2, ExpireDates
      <4>4. ends = Reply(1, ends.store)
        <5>1. Live(t, k) # NoEntry
          <6>1. DOMAIN Hash(t, k) # {} /\ FitsEmptiable(k, Live(t, k))
            BY <4>2 DEF Undated, Apart
          <6> QED BY <2>0, <6>1, SortedIs
        <5> QED BY <5>1, ReplyIs DEF TwinCommand, Keyspace
      <4>5. /\ Twin(a, <<x, n>>) = Do(<<"ZADD", k, a.now, a.member>>)
            /\ Twin(a, <<x, n, y>>) = Do(<<"EXPIRE", k, Life>>)
            /\ Twin(a, <<x, n, y, 1>>) = Finished(<<1, n + 1>>)
        <5>1. PICK r : r = <<x, n>>
          OBVIOUS
        <5>2. Len(r) = 2 /\ r[2] = n
          BY <5>1
        <5>3. Twin(a, <<x, n>>) = Do(<<"ZADD", k, a.now, a.member>>)
          BY <1>2, <3>2, <5>1, <5>2, SlidingTwinIs DEF k, d
        <5>4. PICK q : q = <<x, n, y>>
          OBVIOUS
        <5>5. Len(q) = 3 /\ q[2] = n
          BY <5>4
        <5>6. Twin(a, <<x, n, y>>) = Do(<<"EXPIRE", k, Life>>)
          BY <1>2, <3>2, <5>4, <5>5, SlidingTwinIs DEF k, d
        <5>7. PICK p : p = <<x, n, y, 1>>
          OBVIOUS
        <5>8. Len(p) = 4 /\ p[2] = n
          BY <5>7
        <5>9. Twin(a, <<x, n, y, 1>>) = Finished(<<1, n + 1>>)
          BY <1>2, <3>2, <5>7, <5>8, SlidingTwinIs DEF k, d
        <5> QED BY <5>3, <5>6, <5>9
      <4> HIDE DEF ends
      <4>6. Append(<<x, n>>, y) = <<x, n, y>> /\ Append(<<x, n, y>>, 1) = <<x, n, y, 1>>
        BY Append2, Append3
      <4>7. Ends(a, <<x, n, y, 1>>, ends.store, <<1, n + 1>>, ends.store)
        BY <4>5, EndsDone
      <4>8. Ends(a, <<x, n, y>>, t, <<1, n + 1>>, ends.store)
        <5>1. Ends(a, Append(<<x, n, y>>, 1), ends.store, <<1, n + 1>>, ends.store)
          BY <4>6, <4>7
        <5>2. TwinCommand(t, <<"EXPIRE", k, Life>>) = Reply(1, ends.store)
          BY <4>4 DEF ends
        <5> QED BY <4>5, <5>1, <5>2, EndsMore
      <4>9. Ends(a, <<x, n>>, s, <<1, n + 1>>, ends.store)
        <5>1. Ends(a, Append(<<x, n>>, y), t, <<1, n + 1>>, ends.store)
          BY <4>6, <4>8
        <5>2. TwinCommand(s, <<"ZADD", k, a.now, a.member>>) = Reply(y, t)
          BY <4>1 DEF adds
        <5> QED BY <4>5, <5>1, <5>2, EndsMore
      <4> QED BY <2>6, <3>2, <4>3, <4>9
    <3> QED BY <3>1, <3>2
  <2>11. PICK last : Ends(a, <<x, n>>, s, lua.answer, last) /\ Good(last, lua.store)
    BY <2>10
  <2>12. Ends(a, <<x>>, s, lua.answer, last)
    <3>1. Ends(a, Append(<<x>>, n), s, lua.answer, last)
      BY <2>9, <2>11
    <3> QED BY <2>7, <2>8, <3>1, EndsMore
  <2>13. Ends(a, <<>>, m, lua.answer, last)
    <3>1. Ends(a, Append(<<>>, x), s, lua.answer, last)
      BY <2>9, <2>12
    <3>2. TwinCommand(m, <<"ZREMRANGEBYSCORE", k, d>>) = Reply(x, s)
      BY <2>4 DEF drops
    <3> QED BY <2>3, <3>1, <3>2, EndsMore
  <2> QED BY <2>1, <2>11, <2>13 DEF Starts
<1> QED BY <1>1, <1>2

\* The twin of a call begun on m comes to n replies and the store s.
Reaches(a, m, r, n, s) ==
    /\ Replies(r, n)
    /\ \A answer, last : Ends(a, r, s, answer, last) => Ends(a, <<>>, m, answer, last)

LEMMA OneReplyMore ==
    ASSUME NEW r, NEW n \in Nat, Replies(r, n), NEW x
    PROVE  /\ Replies(Append(r, x), n + 1) /\ Append(r, x)[n + 1] = x
           /\ \A i \in 1..n : Append(r, x)[i] = r[i]
<1> DEFINE S == {r[i] : i \in 1..n} \cup {x}
<1>0. PICK q : q = Append(r, x)
  OBVIOUS
<1>1. n \in Nat /\ Len(r) = n /\ r = [i \in 1..n |-> r[i]]
  BY DEF Replies
<1>2. r \in Seq(S) /\ x \in S
  <2>1. \A i \in 1..n : r[i] \in S
    OBVIOUS
  <2> HIDE DEF S
  <2>2. r \in [1..n -> S]
    BY <1>1, <2>1
  <2>3. r \in Seq(S)
    BY <1>1, <2>2, SeqDef
  <2> QED BY <2>3 DEF S
<1> HIDE DEF S
<1>3. q \in Seq(S) /\ Len(q) = n + 1 /\ q[n + 1] = x /\ \A i \in 1..n : q[i] = r[i]
  BY <1>0, <1>1, <1>2, AppendProperties
<1>4. q = [i \in 1..(n + 1) |-> q[i]]
  BY <1>1, <1>3, LenProperties
<1>5. Replies(q, n + 1)
  BY <1>1, <1>3, <1>4 DEF Replies
<1> QED BY <1>0, <1>3, <1>5

LEMMA NoReplies == Replies(<<>>, 0)
<1>1. <<>> = [i \in 1..0 |-> <<>>[i]]
  OBVIOUS
<1> QED BY <1>1 DEF Replies

LEMMA AtStart == ASSUME NEW a, NEW m PROVE Reaches(a, m, <<>>, 0, m)
BY NoReplies DEF Reaches

LEMMA AtNext ==
    ASSUME NEW a, NEW m, NEW r, NEW n \in Nat, NEW s, Reaches(a, m, r, n, s), NEW c, Twin(a, r) = Do(c),
           NEW x, NEW t, TwinCommand(s, c) = Reply(x, t)
    PROVE  Reaches(a, m, Append(r, x), n + 1, t)
<1>0. PICK q : q = Append(r, x)
  OBVIOUS
<1>1. Replies(q, n + 1)
  <2>1. Replies(r, n)
    BY DEF Reaches
  <2> QED BY <1>0, <2>1, OneReplyMore
<1>2. ASSUME NEW answer, NEW last, Ends(a, q, t, answer, last) PROVE Ends(a, <<>>, m, answer, last)
  BY <1>0, <1>2, EndsMore DEF Reaches
<1>3. Reaches(a, m, q, n + 1, t)
  BY <1>1, <1>2 DEF Reaches
<1> QED BY <1>0, <1>3

LEMMA AtEnd ==
    ASSUME NEW a, NEW m, NEW r, NEW n, NEW s, Reaches(a, m, r, n, s), NEW answer, Twin(a, r) = Finished(answer)
    PROVE  Ends(a, <<>>, m, answer, s)
BY EndsDone DEF Reaches

\* Once the replies begin like r, what is left are the rest of some commands.
Runs(a, r, n, cmds, tuple) ==
    \A j \in Nat : \A q : Replies(q, n + j) /\ (\A i \in 1..n : q[i] = r[i]) => Twin(a, q) = Then(cmds, q, tuple)

LEMMA RunsOn ==
    ASSUME NEW a, NEW r, NEW n \in Nat, NEW cmds, NEW tuple, Runs(a, r, n, cmds, tuple),
           NEW q, \A i \in 1..n : q[i] = r[i]
    PROVE  Runs(a, q, n + 1, cmds, tuple)
<1> SUFFICES ASSUME NEW j \in Nat, NEW p, Replies(p, n + 1 + j), \A i \in 1..(n + 1) : p[i] = q[i]
             PROVE  Twin(a, p) = Then(cmds, p, tuple)
  BY DEF Runs
<1>1. \A i \in 1..n : p[i] = r[i]
  OBVIOUS
<1>2. j + 1 \in Nat /\ Replies(p, n + (j + 1))
  OBVIOUS
<1> QED BY <1>1, <1>2 DEF Runs

LEMMA RunsNext ==
    ASSUME NEW a, NEW m, NEW r, NEW n \in Nat, NEW s, Reaches(a, m, r, n, s), NEW cmds, NEW tuple,
           Runs(a, r, n, cmds, tuple), n < Len(cmds), NEW x, NEW t, TwinCommand(s, cmds[n + 1]) = Reply(x, t)
    PROVE  \E q : Reaches(a, m, q, n + 1, t) /\ Runs(a, q, n + 1, cmds, tuple)
<1>1. Replies(r, n + 0) /\ Len(r) = n
  BY DEF Reaches, Replies
<1>2. Twin(a, r) = Then(cmds, r, tuple)
  BY <1>1 DEF Runs
<1>3. Twin(a, r) = Do(cmds[n + 1])
  BY <1>1, <1>2, ThenIs
<1>4. PICK q : q = Append(r, x)
  OBVIOUS
<1>5. Reaches(a, m, q, n + 1, t) /\ \A i \in 1..n : q[i] = r[i]
  <2>1. PICK c : c = cmds[n + 1]
    OBVIOUS
  <2>2. Twin(a, r) = Do(c) /\ TwinCommand(s, c) = Reply(x, t)
    BY <1>3, <2>1
  <2>3. Reaches(a, m, q, n + 1, t)
    BY <1>4, <2>2, AtNext
  <2>4. \A i \in 1..n : q[i] = r[i]
    <3>1. Replies(r, n)
      BY DEF Reaches
    <3> QED BY <1>4, <3>1, OneReplyMore
  <2> QED BY <2>3, <2>4
<1> QED BY <1>5, RunsOn

LEMMA RunsOut ==
    ASSUME NEW a, NEW m, NEW r, NEW n \in Nat, NEW s, Reaches(a, m, r, n, s), NEW cmds, NEW tuple,
           Runs(a, r, n, cmds, tuple), n = Len(cmds)
    PROVE  Ends(a, <<>>, m, tuple, s)
<1>1. Replies(r, n + 0) /\ Len(r) = n
  BY DEF Reaches, Replies
<1>2. Twin(a, r) = Then(cmds, r, tuple)
  BY <1>1 DEF Runs
<1>3. Twin(a, r) = Finished(tuple)
  BY <1>1, <1>2, ThenIs
<1> QED BY <1>3, AtEnd

\* The rest is HSET and EXPIRE.
LEMMA OpensDo ==
    ASSUME NEW a, NEW m, NEW r, NEW n \in Nat, NEW s, Reaches(a, m, r, n, s), NEW cmds, NEW tuple,
           Runs(a, r, n, cmds, tuple), Len(cmds) = n + 2, IsStore(s), clock \in Int,
           NEW fields, cmds[n + 1] = <<"HSET", "ledger", fields>>, cmds[n + 2] = <<"EXPIRE", "ledger", Life>>
    PROVE  Ends(a, <<>>, m, tuple, Write(s, "ledger", fields, Life))
<1> DEFINE t == TwinCommand(s, <<"HSET", "ledger", fields>>).store
<1>0. "ledger" \in StoreKeys
  BY KeysAre
<1>1. /\ TwinCommand(s, <<"HSET", "ledger", fields>>) = Reply(0, t)
      /\ TwinCommand(t, <<"EXPIRE", "ledger", Life>>) = Reply(1, Write(s, "ledger", fields, Life))
  BY <1>0, HSetExpires, HSetDoes, ReplyIs
<1> HIDE DEF t
<1>2. PICK q : Reaches(a, m, q, n + 1, t) /\ Runs(a, q, n + 1, cmds, tuple)
  <2>1. n < Len(cmds)
    OBVIOUS
  <2> QED BY <1>1, <2>1, RunsNext
<1>3. PICK p : /\ Reaches(a, m, p, n + 2, Write(s, "ledger", fields, Life))
               /\ Runs(a, p, n + 2, cmds, tuple)
  <2>1. n + 1 \in Nat /\ n + 1 < Len(cmds) /\ (n + 1) + 1 = n + 2
    OBVIOUS
  <2>2. TwinCommand(t, cmds[(n + 1) + 1]) = Reply(1, Write(s, "ledger", fields, Life))
    BY <1>1, <2>1
  <2>3. \E p : /\ Reaches(a, m, p, (n + 1) + 1, Write(s, "ledger", fields, Life))
               /\ Runs(a, p, (n + 1) + 1, cmds, tuple)
    BY <1>2, <2>1, <2>2, RunsNext
  <2> QED BY <2>1, <2>3
<1>4. n + 2 \in Nat /\ n + 2 = Len(cmds)
  OBVIOUS
<1> QED BY <1>3, <1>4, RunsOut

\* A reply more, and what the replies are then.
EndsIn(q, n, x) == Len(q) = n /\ q[n] = x
BeginsLike(q, r, n) == \A i \in 1..n : q[i] = r[i]

LEMMA GetsOn ==
    ASSUME NEW a, NEW m, NEW r, NEW n \in Nat, NEW s, Reaches(a, m, r, n, s), NEW c, Twin(a, r) = Do(c),
           NEW x, NEW t, TwinCommand(s, c) = Reply(x, t)
    PROVE  \E q : Reaches(a, m, q, n + 1, t) /\ EndsIn(q, n + 1, x) /\ BeginsLike(q, r, n)
<1>0. PICK q : q = Append(r, x)
  OBVIOUS
<1>1. Reaches(a, m, q, n + 1, t)
  BY <1>0, AtNext
<1>2. Replies(r, n)
  BY DEF Reaches
<1>3. Replies(q, n + 1) /\ q[n + 1] = x /\ \A i \in 1..n : q[i] = r[i]
  BY <1>0, <1>2, OneReplyMore
<1>4. EndsIn(q, n + 1, x) /\ BeginsLike(q, r, n)
  BY <1>3 DEF Replies, EndsIn, BeginsLike
<1> QED BY <1>1, <1>4

-----------------------------------------------------------------------------
(* The ledger, the counters and the journal.                                *)

LEMMA AddIs ==
    ASSUME NEW s, IsStore(s), NEW k \in StoreKeys, NEW by, clock \in Int
    PROVE  /\ IsStore(Add(s, k, by)) /\ Value(Add(s, k, by), k) = Or(Value(s, k), 0) + by
           /\ \A j \in StoreKeys : j # k => Live(Add(s, k, by), j) = Live(s, j)
<1> DEFINE n == Or(Value(s, k), 0) + by
           t == Set(s, k, "scalar", n, Live(s, k).date)
<1>1. Lasts(Live(s, k).date)
  BY LiveIs
<1>2. IsStore(t)
  BY <1>1, SetIs DEF Lasts
<1>3. Live(t, k) = Entry("scalar", n, Live(s, k).date) /\ \A j \in StoreKeys : j # k => Live(t, j) = Live(s, j)
  BY <1>1, LiveSet
<1>4. Add(s, k, by) = t
  BY DEF Add
<1>5. Value(t, k) = n
  BY <1>3, EntryIs DEF Value
<1> QED BY <1>2, <1>3, <1>4, <1>5

LEMMA CounterIs ==
    ASSUME NEW m, NEW l, Good(m, l), NEW k \in {"user", "token"}, clock \in Int
    PROVE  /\ Value(m, k) = Value(l, k) /\ Value(l, k) \in Int \cup {Nil}
           /\ Or(Value(l, k), 0) \in Int /\ Or(Value(l, k), -1) \in Int
           /\ Live(m, k) = Live(l, k)
<1>0. k \in StoreKeys \ Emptiable
  BY KeysAre
<1>1. Live(m, k) = Live(l, k) /\ Fits(k, Live(l, k)) /\ Value(m, k) = Value(l, k)
  BY <1>0, GoodLive
<1>2. Value(l, k) \in Int \cup {Nil}
  BY <1>1, NoEntryIs DEF Fits, Value
<1> QED BY <1>1, <1>2 DEF Or

LEMMA GoodAdd ==
    ASSUME NEW m, NEW l, Good(m, l), NEW k \in {"user", "token"}, NEW by \in Int, clock \in Int
    PROVE  Good(Add(m, k, by), Add(l, k, by))
<1> DEFINE n == Or(Value(l, k), 0) + by
<1>0. k \in StoreKeys \ Emptiable
  BY KeysAre
<1>1. Live(m, k) = Live(l, k) /\ Lasts(Live(m, k).date) /\ Value(m, k) = Value(l, k)
  BY <1>0, GoodLive
<1>2. n \in Int
  BY CounterIs
<1>3. Add(m, k, by) = Set(m, k, "scalar", n, Live(m, k).date) /\ Add(l, k, by) = Set(l, k, "scalar", n, Live(m, k).date)
  BY <1>1 DEF Add
<1> HIDE DEF n
<1>4. Fits(k, Entry("scalar", n, Live(m, k).date))
  BY <1>2, EntryIs DEF Fits, Emptied
<1> QED BY <1>0, <1>1, <1>3, <1>4, GoodSet

LEMMA JournalIs ==
    ASSUME NEW l, Fits("journal", Live(l, "journal"))
    PROVE  \E n \in Nat : Replies(Held(l, "journal", <<>>), n)
<1>1. CASE Live(l, "journal") = NoEntry
  BY <1>1, NoReplies DEF Held
<1>2. CASE Live(l, "journal") # NoEntry
  BY <1>2 DEF Fits, Held, Replies
<1> QED BY <1>1, <1>2

LEMMA GoodClosed ==
    ASSUME NEW m, NEW l, Good(m, l), clock \in Int, NEW state, state # "open", NEW entry
    PROVE  Good(ClosedLedger(m, state, entry), ClosedLedger(l, state, entry))
<1> DEFINE fields == [state |-> state]
           is == Merged(fields, Hash(l, "ledger"))
           n == Write(m, "ledger", fields, Life)
           o == Write(l, "ledger", fields, Life)
           list == Held(l, "journal", <<>>)
<1>0. /\ "ledger" \in StoreKeys \ Emptiable /\ "journal" \in StoreKeys \ Emptiable
      /\ Lasts(clock + Life)
  BY KeysAre, LifeIs DEF Lasts
<1>1. Good(n, o)
  <2>1. Field(is, "state") = state
    BY DEF Merged, Field
  <2> HIDE DEF is
  <2>2. Fits("ledger", Entry("hash", is, clock + Life))
    BY <2>1, EntryIs DEF Fits, Emptied
  <2> QED BY <1>0, <2>2, GoodWrite DEF is
<1>2. Held(m, "journal", <<>>) = list /\ Fits("journal", Live(l, "journal"))
  BY <1>0, GoodLive
<1>3. PICK c \in Nat : Replies(list, c)
  BY <1>2, JournalIs
<1> HIDE DEF list
<1>4. PICK longer : longer = Append(list, entry)
  OBVIOUS
<1>5. Replies(longer, c + 1)
  BY <1>3, <1>4, OneReplyMore
<1>6. Fits("journal", Entry("list", longer, clock + Life))
  <2>1. DOMAIN longer = 1..(c + 1) /\ Len(longer) = c + 1
    BY <1>5 DEF Replies
  <2>2. 1 \in DOMAIN longer
    BY <2>1
  <2>3. Replies(longer, Len(longer))
    BY <1>5, <2>1
  <2> QED BY <2>2, <2>3, EntryIs DEF Fits, Emptied
<1> HIDE DEF n, o
<1>7. Good(Set(n, "journal", "list", longer, clock + Life), Set(o, "journal", "list", longer, clock + Life))
  BY <1>0, <1>1, <1>6, GoodSet
<1>8. ClosedLedger(m, state, entry) = Set(n, "journal", "list", longer, clock + Life)
  BY <1>2, <1>4 DEF ClosedLedger, n, list
<1>9. ClosedLedger(l, state, entry) = Set(o, "journal", "list", longer, clock + Life)
  BY <1>4 DEF ClosedLedger, o, list
<1> QED BY <1>7, <1>8, <1>9

\* The rest closes the reservation.
LEMMA ClosesDo ==
    ASSUME NEW a, NEW m, NEW r, NEW n \in Nat, NEW s, Reaches(a, m, r, n, s), NEW cmds, NEW tuple,
           Runs(a, r, n, cmds, tuple), Len(cmds) = n + 4, IsStore(s), clock \in Int, NEW state, NEW entry,
           cmds[n + 1] = <<"HSET", "ledger", [state |-> state]>>, cmds[n + 2] = <<"EXPIRE", "ledger", Life>>,
           cmds[n + 3] = <<"RPUSH", "journal", entry>>, cmds[n + 4] = <<"EXPIRE", "journal", Life>>
    PROVE  Ends(a, <<>>, m, tuple, ClosedLedger(s, state, entry))
<1> DEFINE fields == [state |-> state]
           t == TwinCommand(s, <<"HSET", "ledger", fields>>).store
           w == Write(s, "ledger", fields, Life)
           longer == Append(Held(w, "journal", <<>>), entry)
           x == Len(Held(w, "journal", <<>>)) + 1
           p == Set(w, "journal", "list", longer, Live(w, "journal").date)
           last == Set(w, "journal", "list", longer, clock + Life)
<1>0. "ledger" \in StoreKeys /\ "journal" \in StoreKeys /\ Lasts(clock + Life)
  BY KeysAre, LifeIs DEF Lasts
<1>1. /\ TwinCommand(s, <<"HSET", "ledger", fields>>) = Reply(0, t)
      /\ TwinCommand(t, <<"EXPIRE", "ledger", Life>>) = Reply(1, w)
  BY <1>0, HSetExpires, HSetDoes, ReplyIs
<1>2. IsStore(w) /\ Live(w, "journal") = Live(s, "journal")
  BY <1>0, SetIs, LiveSet DEF Write, Lasts
<1>3. TwinCommand(w, <<"RPUSH", "journal", entry>>) = Reply(x, p)
  BY RPushDoes
<1>4. TwinCommand(p, <<"EXPIRE", "journal", Life>>) = Reply(1, last)
  <2>1. Lasts(Live(w, "journal").date)
    BY <1>0, <1>2, LiveIs
  <2> QED BY <1>0, <1>2, <2>1, ExpireDoes
<1>5. ClosedLedger(s, state, entry) = last
  BY <1>2 DEF ClosedLedger, Held
<1> HIDE DEF fields, t, w, longer, x, p, last
<1>6. /\ n + 1 \in Nat /\ n + 2 \in Nat /\ n + 3 \in Nat /\ n + 4 \in Nat
      /\ n < Len(cmds) /\ n + 1 < Len(cmds) /\ n + 2 < Len(cmds) /\ n + 3 < Len(cmds) /\ n + 4 = Len(cmds)
      /\ (n + 1) + 1 = n + 2 /\ (n + 2) + 1 = n + 3 /\ (n + 3) + 1 = n + 4
  OBVIOUS
<1>7. PICK q1 : Reaches(a, m, q1, n + 1, t) /\ Runs(a, q1, n + 1, cmds, tuple)
  <2>1. TwinCommand(s, cmds[n + 1]) = Reply(0, t)
    BY <1>1 DEF fields
  <2> QED BY <1>6, <2>1, RunsNext
<1>8. PICK q2 : Reaches(a, m, q2, n + 2, w) /\ Runs(a, q2, n + 2, cmds, tuple)
  <2>1. TwinCommand(t, cmds[(n + 1) + 1]) = Reply(1, w)
    BY <1>1, <1>6
  <2>2. \E q : Reaches(a, m, q, (n + 1) + 1, w) /\ Runs(a, q, (n + 1) + 1, cmds, tuple)
    BY <1>6, <1>7, <2>1, RunsNext
  <2> QED BY <1>6, <2>2
<1>9. PICK q3 : Reaches(a, m, q3, n + 3, p) /\ Runs(a, q3, n + 3, cmds, tuple)
  <2>1. TwinCommand(w, cmds[(n + 2) + 1]) = Reply(x, p)
    BY <1>3, <1>6
  <2>2. \E q : Reaches(a, m, q, (n + 2) + 1, p) /\ Runs(a, q, (n + 2) + 1, cmds, tuple)
    BY <1>6, <1>8, <2>1, RunsNext
  <2> QED BY <1>6, <2>2
<1>10. PICK q4 : Reaches(a, m, q4, n + 4, last) /\ Runs(a, q4, n + 4, cmds, tuple)
  <2>1. TwinCommand(p, cmds[(n + 3) + 1]) = Reply(1, last)
    BY <1>4, <1>6
  <2>2. \E q : Reaches(a, m, q, (n + 3) + 1, last) /\ Runs(a, q, (n + 3) + 1, cmds, tuple)
    BY <1>6, <1>9, <2>1, RunsNext
  <2> QED BY <1>6, <2>2
<1> QED BY <1>5, <1>6, <1>10, RunsOut

\* What reserve does once nothing speaks against it.
LEMMA ReservePays ==
    ASSUME NEW a, a.name = "reserve", a.amount \in Int, ~a.unlimited, a.capped \in BOOLEAN,
           NEW m, IsStore(m), clock \in Int, NEW asked \in Nat, asked = IF a.capped THEN 3 ELSE 2,
           NEW r, Reaches(a, m, r, asked, m), r[1] # 1,
           NEW balance \in Int, balance = Or(r[2], -1), balance = Or(Value(m, "user"), 0),
           ~(balance < 0), ~(balance < a.amount),
           NEW private \in Int, private = IF a.capped THEN Or(r[3], -1) ELSE -1,
           ~(private \in 0..(a.amount - 1))
    PROVE  LET paid    == Add(m, "user", -a.amount)
               debited == IF private >= 0 THEN Add(paid, "token", -a.amount) ELSE paid
           IN  Ends(a, <<>>, m, <<1, balance - a.amount>>, Write(debited, "ledger", Opened(a), Life))
<1> DEFINE pays == <<"INCRBY", "user", -a.amount>>
           caps == <<"INCRBY", "token", -a.amount>>
           sets == <<"HSET", "ledger", Opened(a)>>
           dates == <<"EXPIRE", "ledger", Life>>
           gets == [n \in 1..asked |-> "GET"]
           debits == IF private >= 0 THEN <<pays, caps>> ELSE <<pays>>
           cmds == gets \o debits \o <<sets, dates>>
           paid == Add(m, "user", -a.amount)
           both == Add(paid, "token", -a.amount)
           left == balance - a.amount
<1>0. "user" \in StoreKeys /\ "token" \in StoreKeys
  BY KeysAre
<1>1. IsStore(paid) /\ IsStore(both)
  BY <1>0, AddIs
<1>2. ASSUME NEW q, NEW n \in Nat, Replies(q, n), n >= asked, q[1] = r[1], q[2] = r[2], q[3] = r[3] \/ ~a.capped
      PROVE  Twin(a, q) = Then(cmds, q, <<1, q[asked + 1]>>)
  <2>1. q # <<>> /\ Len(q) # 1 /\ ~(Len(q) < asked) /\ q[1] # 1
    <3>1. Len(q) = n
      BY <1>2 DEF Replies
    <3>2. Len(<<>>) = 0
      OBVIOUS
    <3> QED BY <1>2, <3>1, <3>2
  <2>2. Or(q[2], -1) = balance /\ private = IF a.capped THEN Or(q[3], -1) ELSE -1
    BY <1>2
  <2>3. Twin(a, q) = ReserveTwin(a, q)
    BY DEF Twin
  <2> HIDE DEF sets, dates
  <2>4. cmds = [n_1 \in 1..asked |-> "GET"]
                 \o (IF private >= 0 THEN <<<<"INCRBY", "user", -a.amount>>, <<"INCRBY", "token", -a.amount>>>>
                     ELSE <<<<"INCRBY", "user", -a.amount>>>>) \o <<sets, dates>>
    OBVIOUS
  <2> HIDE DEF cmds
  <2> QED BY <2>1, <2>2, <2>3, <2>4 DEF ReserveTwin, sets, dates
<1>3. /\ Len(cmds) = IF private >= 0 THEN asked + 4 ELSE asked + 3
      /\ cmds[asked + 1] = pays
      /\ private >= 0 => cmds[asked + 2] = caps /\ cmds[asked + 3] = sets /\ cmds[asked + 4] = dates
      /\ ~(private >= 0) => cmds[asked + 2] = sets /\ cmds[asked + 3] = dates
  <2> HIDE DEF pays, caps, sets, dates
  <2>1. Len(gets) = asked
    OBVIOUS
  <2>2. CASE private >= 0
    <3>1. cmds = gets \o <<pays, caps>> \o <<sets, dates>>
      BY <2>2
    <3> HIDE DEF cmds
    <3> QED BY <2>2, <3>1
  <2>3. CASE ~(private >= 0)
    <3>1. cmds = gets \o <<pays>> \o <<sets, dates>>
      BY <2>3
    <3> HIDE DEF cmds
    <3> QED BY <2>3, <3>1
  <2> QED BY <2>2, <2>3
<1> HIDE DEF cmds, gets
<1>4. Twin(a, r) = Do(pays)
  <2>1. Replies(r, asked) /\ asked >= asked /\ Len(r) = asked
    BY DEF Reaches, Replies
  <2>2. Twin(a, r) = Then(cmds, r, <<1, r[asked + 1]>>)
    BY <1>2, <2>1
  <2>3. Len(r) < Len(cmds) /\ cmds[Len(r) + 1] = pays
    BY <1>3, <2>1
  <2> QED BY <2>2, <2>3, ThenIs
<1>5. TwinCommand(m, pays) = Reply(left, paid)
  <2>1. TwinCommand(m, pays) = Reply(Or(Value(m, "user"), 0) + (-a.amount), paid)
    BY IncrByDoes
  <2>2. balance + (-a.amount) = left
    OBVIOUS
  <2> QED BY <2>1, <2>2
<1> HIDE DEF pays, caps, sets, dates, paid, both, left
<1>6. PICK q : Reaches(a, m, q, asked + 1, paid) /\ EndsIn(q, asked + 1, left) /\ BeginsLike(q, r, asked)
  BY <1>4, <1>5, GetsOn
<1>7. Runs(a, q, asked + 1, cmds, <<1, left>>)
  <2> SUFFICES ASSUME NEW j \in Nat, NEW p, Replies(p, asked + 1 + j), \A i \in 1..(asked + 1) : p[i] = q[i]
               PROVE  Twin(a, p) = Then(cmds, p, <<1, left>>)
    BY DEF Runs
  <2>1. q[1] = r[1] /\ q[2] = r[2] /\ (a.capped => q[3] = r[3]) /\ q[asked + 1] = left
    BY <1>6 DEF EndsIn, BeginsLike
  <2>2. p[1] = q[1] /\ p[2] = q[2] /\ (a.capped => p[3] = q[3]) /\ p[asked + 1] = q[asked + 1]
    OBVIOUS
  <2>3. asked + 1 + j \in Nat /\ asked + 1 + j >= asked
    OBVIOUS
  <2> QED BY <1>2, <2>1, <2>2, <2>3
<1>8. CASE private >= 0
  <2>1. TwinCommand(paid, caps) = Reply(Or(Value(paid, "token"), 0) + (-a.amount), both)
    BY IncrByDoes DEF caps, both
  <2>2. PICK x : x = Or(Value(paid, "token"), 0) + (-a.amount)
    OBVIOUS
  <2>3. /\ asked + 1 \in Nat /\ asked + 1 < Len(cmds) /\ (asked + 1) + 1 = asked + 2
        /\ asked + 2 \in Nat /\ Len(cmds) = (asked + 2) + 2
        /\ (asked + 2) + 1 = asked + 3 /\ (asked + 2) + 2 = asked + 4
    BY <1>3, <1>8
  <2>4. TwinCommand(paid, cmds[(asked + 1) + 1]) = Reply(x, both)
    BY <1>3, <1>8, <2>1, <2>2, <2>3
  <2>5. \E p : Reaches(a, m, p, (asked + 1) + 1, both) /\ Runs(a, p, (asked + 1) + 1, cmds, <<1, left>>)
    BY <1>6, <1>7, <2>3, <2>4, RunsNext
  <2>6. PICK p : Reaches(a, m, p, asked + 2, both) /\ Runs(a, p, asked + 2, cmds, <<1, left>>)
    BY <2>3, <2>5
  <2>7. cmds[(asked + 2) + 1] = sets /\ cmds[(asked + 2) + 2] = dates
    BY <1>3, <1>8, <2>3
  <2>8. Ends(a, <<>>, m, <<1, left>>, Write(both, "ledger", Opened(a), Life))
    BY <1>1, <2>3, <2>6, <2>7, OpensDo DEF sets, dates
  <2> QED BY <1>8, <2>8 DEF both, paid, left
<1>9. CASE ~(private >= 0)
  <2>1. /\ asked + 1 \in Nat /\ Len(cmds) = (asked + 1) + 2
        /\ (asked + 1) + 1 = asked + 2 /\ (asked + 1) + 2 = asked + 3
    BY <1>3, <1>9
  <2>2. cmds[(asked + 1) + 1] = sets /\ cmds[(asked + 1) + 2] = dates
    BY <1>3, <1>9, <2>1
  <2>3. Ends(a, <<>>, m, <<1, left>>, Write(paid, "ledger", Opened(a), Life))
    BY <1>1, <1>6, <1>7, <2>1, <2>2, OpensDo DEF sets, dates
  <2> QED BY <1>9, <2>3 DEF paid, left
<1> QED BY <1>8, <1>9

LEMMA EmptyLength == Len(<<>>) = 0
OBVIOUS

\* The questions reserve asks before it pays.
LEMMA ReserveAsks ==
    ASSUME NEW a, a.name = "reserve", NEW r, NEW balance, balance = Or(r[2], -1), NEW private,
           private = IF a.capped THEN Or(r[3], -1) ELSE -1, r # <<>>, r[1] # 1, ~a.unlimited
    PROVE  /\ Len(r) = 1 => Twin(a, r) = Do(<<"GET", "user">>)
           /\ Len(r) # 1 =>
                /\ balance < 0 => Twin(a, r) = Finished(<<3, 0>>)
                /\ ~(balance < 0) /\ balance < a.amount => Twin(a, r) = Finished(<<0, balance>>)
                /\ ~(balance < 0) /\ ~(balance < a.amount) =>
                     /\ Len(r) = 2 /\ a.capped => Twin(a, r) = Do(<<"GET", "token">>)
                     /\ Len(r) = (IF a.capped THEN 3 ELSE 2) /\ private \in 0..(a.amount - 1) =>
                          Twin(a, r) = Finished(<<0, private>>)
<1> DEFINE debits == IF private >= 0
                       THEN <<<<"INCRBY", "user", -a.amount>>, <<"INCRBY", "token", -a.amount>>>>
                       ELSE <<<<"INCRBY", "user", -a.amount>>>>
           asked == IF a.capped THEN 3 ELSE 2
           ends == <<<<"HSET", "ledger", Opened(a)>>, <<"EXPIRE", "ledger", Life>>>>
           counts == <<"EXISTS", <<"GET", "user">>>>
           opens == Then(<<"EXISTS">> \o ends, r, <<1, -1>>)
           pays == Then([n \in 1..asked |-> "GET"] \o debits \o ends, r, <<1, r[asked + 1]>>)
<1>1. Twin(a, r) =
        IF r = <<>> THEN Do(<<"EXISTS", "ledger">>)
        ELSE IF r[1] = 1 THEN Then(counts, r, <<2, Or(r[2], 0)>>)
        ELSE IF a.unlimited THEN opens
        ELSE IF Len(r) = 1 THEN Do(<<"GET", "user">>)
        ELSE IF balance < 0 THEN Finished(<<3, 0>>)
        ELSE IF balance < a.amount THEN Finished(<<0, balance>>)
        ELSE IF Len(r) < asked THEN Do(<<"GET", "token">>)
        ELSE IF private \in 0..(a.amount - 1) THEN Finished(<<0, private>>)
        ELSE pays
  BY DEF Twin, ReserveTwin
<1> HIDE DEF debits, ends, counts, opens, pays
<1> QED BY <1>1

LEMMA ReserveFinds ==
    ASSUME NEW a, a.name = "reserve", NEW r, r[1] = 1
    PROVE  /\ Len(r) = 1 => Twin(a, r) = Do(<<"GET", "user">>)
           /\ Len(r) = 2 => Twin(a, r) = Finished(<<2, Or(r[2], 0)>>)
<1> DEFINE counts == <<"EXISTS", <<"GET", "user">>>>
<1>1. r # <<>> => Twin(a, r) = Then(counts, r, <<2, Or(r[2], 0)>>)
  BY DEF Twin, ReserveTwin
<1>2. Len(counts) = 2 /\ counts[2] = <<"GET", "user">>
  OBVIOUS
<1> HIDE DEF counts
<1>3. ASSUME Len(r) = 1 PROVE Twin(a, r) = Do(<<"GET", "user">>)
  <2>1. r # <<>>
    BY <1>3, EmptyLength
  <2>2. Twin(a, r) = Then(counts, r, <<2, Or(r[2], 0)>>)
    BY <1>1, <2>1
  <2>3. Len(r) < Len(counts) /\ counts[Len(r) + 1] = <<"GET", "user">>
    BY <1>2, <1>3
  <2> QED BY <2>2, <2>3, ThenIs
<1>4. ASSUME Len(r) = 2 PROVE Twin(a, r) = Finished(<<2, Or(r[2], 0)>>)
  BY <1>1, <1>2, <1>4, EmptyLength, ThenIs
<1> QED BY <1>3, <1>4

LEMMA OpenedIs ==
    ASSUME NEW m, NEW l, Good(m, l), clock \in Int, NEW a, a.unlimited \in BOOLEAN, a.amount \in Int
    PROVE  Good(Write(m, "ledger", Opened(a), Life), Write(l, "ledger", Opened(a), Life))
<1> DEFINE is == Merged(Opened(a), Hash(l, "ledger"))
<1>0. "ledger" \in StoreKeys \ Emptiable /\ Lasts(clock + Life)
  BY KeysAre, LifeIs DEF Lasts
<1>1. Field(is, "amount") \in Int /\ Field(is, "unlimited") \in BOOLEAN
  BY DEF Merged, Field, Opened
<1> HIDE DEF is
<1>2. Fits("ledger", Entry("hash", is, clock + Life))
  BY <1>1, EntryIs DEF Fits, Emptied
<1> QED BY <1>0, <1>2, GoodWrite DEF is

LEMMA ReserveStarts ==
    ASSUME NEW m, NEW l, Good(m, l), clock \in Int, NEW a, a.name = "reserve",
           a.amount \in Int, a.unlimited \in BOOLEAN, a.capped \in BOOLEAN
    PROVE  Starts(a, m, l)
<1> DEFINE u == Value(l, "user")
           v == Value(l, "token")
           there == IF Live(l, "ledger") = NoEntry THEN 0 ELSE 1
<1>0. "ledger" \in StoreKeys \ Emptiable
  BY KeysAre
<1>1. /\ Value(m, "user") = u /\ u \in Int \cup {Nil} /\ Or(u, 0) \in Int /\ Or(u, -1) \in Int
      /\ Value(m, "token") = v /\ Or(v, -1) \in Int
      /\ Live(m, "ledger") = Live(l, "ledger") /\ IsStore(m)
  BY <1>0, CounterIs, GoodLive
<1>2. TwinCommand(m, <<"EXISTS", "ledger">>) = Reply(there, m)
  BY <1>1, ExistsDoes
<1>3. TwinCommand(m, <<"GET", "user">>) = Reply(u, m) /\ TwinCommand(m, <<"GET", "token">>) = Reply(v, m)
  BY <1>1, GetDoes
<1>4. Script(a, l) = RESERVE_LUA(l, a)
  BY DEF Script
<1>5. ASSUME NEW q PROVE Twin(a, q) = ReserveTwin(a, q)
  BY DEF Twin
<1> DEFINE balance == Or(u, -1)
           private == IF a.capped THEN Or(v, -1) ELSE -1
           Pays(s) == IF private >= 0 THEN Add(Add(s, "user", -a.amount), "token", -a.amount)
                      ELSE Add(s, "user", -a.amount)
<1>6. RESERVE_LUA(l, a) =
        IF there = 1 THEN Reply(<<2, Or(u, 0)>>, l)
        ELSE IF a.unlimited THEN Reply(<<1, -1>>, Write(l, "ledger", Opened(a), Life))
        ELSE IF balance < 0 THEN Reply(<<3, 0>>, l)
        ELSE IF balance < a.amount THEN Reply(<<0, balance>>, l)
        ELSE IF private >= 0 /\ private < a.amount THEN Reply(<<0, private>>, l)
        ELSE Reply(<<1, balance - a.amount>>, Write(Pays(l), "ledger", Opened(a), Life))
  BY DEF RESERVE_LUA
<1>7. private \in Int /\ balance \in Int
  BY <1>1
<1> HIDE DEF u, v, there, balance, private
<1>8. PICK q1 : Reaches(a, m, q1, 1, m) /\ EndsIn(q1, 1, there)
  <2>1. Twin(a, <<>>) = Do(<<"EXISTS", "ledger">>)
    BY <1>5 DEF ReserveTwin
  <2>2. \E q : Reaches(a, m, q, 0 + 1, m) /\ EndsIn(q, 0 + 1, there) /\ BeginsLike(q, <<>>, 0)
    BY <1>2, <2>1, AtStart, GetsOn
  <2> QED BY <2>2
<1>9. Len(q1) = 1 /\ q1[1] = there /\ q1 # <<>>
  <2>1. Len(q1) = 1 /\ q1[1] = there
    BY <1>8 DEF EndsIn
  <2>2. Len(q1) = 1
    BY <2>1
  <2>3. q1 # <<>>
    <3>1. Len(q1) # Len(<<>>)
      BY <2>2, EmptyLength
    <3> QED BY <3>1, Zenon
  <2> QED BY <2>1, <2>3
<1>10. CASE there = 1
  <2>1. Twin(a, q1) = Do(<<"GET", "user">>)
    BY <1>9, <1>10, ReserveFinds
  <2>2. PICK q2 : Reaches(a, m, q2, 2, m) /\ EndsIn(q2, 2, u) /\ BeginsLike(q2, q1, 1)
    <3>1. \E q : Reaches(a, m, q, 1 + 1, m) /\ EndsIn(q, 1 + 1, u) /\ BeginsLike(q, q1, 1)
      BY <1>3, <1>8, <2>1, GetsOn
    <3> QED BY <3>1
  <2>3. Len(q2) = 2 /\ q2[1] = 1 /\ q2[2] = u /\ q2 # <<>>
    BY <1>9, <1>10, <2>2, EmptyLength DEF EndsIn, BeginsLike
  <2>4. Twin(a, q2) = Finished(<<2, Or(u, 0)>>)
    BY <2>3, ReserveFinds
  <2>5. Ends(a, <<>>, m, <<2, Or(u, 0)>>, m)
    BY <2>2, <2>4, AtEnd
  <2> QED BY <1>4, <1>6, <1>10, <2>5, ReplyIs DEF Starts
<1>11. CASE there # 1 /\ a.unlimited
  <2> DEFINE sets == <<"HSET", "ledger", Opened(a)>>
             dates == <<"EXPIRE", "ledger", Life>>
             cmds == <<"EXISTS">> \o <<sets, dates>>
  <2>1. Len(cmds) = 1 + 2 /\ cmds[1 + 1] = sets /\ cmds[1 + 2] = dates
    <3> HIDE DEF sets, dates
    <3> QED OBVIOUS
  <2>2. ASSUME NEW q, q # <<>>, q[1] = there PROVE Twin(a, q) = Then(cmds, q, <<1, -1>>)
    BY <1>5, <1>11, <2>2 DEF ReserveTwin
  <2> HIDE DEF cmds
  <2>3. Runs(a, q1, 1, cmds, <<1, -1>>)
    <3> SUFFICES ASSUME NEW j \in Nat, NEW p, Replies(p, 1 + j), \A i \in 1..1 : p[i] = q1[i]
                 PROVE  Twin(a, p) = Then(cmds, p, <<1, -1>>)
      BY DEF Runs
    <3>1. p[1] = there
      BY <1>9
    <3>2. Len(p) # 0
      BY DEF Replies
    <3>3. p # <<>>
      BY <3>2
    <3> QED BY <2>2, <3>1, <3>3
  <2>4. Ends(a, <<>>, m, <<1, -1>>, Write(m, "ledger", Opened(a), Life))
    BY <1>1, <1>8, <2>1, <2>3, OpensDo
  <2>5. Script(a, l) = Reply(<<1, -1>>, Write(l, "ledger", Opened(a), Life))
    BY <1>4, <1>6, <1>11
  <2>6. Good(Write(m, "ledger", Opened(a), Life), Write(l, "ledger", Opened(a), Life))
    BY OpenedIs
  <2> QED BY <2>4, <2>5, <2>6, ReplyIs DEF Starts
<1>12. CASE there # 1 /\ ~a.unlimited
  <2>1. Twin(a, q1) = Do(<<"GET", "user">>)
    BY <1>9, <1>12, ReserveAsks
  <2>2. PICK q2 : Reaches(a, m, q2, 2, m) /\ EndsIn(q2, 2, u) /\ BeginsLike(q2, q1, 1)
    <3>1. \E q : Reaches(a, m, q, 1 + 1, m) /\ EndsIn(q, 1 + 1, u) /\ BeginsLike(q, q1, 1)
      BY <1>3, <1>8, <2>1, GetsOn
    <3> QED BY <3>1
  <2>3. Len(q2) = 2 /\ q2[1] # 1 /\ q2[2] = u /\ q2 # <<>>
    <3>1. Len(q2) = 2 /\ q2[1] = q1[1] /\ q2[2] = u
      BY <2>2 DEF EndsIn, BeginsLike
    <3>2. q2 # <<>>
      <4>1. Len(q2) = 2
        BY <3>1
      <4>2. Len(q2) # Len(<<>>)
        BY <4>1, EmptyLength
      <4> QED BY <4>2, Zenon
    <3> QED BY <1>9, <1>12, <3>1, <3>2
  <2>7. Len(q2) # 1 /\ balance = Or(q2[2], -1)
    BY <2>3 DEF balance
  <2>4. CASE balance < 0
    <3>1. Twin(a, q2) = Finished(<<3, 0>>)
      BY <1>12, <2>3, <2>4, <2>7, ReserveAsks
    <3>2. Ends(a, <<>>, m, <<3, 0>>, m)
      BY <2>2, <3>1, AtEnd
    <3> QED BY <1>4, <1>6, <1>12, <2>4, <3>2, ReplyIs DEF Starts
  <2>5. CASE ~(balance < 0) /\ balance < a.amount
    <3>1. Twin(a, q2) = Finished(<<0, balance>>)
      BY <1>12, <2>3, <2>5, <2>7, ReserveAsks
    <3>2. Ends(a, <<>>, m, <<0, balance>>, m)
      BY <2>2, <3>1, AtEnd
    <3> QED BY <1>4, <1>6, <1>12, <2>5, <3>2, ReplyIs DEF Starts
  <2>6. CASE ~(balance < 0) /\ ~(balance < a.amount)
    <3>1. PICK asked \in Nat : asked = IF a.capped THEN 3 ELSE 2
      OBVIOUS
    <3>2. \E r : Reaches(a, m, r, asked, m) /\ r[1] # 1 /\ r[2] = u /\ (a.capped => r[3] = v)
      <4>1. CASE a.capped
        <5>1. Twin(a, q2) = Do(<<"GET", "token">>)
          BY <1>12, <2>3, <2>6, <2>7, <4>1, ReserveAsks
        <5>2. PICK q3 : Reaches(a, m, q3, 3, m) /\ EndsIn(q3, 3, v) /\ BeginsLike(q3, q2, 2)
          <6>1. \E q : Reaches(a, m, q, 2 + 1, m) /\ EndsIn(q, 2 + 1, v) /\ BeginsLike(q, q2, 2)
            BY <1>3, <2>2, <5>1, GetsOn
          <6> QED BY <6>1
        <5>3. q3[1] # 1 /\ q3[2] = u /\ q3[3] = v
          BY <2>3, <5>2 DEF EndsIn, BeginsLike
        <5> QED BY <3>1, <4>1, <5>2, <5>3
      <4>2. CASE ~a.capped
        BY <2>2, <2>3, <3>1, <4>2
      <4> QED BY <4>1, <4>2
    <3>3. PICK r : Reaches(a, m, r, asked, m) /\ r[1] # 1 /\ r[2] = u /\ (a.capped => r[3] = v)
      BY <3>2
    <3>4. Replies(r, asked)
      BY <3>3 DEF Reaches
    <3>5. Len(r) = asked /\ r # <<>>
      BY <3>1, <3>4 DEF Replies
    <3>6. /\ balance = Or(r[2], -1)
          /\ private = IF a.capped THEN Or(r[3], -1) ELSE -1
      BY <3>3 DEF balance, private
    <3>7. CASE private \in 0..(a.amount - 1)
      <4>1. Twin(a, r) = Finished(<<0, private>>)
        <5>1. Len(r) # 1 /\ ~(Len(r) < IF a.capped THEN 3 ELSE 2)
          BY <3>1, <3>5
        <5> QED BY <1>5, <1>12, <2>6, <3>3, <3>5, <3>6, <3>7, <5>1 DEF ReserveTwin
      <4>2. Ends(a, <<>>, m, <<0, private>>, m)
        BY <3>3, <4>1, AtEnd
      <4>3. private >= 0 /\ private < a.amount
        BY <1>7, <3>7
      <4> QED BY <1>4, <1>6, <1>12, <2>6, <4>2, <4>3, ReplyIs DEF Starts
    <3>8. CASE ~(private \in 0..(a.amount - 1))
      <4>1. ~(private >= 0 /\ private < a.amount)
        BY <1>7, <3>8
      <4>2. balance = Or(Value(m, "user"), 0)
        BY <1>1, <2>6 DEF balance, Or
      <4>3. Ends(a, <<>>, m, <<1, balance - a.amount>>, Write(Pays(m), "ledger", Opened(a), Life))
        BY <1>1, <1>7, <1>12, <2>6, <3>1, <3>3, <3>6, <3>8, <4>2, ReservePays
      <4>4. Good(Pays(m), Pays(l))
        <5>1. -a.amount \in Int
          OBVIOUS
        <5>2. Good(Add(m, "user", -a.amount), Add(l, "user", -a.amount))
          BY <5>1, GoodAdd
        <5>3. Good(Add(Add(m, "user", -a.amount), "token", -a.amount), Add(Add(l, "user", -a.amount), "token", -a.amount))
          BY <5>1, <5>2, GoodAdd
        <5> QED BY <5>2, <5>3
      <4>5. Good(Write(Pays(m), "ledger", Opened(a), Life), Write(Pays(l), "ledger", Opened(a), Life))
        <5> HIDE DEF Pays
        <5> QED BY <4>4, OpenedIs
      <4> HIDE DEF Pays
      <4> QED BY <1>4, <1>6, <1>12, <2>6, <4>1, <4>3, <4>5, ReplyIs DEF Starts
    <3> QED BY <3>7, <3>8
  <2> QED BY <2>4, <2>5, <2>6
<1> QED BY <1>10, <1>11, <1>12

\* From the third reply on, the twin moves the counters and closes.
Ending(state, entry) ==
    <<<<"HSET", "ledger", [state |-> state]>>, <<"EXPIRE", "ledger", Life>>,
      <<"RPUSH", "journal", entry>>, <<"EXPIRE", "journal", Life>>>>
ThreeGets == <<"HGET", "HGET", "HGET">>

LEMMA EndingIs ==
    ASSUME NEW state, NEW entry
    PROVE  /\ Closes(state, entry) = Ending(state, entry) /\ Len(Ending(state, entry)) = 4
           /\ Ending(state, entry)[1] = <<"HSET", "ledger", [state |-> state]>>
           /\ Ending(state, entry)[2] = <<"EXPIRE", "ledger", Life>>
           /\ Ending(state, entry)[3] = <<"RPUSH", "journal", entry>>
           /\ Ending(state, entry)[4] = <<"EXPIRE", "journal", Life>>
           /\ Ending(state, entry) = [i \in 1..4 |-> Ending(state, entry)[i]]
BY DEF Closes, Ending

LEMMA OneOrTwo ==
    ASSUME NEW x, NEW y
    PROVE  <<x>> \o <<>> = <<x>> /\ <<x>> \o <<y>> = <<x, y>>
<1>1. <<x>> \o <<>> = [i \in 1..1 |-> x] /\ <<x>> = [i \in 1..1 |-> x]
  OBVIOUS
<1>2. <<x>> \o <<y>> = [i \in 1..2 |-> IF i <= 1 THEN <<x>>[i] ELSE <<y>>[i - 1]]
  OBVIOUS
<1>3. <<x, y>> = [i \in 1..2 |-> IF i <= 1 THEN <<x>>[i] ELSE <<y>>[i - 1]]
  OBVIOUS
<1> QED BY <1>1, <1>2, <1>3

\* After three replies like r's the counters are moved and the reservation is closed.
Moving(a, r, by, state, entry, paid, tuple) ==
    \A j \in Nat : \A q : Replies(q, 3 + j) /\ BeginsLike(q, r, 3) =>
        LET pays == Moves(a, by)
            cap  == IF Len(pays) = 2 /\ q[5] = 1 THEN <<<<"INCRBY", "token", by>>>> ELSE <<>>
        IN  /\ j < Len(pays) => Twin(a, q) = Do(pays[j + 1])
            /\ j >= Len(pays) /\ q[4] = paid =>
                 Twin(a, q) = Then(ThreeGets \o pays \o cap \o Ending(state, entry), q, tuple)

LEMMA MovesIs ==
    ASSUME NEW a, a.capped \in BOOLEAN, NEW by, NEW user, user = <<"INCRBY", "user", by>>,
           NEW asks, asks = <<"EXISTS", "token">>
    PROVE  /\ a.capped => Moves(a, by) = <<user, asks>>
           /\ ~a.capped => Moves(a, by) = <<user>>
<1>1. CASE a.capped
  <2>1. Moves(a, by) = <<user>> \o <<asks>>
    BY <1>1 DEF Moves
  <2> QED BY <1>1, <2>1, OneOrTwo
<1>2. CASE ~a.capped
  <2>1. Moves(a, by) = <<user>> \o <<>>
    BY <1>2 DEF Moves
  <2> QED BY <1>2, <2>1, OneOrTwo
<1> QED BY <1>1, <1>2

LEMMA MovesLength == ASSUME NEW a, a.capped \in BOOLEAN, NEW by PROVE Len(Moves(a, by)) \in Nat
<1>1. PICK user : user = <<"INCRBY", "user", by>>
  OBVIOUS
<1>2. PICK asks : asks = <<"EXISTS", "token">>
  OBVIOUS
<1> QED BY <1>1, <1>2, MovesIs

LEMMA MovesClose ==
    ASSUME NEW a, a.capped \in BOOLEAN, NEW m, IsStore(m), clock \in Int, NEW r, Reaches(a, m, r, 3, m),
           NEW by, NEW state, NEW entry, NEW tuple,
           Moving(a, r, by, state, entry, Or(Value(m, "user"), 0) + by, tuple)
    PROVE  Ends(a, <<>>, m, tuple, ClosedLedger(MovedBy(m, a, by), state, entry))
<1>a. PICK user : user = <<"INCRBY", "user", by>>
  OBVIOUS
<1>b. PICK asks : asks = <<"EXISTS", "token">>
  OBVIOUS
<1>c. PICK token : token = <<"INCRBY", "token", by>>
  OBVIOUS
<1> DEFINE paid == Or(Value(m, "user"), 0) + by
           s == Add(m, "user", by)
           t == Add(s, "token", by)
           there == IF Live(m, "token") = NoEntry THEN 0 ELSE 1
           end == Ending(state, entry)
<1>0. "user" \in StoreKeys /\ "token" \in StoreKeys
  BY KeysAre
<1>1. IsStore(s) /\ IsStore(t) /\ Live(s, "token") = Live(m, "token")
  BY <1>0, AddIs
<1>2. MovedBy(m, a, by) = IF a.capped /\ there = 1 THEN t ELSE s
  BY DEF MovedBy
<1>3. TwinCommand(m, user) = Reply(paid, s)
  BY <1>a, IncrByDoes
<1>4. TwinCommand(s, asks) = Reply(there, s)
  BY <1>b, <1>1, ExistsDoes
<1>5. PICK x : TwinCommand(s, token) = Reply(x, t)
  BY <1>c, IncrByDoes
<1>6. Moving(a, r, by, state, entry, paid, tuple)
  OBVIOUS
<1>6b. /\ a.capped => Moves(a, by) = <<user, asks>>
       /\ ~a.capped => Moves(a, by) = <<user>>
  BY <1>a, <1>b, MovesIs
<1>6a. /\ Len(end) = 4 /\ end = [i \in 1..4 |-> end[i]]
       /\ end[1] = <<"HSET", "ledger", [state |-> state]>> /\ end[2] = <<"EXPIRE", "ledger", Life>>
       /\ end[3] = <<"RPUSH", "journal", entry>> /\ end[4] = <<"EXPIRE", "journal", Life>>
  BY EndingIs
<1> HIDE DEF paid, s, t, there, end
<1>7. Twin(a, r) = Do(user)
  <2>1. Replies(r, 3 + 0) /\ BeginsLike(r, r, 3)
    BY DEF Reaches, BeginsLike
  <2>2. 0 < Len(Moves(a, by)) => Twin(a, r) = Do(Moves(a, by)[0 + 1])
    BY <1>6, <2>1 DEF Moving
  <2>3. 0 < Len(Moves(a, by)) /\ Moves(a, by)[0 + 1] = user
    BY <1>6b
  <2> QED BY <2>2, <2>3
<1>8. PICK q : Reaches(a, m, q, 4, s) /\ EndsIn(q, 4, paid) /\ BeginsLike(q, r, 3)
  <2>1. \E q : Reaches(a, m, q, 3 + 1, s) /\ EndsIn(q, 3 + 1, paid) /\ BeginsLike(q, r, 3)
    BY <1>3, <1>7, GetsOn
  <2> QED BY <2>1
<1>9. Replies(q, 4) /\ q[4] = paid
  BY <1>8 DEF Reaches, EndsIn
<1>10. CASE ~a.capped
  <2> DEFINE cmds == ThreeGets \o <<user>> \o <<>> \o end
  <2>1. Moves(a, by) = <<user>>
    BY <1>10, <1>6b
  <2>2. Len(cmds) = 8 /\ cmds[5] = end[1] /\ cmds[6] = end[2] /\ cmds[7] = end[3] /\ cmds[8] = end[4]
    BY <1>6a DEF ThreeGets
  <2>3. Runs(a, q, 4, cmds, tuple)
    <3> SUFFICES ASSUME NEW j \in Nat, NEW p, Replies(p, 4 + j), \A i \in 1..4 : p[i] = q[i]
                 PROVE  Twin(a, p) = Then(cmds, p, tuple)
      BY DEF Runs
    <3>1. BeginsLike(p, r, 3) /\ p[4] = paid
      BY <1>8, <1>9 DEF BeginsLike
    <3>2. j + 1 \in Nat /\ 3 + (j + 1) = 4 + j /\ Len(<<user>>) = 1 /\ j + 1 >= 1
      OBVIOUS
    <3>3. Replies(p, 3 + (j + 1))
      BY <3>2
    <3> QED BY <1>6, <2>1, <3>1, <3>2, <3>3 DEF Moving, end
  <2> HIDE DEF cmds
  <2>4. Ends(a, <<>>, m, tuple, ClosedLedger(s, state, entry))
    <3>1. Len(cmds) = 4 + 4 /\ 4 + 1 = 5 /\ 4 + 2 = 6 /\ 4 + 3 = 7 /\ 4 + 4 = 8
      BY <2>2
    <3>2. /\ cmds[4 + 1] = <<"HSET", "ledger", [state |-> state]>> /\ cmds[4 + 2] = <<"EXPIRE", "ledger", Life>>
          /\ cmds[4 + 3] = <<"RPUSH", "journal", entry>> /\ cmds[4 + 4] = <<"EXPIRE", "journal", Life>>
      BY <1>6a, <2>2, <3>1
    <3> QED BY <1>1, <1>8, <2>3, <3>1, <3>2, ClosesDo
  <2> QED BY <1>2, <1>10, <2>4
<1>11. CASE a.capped
  <2>1. Moves(a, by) = <<user, asks>>
    BY <1>11, <1>6b
  <2>2. Twin(a, q) = Do(asks)
    <3>1. Replies(q, 3 + 1) /\ 1 < Len(<<user, asks>>) /\ <<user, asks>>[1 + 1] = asks
      BY <1>9
    <3>2. 1 < Len(Moves(a, by)) => Twin(a, q) = Do(Moves(a, by)[1 + 1])
      BY <1>6, <1>8, <3>1 DEF Moving
    <3> QED BY <2>1, <3>1, <3>2
  <2>3. PICK q5 : Reaches(a, m, q5, 5, s) /\ EndsIn(q5, 5, there) /\ BeginsLike(q5, q, 4)
    <3>1. \E p : Reaches(a, m, p, 4 + 1, s) /\ EndsIn(p, 4 + 1, there) /\ BeginsLike(p, q, 4)
      BY <1>4, <1>8, <2>2, GetsOn
    <3> QED BY <3>1
  <2>4. BeginsLike(q5, r, 3) /\ q5[4] = paid /\ q5[5] = there
    BY <1>8, <1>9, <2>3 DEF BeginsLike, EndsIn
  <2> DEFINE cap == IF there = 1 THEN <<token>> ELSE <<>>
             cmds == ThreeGets \o <<user, asks>> \o cap \o end
  <2>5. Runs(a, q5, 5, cmds, tuple)
    <3> SUFFICES ASSUME NEW j \in Nat, NEW p, Replies(p, 5 + j), \A i \in 1..5 : p[i] = q5[i]
                 PROVE  Twin(a, p) = Then(cmds, p, tuple)
      BY DEF Runs
    <3>1. BeginsLike(p, r, 3) /\ p[4] = paid /\ p[5] = there
      BY <2>4 DEF BeginsLike
    <3>2. j + 2 \in Nat /\ 3 + (j + 2) = 5 + j /\ Len(<<user, asks>>) = 2 /\ j + 2 >= 2
      OBVIOUS
    <3>3. Replies(p, 3 + (j + 2))
      BY <3>2
    <3>4. Twin(a, p) = Then(ThreeGets \o <<user, asks>>
                              \o (IF Len(<<user, asks>>) = 2 /\ p[5] = 1 THEN <<<<"INCRBY", "token", by>>>> ELSE <<>>)
                              \o Ending(state, entry), p, tuple)
      BY <1>6, <2>1, <3>1, <3>2, <3>3 DEF Moving
    <3> QED BY <1>c, <3>1, <3>2, <3>4 DEF end
  <2>6. CASE there = 1
    <3>0. PICK full : full = ThreeGets \o <<user, asks>> \o <<token>> \o end
      OBVIOUS
    <3>1. cmds = full
      BY <2>6, <3>0
    <3>2. /\ Len(full) = 10 /\ full[6] = token
          /\ full[7] = end[1] /\ full[8] = end[2] /\ full[9] = end[3] /\ full[10] = end[4]
      BY <1>6a, <3>0 DEF ThreeGets
    <3> HIDE DEF cmds
    <3>3. PICK q6 : Reaches(a, m, q6, 6, t) /\ Runs(a, q6, 6, full, tuple)
      <4>1. 5 < Len(full) /\ TwinCommand(s, full[5 + 1]) = Reply(x, t)
        BY <1>5, <3>2
      <4>2. \E p : Reaches(a, m, p, 5 + 1, t) /\ Runs(a, p, 5 + 1, full, tuple)
        BY <2>3, <2>5, <3>1, <4>1, RunsNext
      <4> QED BY <4>2
    <3>4. Len(full) = 6 + 4 /\ 6 + 1 = 7 /\ 6 + 2 = 8 /\ 6 + 3 = 9 /\ 6 + 4 = 10
      BY <3>2
    <3>5. /\ full[6 + 1] = <<"HSET", "ledger", [state |-> state]>> /\ full[6 + 2] = <<"EXPIRE", "ledger", Life>>
          /\ full[6 + 3] = <<"RPUSH", "journal", entry>> /\ full[6 + 4] = <<"EXPIRE", "journal", Life>>
      BY <1>6a, <3>2, <3>4
    <3>6. Ends(a, <<>>, m, tuple, ClosedLedger(t, state, entry))
      BY <1>1, <3>3, <3>4, <3>5, ClosesDo
    <3> QED BY <1>2, <1>11, <2>6, <3>6
  <2>7. CASE there # 1
    <3>0. PICK full : full = ThreeGets \o <<user, asks>> \o <<>> \o end
      OBVIOUS
    <3>1. cmds = full
      BY <2>7, <3>0
    <3>2. Len(full) = 9 /\ full[6] = end[1] /\ full[7] = end[2] /\ full[8] = end[3] /\ full[9] = end[4]
      BY <1>6a, <3>0 DEF ThreeGets
    <3> HIDE DEF cmds
    <3>4. Len(full) = 5 + 4 /\ 5 + 1 = 6 /\ 5 + 2 = 7 /\ 5 + 3 = 8 /\ 5 + 4 = 9
      BY <3>2
    <3>5. /\ full[5 + 1] = <<"HSET", "ledger", [state |-> state]>> /\ full[5 + 2] = <<"EXPIRE", "ledger", Life>>
          /\ full[5 + 3] = <<"RPUSH", "journal", entry>> /\ full[5 + 4] = <<"EXPIRE", "journal", Life>>
      BY <1>6a, <3>2, <3>4
    <3>6. Ends(a, <<>>, m, tuple, ClosedLedger(s, state, entry))
      BY <1>1, <2>3, <2>5, <3>1, <3>4, <3>5, ClosesDo
    <3> QED BY <1>2, <2>7, <3>6
  <2> QED BY <2>6, <2>7
<1> QED BY <1>10, <1>11

\* What settle and release ask first.
LEMMA ClosingBegins ==
    ASSUME NEW a, a.name \in {"settle", "release"}
    PROVE  Twin(a, <<>>) = Do(<<"HGET", "ledger", "state">>)
<1>1. CASE a.name = "settle"
  BY <1>1 DEF Twin, SettleTwin
<1>2. CASE a.name = "release"
  BY <1>2 DEF Twin, ReleaseTwin
<1> QED BY <1>1, <1>2

LEMMA ClosingRefuses ==
    ASSUME NEW a, a.name \in {"settle", "release"}, NEW r, r # <<>>, r[1] # "open"
    PROVE  Twin(a, r) = Finished(IF a.name = "settle" THEN <<IF r[1] = Nil THEN 0 ELSE 2, 0, 0>>
                                 ELSE <<IF r[1] = Nil THEN 0 ELSE 2, 0>>)
<1>1. CASE a.name = "settle"
  BY <1>1 DEF Twin, SettleTwin
<1>2. CASE a.name = "release"
  BY <1>2 DEF Twin, ReleaseTwin
<1> QED BY <1>1, <1>2

LEMMA ClosingAsks ==
    ASSUME NEW a, a.name \in {"settle", "release"}, NEW r, r # <<>>, r[1] = "open", Len(r) < 3
    PROVE  Twin(a, r) = Do(<<"HGET", "ledger", IF Len(r) = 1 THEN "amount" ELSE "unlimited">>)
<1>1. CASE a.name = "settle"
  <2>1. Twin(a, r) = SettleTwin(a, r)
    BY <1>1 DEF Twin
  <2> QED BY <2>1, ZenonT(30) DEF SettleTwin
<1>2. CASE a.name = "release"
  <2>1. Twin(a, r) = ReleaseTwin(a, r)
    BY <1>2 DEF Twin
  <2> QED BY <2>1, ZenonT(30) DEF ReleaseTwin
<1> QED BY <1>1, <1>2

LEMMA EmptyIs == ASSUME NEW q, NEW n \in Nat, Replies(q, n), n # 0 PROVE q # <<>> /\ Len(q) = n
<1>1. Len(q) = n
  BY DEF Replies
<1>2. Len(q) # Len(<<>>)
  BY <1>1, EmptyLength
<1>3. q # <<>>
  BY <1>2, Zenon
<1> QED BY <1>1, <1>3

Refusal(a, l) ==
    IF a.name = "settle" THEN <<IF State(l) = Nil THEN 0 ELSE 2, 0, 0>>
    ELSE <<IF State(l) = Nil THEN 0 ELSE 2, 0>>

\* The three replies of an open reservation.
LEMMA ClosingStarts ==
    ASSUME NEW m, NEW l, Good(m, l), clock \in Int, NEW a, a.name \in {"settle", "release"}
    PROVE  /\ State(l) # "open" => Ends(a, <<>>, m, Refusal(a, l), m)
           /\ State(l) = "open" =>
                /\ Reserved(l) \in Int /\ Unlimited(l) \in BOOLEAN
                /\ \E r : Reaches(a, m, r, 3, m) /\ r[1] = "open" /\ r[2] = Reserved(l) /\ r[3] = Unlimited(l)
<1>0. "ledger" \in StoreKeys \ Emptiable
  BY KeysAre
<1>1. /\ Hashed(m, "ledger", "state") = State(l) /\ Hashed(m, "ledger", "amount") = Reserved(l)
      /\ Hashed(m, "ledger", "unlimited") = Unlimited(l) /\ Fits("ledger", Live(l, "ledger"))
  BY <1>0, GoodLive DEF State, Reserved, Unlimited
<1>2. /\ TwinCommand(m, <<"HGET", "ledger", "state">>) = Reply(State(l), m)
      /\ TwinCommand(m, <<"HGET", "ledger", "amount">>) = Reply(Reserved(l), m)
      /\ TwinCommand(m, <<"HGET", "ledger", "unlimited">>) = Reply(Unlimited(l), m)
  BY <1>1, HGetDoes
<1>3. PICK q1 : Reaches(a, m, q1, 1, m) /\ EndsIn(q1, 1, State(l))
  <2>1. Twin(a, <<>>) = Do(<<"HGET", "ledger", "state">>)
    BY ClosingBegins
  <2>2. \E q : Reaches(a, m, q, 0 + 1, m) /\ EndsIn(q, 0 + 1, State(l)) /\ BeginsLike(q, <<>>, 0)
    BY <1>2, <2>1, AtStart, GetsOn
  <2> QED BY <2>2
<1>4. q1 # <<>> /\ Len(q1) = 1
  <2>1. Replies(q1, 1)
    BY <1>3 DEF Reaches
  <2> QED BY <2>1, EmptyIs
<1>5. q1[1] = State(l)
  BY <1>3 DEF EndsIn
<1>6. ASSUME State(l) # "open"
      PROVE  Ends(a, <<>>, m, Refusal(a, l), m)
  <2>1. Twin(a, q1) = Finished(Refusal(a, l))
    BY <1>4, <1>5, <1>6, ClosingRefuses DEF Refusal
  <2> QED BY <1>3, <2>1, AtEnd
<1>7. ASSUME State(l) = "open"
      PROVE  /\ Reserved(l) \in Int /\ Unlimited(l) \in BOOLEAN
             /\ \E r : Reaches(a, m, r, 3, m) /\ r[1] = "open" /\ r[2] = Reserved(l) /\ r[3] = Unlimited(l)
  <2>1. Reserved(l) \in Int /\ Unlimited(l) \in BOOLEAN
    <3>1. CASE Live(l, "ledger") = NoEntry
      <4>1. Hash(l, "ledger") = <<>>
        BY <3>1 DEF Hash, Held
      <4>2. "state" \notin DOMAIN <<>>
        OBVIOUS
      <4>3. State(l) = Nil
        BY <4>1, <4>2 DEF State, Hashed, Field
      <4> QED BY <1>7, <4>3, TwinsAssumption
    <3>2. CASE Live(l, "ledger") # NoEntry
      BY <1>1, <1>7, <3>2 DEF Fits, State, Reserved, Unlimited, Hashed, Hash, Held
    <3> QED BY <3>1, <3>2
  <2>2. Twin(a, q1) = Do(<<"HGET", "ledger", "amount">>)
    <3>1. q1[1] = "open" /\ Len(q1) < 3
      BY <1>4, <1>5, <1>7
    <3> QED BY <1>4, <3>1, ClosingAsks
  <2>3. PICK q2 : Reaches(a, m, q2, 2, m) /\ EndsIn(q2, 2, Reserved(l)) /\ BeginsLike(q2, q1, 1)
    <3>1. \E q : Reaches(a, m, q, 1 + 1, m) /\ EndsIn(q, 1 + 1, Reserved(l)) /\ BeginsLike(q, q1, 1)
      BY <1>2, <1>3, <2>2, GetsOn
    <3> QED BY <3>1
  <2>4. q2 # <<>> /\ Len(q2) = 2
    <3>1. Replies(q2, 2)
      BY <2>3 DEF Reaches
    <3>2. 2 \in Nat /\ 2 # 0
      OBVIOUS
    <3> QED BY <3>1, <3>2, EmptyIs, Zenon
  <2>5. q2[1] = "open" /\ q2[2] = Reserved(l)
    BY <1>5, <1>7, <2>3 DEF EndsIn, BeginsLike
  <2>6. Twin(a, q2) = Do(<<"HGET", "ledger", "unlimited">>)
    <3>1. q2[1] = "open" /\ Len(q2) < 3 /\ Len(q2) # 1
      BY <2>4, <2>5
    <3> QED BY <2>4, <3>1, ClosingAsks
  <2>7. PICK q3 : Reaches(a, m, q3, 3, m) /\ EndsIn(q3, 3, Unlimited(l)) /\ BeginsLike(q3, q2, 2)
    <3>1. \E q : Reaches(a, m, q, 2 + 1, m) /\ EndsIn(q, 2 + 1, Unlimited(l)) /\ BeginsLike(q, q2, 2)
      BY <1>2, <2>3, <2>6, GetsOn
    <3> QED BY <3>1
  <2>8. q3[1] = "open" /\ q3[2] = Reserved(l) /\ q3[3] = Unlimited(l)
    BY <2>5, <2>7 DEF EndsIn, BeginsLike
  <2> QED BY <2>1, <2>7, <2>8
<1> QED BY <1>6, <1>7

LEMMA StillOpen ==
    ASSUME NEW m, NEW l, Good(m, l), clock \in Int, NEW a, a.name \in {"settle", "release"}, State(l) = "open"
    PROVE  /\ Reserved(l) \in Int /\ Unlimited(l) \in BOOLEAN
           /\ \E r : Reaches(a, m, r, 3, m) /\ r[1] = "open" /\ r[2] = Reserved(l) /\ r[3] = Unlimited(l)
BY ClosingStarts

LEMMA GoodMoved ==
    ASSUME NEW m, NEW l, Good(m, l), clock \in Int, NEW a, a.capped \in BOOLEAN, NEW by \in Int
    PROVE  /\ Good(MovedBy(m, a, by), MovedBy(l, a, by))
           /\ Value(MovedBy(l, a, by), "user") = Or(Value(m, "user"), 0) + by
           /\ Or(Value(m, "user"), 0) + by \in Int
<1>0. "user" \in StoreKeys /\ "token" \in StoreKeys /\ IsStore(l) /\ "user" # "token"
  BY KeysAre DEF Good
<1>1. /\ Value(m, "user") = Value(l, "user") /\ Live(m, "token") = Live(l, "token")
      /\ Or(Value(l, "user"), 0) + by \in Int
  BY CounterIs
<1>2. Good(Add(m, "user", by), Add(l, "user", by))
  BY GoodAdd
<1>3. Good(Add(Add(m, "user", by), "token", by), Add(Add(l, "user", by), "token", by))
  BY <1>2, GoodAdd
<1>4. Good(MovedBy(m, a, by), MovedBy(l, a, by))
  BY <1>1, <1>2, <1>3 DEF MovedBy
<1>5. Value(Add(l, "user", by), "user") = Or(Value(l, "user"), 0) + by /\ IsStore(Add(l, "user", by))
  BY <1>0, AddIs
<1>6. Value(Add(Add(l, "user", by), "token", by), "user") = Or(Value(l, "user"), 0) + by
  BY <1>0, <1>5, AddIs DEF Value
<1>7. Value(MovedBy(l, a, by), "user") = Or(Value(l, "user"), 0) + by
  BY <1>5, <1>6 DEF MovedBy
<1> QED BY <1>1, <1>4, <1>7

LEMMA ReleaseIs ==
    ASSUME NEW a, a.name = "release", NEW q, q # <<>>, q[1] = "open", NEW n \in Nat, Len(q) = 3 + n,
           NEW refunds, refunds = IF q[3] \/ q[2] <= 0 THEN <<>> ELSE Moves(a, q[2]), NEW c \in Nat, c = Len(refunds)
    PROVE  /\ n < c => Twin(a, q) = Do(refunds[n + 1])
           /\ n >= c => Twin(a, q) =
                Then(ThreeGets \o refunds
                       \o (IF Len(refunds) = 2 /\ q[5] = 1 THEN <<<<"INCRBY", "token", q[2]>>>> ELSE <<>>)
                       \o Ending("released", <<"release", 0, q[2]>>), q, <<1, q[2]>>)
<1> DEFINE cap == IF Len(refunds) = 2 /\ q[5] = 1 THEN <<<<"INCRBY", "token", q[2]>>>> ELSE <<>>
           all == Then(ThreeGets \o refunds \o cap \o Ending("released", <<"release", 0, q[2]>>), q, <<1, q[2]>>)
<1>1. Twin(a, q) = ReleaseTwin(a, q)
  BY DEF Twin
<1>2. ReleaseTwin(a, q) =
        IF q = <<>> THEN Do(<<"HGET", "ledger", "state">>)
        ELSE IF q[1] # "open" THEN Finished(<<IF q[1] = Nil THEN 0 ELSE 2, 0>>)
        ELSE IF Len(q) < 3 THEN Do(<<"HGET", "ledger", IF Len(q) = 1 THEN "amount" ELSE "unlimited">>)
        ELSE IF Len(q) < 3 + Len(refunds) THEN Do(refunds[Len(q) - 2])
        ELSE all
  BY EndingIs DEF ReleaseTwin, ThreeGets
<1> HIDE DEF all
<1>3. Twin(a, q) = IF 3 + n < 3 + c THEN Do(refunds[3 + n - 2]) ELSE all
  <2>1. ~(3 + n < 3)
    OBVIOUS
  <2> QED BY <1>1, <1>2, <2>1
<1>4. (3 + n < 3 + c <=> n < c) /\ 3 + n - 2 = n + 1
  OBVIOUS
<1>5. n < c => Twin(a, q) = Do(refunds[n + 1])
  BY <1>3, <1>4
<1>6. n >= c => Twin(a, q) = all
  BY <1>3, <1>4
<1> QED BY <1>5, <1>6 DEF all

LEMMA ReleaseStarts ==
    ASSUME NEW m, NEW l, Good(m, l), clock \in Int, NEW a, a.name = "release", a.capped \in BOOLEAN
    PROVE  Starts(a, m, l)
<1> DEFINE refunded == IF ~Unlimited(l) /\ Reserved(l) > 0 THEN MovedBy(l, a, Reserved(l)) ELSE l
<1>0. a.name \in {"settle", "release"} /\ "release" # "settle"
  OBVIOUS
<1>1. Script(a, l) =
        IF State(l) = Nil THEN Reply(<<0, 0>>, l)
        ELSE IF State(l) # "open" THEN Reply(<<2, 0>>, l)
        ELSE Reply(<<1, Reserved(l)>>, ClosedLedger(refunded, "released", <<"release", 0, Reserved(l)>>))
  BY DEF Script, RELEASE_LUA
<1> HIDE DEF refunded
<1>2. CASE State(l) # "open"
  <2>1. Ends(a, <<>>, m, <<IF State(l) = Nil THEN 0 ELSE 2, 0>>, m)
    <3>1. Ends(a, <<>>, m, Refusal(a, l), m)
      BY <1>0, <1>2, ClosingStarts
    <3> QED BY <3>1 DEF Refusal
  <2>2. Script(a, l) = Reply(<<IF State(l) = Nil THEN 0 ELSE 2, 0>>, l)
    BY <1>1, <1>2
  <2> QED BY <2>1, <2>2, ReplyIs DEF Starts
<1>3. CASE State(l) = "open"
  <2> DEFINE amount == Reserved(l)
             entry == <<"release", 0, amount>>
  <2>1. amount \in Int /\ Unlimited(l) \in BOOLEAN
    BY <1>0, <1>3, StillOpen
  <2>2. PICK r : Reaches(a, m, r, 3, m) /\ r[1] = "open" /\ r[2] = amount /\ r[3] = Unlimited(l)
    BY <1>0, <1>3, StillOpen
  <2>3. State(l) # Nil
    BY <1>3, TwinsAssumption
  <2>4. Script(a, l) = Reply(<<1, amount>>, ClosedLedger(refunded, "released", entry))
    BY <1>1, <1>3, <2>3
  <2> HIDE DEF amount, entry
  <2>5. IsStore(m)
    BY DEF Good
  <2>6. ASSUME NEW n \in Nat, NEW q, Replies(q, 3 + n), BeginsLike(q, r, 3)
        PROVE  q # <<>> /\ Len(q) = 3 + n /\ q[1] = "open" /\ q[2] = amount /\ q[3] = Unlimited(l)
    <3>1. q # <<>> /\ Len(q) = 3 + n
      <4>1. 3 + n \in Nat /\ 3 + n # 0
        OBVIOUS
      <4> QED BY <2>6, <4>1, EmptyIs, Zenon
    <3>2. q[1] = "open" /\ q[2] = amount /\ q[3] = Unlimited(l)
      BY <2>2, <2>6 DEF BeginsLike
    <3> QED BY <3>1, <3>2
  <2>7. CASE Unlimited(l) \/ amount <= 0
    <3> DEFINE cmds == ThreeGets \o <<>> \o <<>> \o Ending("released", entry)
    <3>1. refunded = l
      BY <2>1, <2>7 DEF refunded, amount
    <3>2. ASSUME NEW n \in Nat, NEW q, Replies(q, 3 + n), BeginsLike(q, r, 3)
          PROVE  Twin(a, q) = Then(cmds, q, <<1, amount>>)
      <4>1. q # <<>> /\ Len(q) = 3 + n /\ q[1] = "open" /\ q[2] = amount /\ q[3] = Unlimited(l)
        BY <2>6, <3>2
      <4>2. PICK refunds : refunds = <<>>
        OBVIOUS
      <4>3. refunds = (IF q[3] \/ q[2] <= 0 THEN <<>> ELSE Moves(a, q[2])) /\ 0 = Len(refunds) /\ n >= 0
        BY <2>7, <4>1, <4>2
      <4>4. Twin(a, q) =
                Then(ThreeGets \o refunds
                       \o (IF Len(refunds) = 2 /\ q[5] = 1 THEN <<<<"INCRBY", "token", q[2]>>>> ELSE <<>>)
                       \o Ending("released", <<"release", 0, q[2]>>), q, <<1, q[2]>>)
        BY <4>1, <4>3, ReleaseIs
      <4>5. Len(refunds) # 2
        BY <4>3
      <4> QED BY <4>1, <4>2, <4>4, <4>5 DEF entry
    <3>3. Runs(a, r, 3, cmds, <<1, amount>>)
      <4> HIDE DEF cmds
      <4> SUFFICES ASSUME NEW j \in Nat, NEW p, Replies(p, 3 + j), \A i \in 1..3 : p[i] = r[i]
                   PROVE  Twin(a, p) = Then(cmds, p, <<1, amount>>)
        BY DEF Runs
      <4> QED BY <3>2 DEF BeginsLike
    <3>4. Ends(a, <<>>, m, <<1, amount>>, ClosedLedger(m, "released", entry))
      <4>0. PICK end : end = Ending("released", entry)
        OBVIOUS
      <4>1. /\ Len(end) = 4 /\ end = [i \in 1..4 |-> end[i]]
            /\ end[1] = <<"HSET", "ledger", [state |-> "released"]>> /\ end[2] = <<"EXPIRE", "ledger", Life>>
            /\ end[3] = <<"RPUSH", "journal", entry>> /\ end[4] = <<"EXPIRE", "journal", Life>>
        BY <4>0, EndingIs
      <4>2. Len(cmds) = 7 /\ cmds[4] = end[1] /\ cmds[5] = end[2] /\ cmds[6] = end[3] /\ cmds[7] = end[4]
        <5>1. cmds = ThreeGets \o <<>> \o <<>> \o end
          BY <4>0
        <5> HIDE DEF cmds
        <5> QED BY <4>1, <5>1 DEF ThreeGets
      <4> HIDE DEF cmds
      <4>3. Len(cmds) = 3 + 4 /\ 3 + 1 = 4 /\ 3 + 2 = 5 /\ 3 + 3 = 6 /\ 3 + 4 = 7
        BY <4>2
      <4>4. /\ cmds[3 + 1] = <<"HSET", "ledger", [state |-> "released"]>> /\ cmds[3 + 2] = <<"EXPIRE", "ledger", Life>>
            /\ cmds[3 + 3] = <<"RPUSH", "journal", entry>> /\ cmds[3 + 4] = <<"EXPIRE", "journal", Life>>
        BY <4>1, <4>2, <4>3
      <4> QED BY <2>2, <2>5, <3>3, <4>3, <4>4, ClosesDo
    <3>5. Good(ClosedLedger(m, "released", entry), ClosedLedger(l, "released", entry))
      BY GoodClosed
    <3> QED BY <2>4, <3>1, <3>4, <3>5, ReplyIs DEF Starts
  <2>8. CASE ~(Unlimited(l) \/ amount <= 0)
    <3>1. refunded = MovedBy(l, a, amount)
      BY <2>1, <2>8 DEF refunded, amount
    <3>2. Moving(a, r, amount, "released", entry, Or(Value(m, "user"), 0) + amount, <<1, amount>>)
      <4> SUFFICES ASSUME NEW n \in Nat, NEW q, Replies(q, 3 + n), BeginsLike(q, r, 3),
                          NEW pays, pays = Moves(a, amount), NEW cap,
                          cap = IF Len(pays) = 2 /\ q[5] = 1 THEN <<<<"INCRBY", "token", amount>>>> ELSE <<>>
                   PROVE  /\ n < Len(pays) => Twin(a, q) = Do(pays[n + 1])
                          /\ n >= Len(pays) =>
                               Twin(a, q) = Then(ThreeGets \o pays \o cap \o Ending("released", entry), q, <<1, amount>>)
        BY DEF Moving
      <4>1. q # <<>> /\ Len(q) = 3 + n /\ q[1] = "open" /\ q[2] = amount /\ q[3] = Unlimited(l)
        BY <2>6
      <4>2. pays = (IF q[3] \/ q[2] <= 0 THEN <<>> ELSE Moves(a, q[2]))
        BY <2>8, <4>1
      <4>3. PICK c \in Nat : c = Len(pays)
        BY MovesLength
      <4>4. /\ n < c => Twin(a, q) = Do(pays[n + 1])
            /\ n >= c => Twin(a, q) =
                Then(ThreeGets \o pays
                       \o (IF Len(pays) = 2 /\ q[5] = 1 THEN <<<<"INCRBY", "token", q[2]>>>> ELSE <<>>)
                       \o Ending("released", <<"release", 0, q[2]>>), q, <<1, q[2]>>)
        BY <4>1, <4>2, <4>3, ReleaseIs
      <4> QED BY <4>1, <4>3, <4>4 DEF entry
    <3>3. Ends(a, <<>>, m, <<1, amount>>, ClosedLedger(MovedBy(m, a, amount), "released", entry))
      BY <2>2, <2>5, <3>2, MovesClose
    <3>4. Good(MovedBy(m, a, amount), MovedBy(l, a, amount))
      BY <2>1, GoodMoved
    <3>5. Good(ClosedLedger(MovedBy(m, a, amount), "released", entry), ClosedLedger(MovedBy(l, a, amount), "released", entry))
      BY <3>4, GoodClosed
    <3> QED BY <2>4, <3>1, <3>3, <3>5, ReplyIs DEF Starts
  <2> QED BY <2>7, <2>8
<1> QED BY <1>2, <1>3

\* The replies a settlement of an open reservation begins with, and what it
\* does from the third on.
Found(q, amount, free) == q # <<>> /\ q[1] = "open" /\ q[2] = amount /\ q[3] = free
SettlesOn(a, q, n, pays, entry, free, delta) ==
    /\ n < Len(pays) => Twin(a, q) = Do(pays[n + 1])
    /\ n >= Len(pays) => Twin(a, q) =
         Then(ThreeGets \o pays
                \o (IF Len(pays) = 2 /\ q[5] = 1 THEN <<<<"INCRBY", "token", -delta>>>> ELSE <<>>)
                \o Ending("settled", entry), q,
              <<1, IF free THEN -1 ELSE Or(q[4], 0), delta>>)

LEMMA SettleIs ==
    ASSUME NEW a, a.name = "settle", NEW q, NEW n \in Nat, Len(q) = 3 + n,
           NEW amount, NEW free, Found(q, amount, free),
           NEW delta \in Int, delta = a.final - amount,
           NEW pays, pays = IF free THEN <<>> ELSE IF delta = 0 THEN <<<<"GET", "user">>>> ELSE Moves(a, -delta),
           NEW c \in Nat, c = Len(pays)
    PROVE  SettlesOn(a, q, n, pays, <<"settle", a.final, amount>>, free, delta)
<1> DEFINE cap == IF Len(pays) = 2 /\ q[5] = 1 THEN <<<<"INCRBY", "token", -delta>>>> ELSE <<>>
           all == Then(ThreeGets \o pays \o cap \o Ending("settled", <<"settle", a.final, amount>>), q,
                       <<1, IF free THEN -1 ELSE Or(q[4], 0), delta>>)
<1>1. Twin(a, q) = SettleTwin(a, q)
  BY DEF Twin
<1>0. q # <<>> /\ q[1] = "open" /\ q[2] = amount /\ q[3] = free
  BY DEF Found
<1>2. SettleTwin(a, q) =
        IF q = <<>> THEN Do(<<"HGET", "ledger", "state">>)
        ELSE IF q[1] # "open" THEN Finished(<<IF q[1] = Nil THEN 0 ELSE 2, 0, 0>>)
        ELSE IF Len(q) < 3 THEN Do(<<"HGET", "ledger", IF Len(q) = 1 THEN "amount" ELSE "unlimited">>)
        ELSE IF Len(q) < 3 + Len(pays) THEN Do(pays[Len(q) - 2])
        ELSE all
  <2> DEFINE Goal(am, fr, de, pa) ==
               SettleTwin(a, q) =
        IF q = <<>> THEN Do(<<"HGET", "ledger", "state">>)
        ELSE IF q[1] # "open" THEN Finished(<<IF q[1] = Nil THEN 0 ELSE 2, 0, 0>>)
        ELSE IF Len(q) < 3 THEN Do(<<"HGET", "ledger", IF Len(q) = 1 THEN "amount" ELSE "unlimited">>)
        ELSE IF Len(q) < 3 + Len(pa) THEN Do(pa[Len(q) - 2])
        ELSE Then(ThreeGets \o pa
                \o (IF Len(pa) = 2 /\ q[5] = 1 THEN <<<<"INCRBY", "token", -de>>>> ELSE <<>>)
                \o Ending("settled", <<"settle", a.final, am>>), q,
              <<1, IF fr THEN -1 ELSE Or(q[4], 0), de>>)
             Pays(fr, de) == IF fr THEN <<>> ELSE IF de = 0 THEN <<<<"GET", "user">>>> ELSE Moves(a, -de)
  <2>1. Goal(q[2], q[3], a.final - q[2], Pays(q[3], a.final - q[2]))
    <3>1. Closes("settled", <<"settle", a.final, q[2]>>) = Ending("settled", <<"settle", a.final, q[2]>>)
      BY EndingIs
    <3> QED BY <3>1 DEF SettleTwin, ThreeGets
  <2> HIDE DEF Goal
  <2>2. Goal(amount, free, delta, pays)
    BY <1>0, <2>1
  <2> QED BY <2>2 DEF Goal
<1> HIDE DEF all
<1>3. Twin(a, q) = IF 3 + n < 3 + c THEN Do(pays[3 + n - 2]) ELSE all
  <2>1. ~(3 + n < 3)
    OBVIOUS
  <2> QED BY <1>0, <1>1, <1>2, <2>1
<1>4. (3 + n < 3 + c <=> n < c) /\ 3 + n - 2 = n + 1
  OBVIOUS
<1>5. n < c => Twin(a, q) = Do(pays[n + 1])
  BY <1>3, <1>4
<1>6. n >= c => Twin(a, q) = all
  BY <1>3, <1>4
<1> QED BY <1>5, <1>6 DEF all, SettlesOn

\* Closing without a command between, or after one that is not INCRBY.
LEMMA ClosesAfter ==
    ASSUME NEW a, NEW m, IsStore(m), clock \in Int, NEW r, NEW pays, NEW n \in {3, 4}, NEW x,
           pays = IF n = 3 THEN <<>> ELSE <<x>>,
           Reaches(a, m, r, n, m), NEW state, NEW entry, NEW tuple,
           Runs(a, r, n, ThreeGets \o pays \o <<>> \o Ending(state, entry), tuple)
    PROVE  Ends(a, <<>>, m, tuple, ClosedLedger(m, state, entry))
<1>0. PICK end : end = Ending(state, entry)
  OBVIOUS
<1>1. /\ Len(end) = 4 /\ end = [i \in 1..4 |-> end[i]]
      /\ end[1] = <<"HSET", "ledger", [state |-> state]>> /\ end[2] = <<"EXPIRE", "ledger", Life>>
      /\ end[3] = <<"RPUSH", "journal", entry>> /\ end[4] = <<"EXPIRE", "journal", Life>>
  BY <1>0, EndingIs
<1> DEFINE cmds == ThreeGets \o pays \o <<>> \o Ending(state, entry)
<1>2. /\ Len(cmds) = n + 4 /\ cmds[n + 1] = end[1] /\ cmds[n + 2] = end[2]
      /\ cmds[n + 3] = end[3] /\ cmds[n + 4] = end[4]
  <2>1. cmds = ThreeGets \o pays \o <<>> \o end
    BY <1>0
  <2> HIDE DEF cmds
  <2>2. CASE n = 3
    <3>1. pays = <<>>
      BY <2>2
    <3>2. cmds = ThreeGets \o <<>> \o <<>> \o end
      BY <2>1, <3>1
    <3> QED BY <1>1, <2>2, <3>2 DEF ThreeGets
  <2>3. CASE n = 4
    <3>1. pays = <<x>>
      BY <2>3
    <3>2. cmds = ThreeGets \o <<x>> \o <<>> \o end
      BY <2>1, <3>1
    <3> QED BY <1>1, <2>3, <3>2 DEF ThreeGets
  <2> QED BY <2>2, <2>3
<1> HIDE DEF cmds
<1>3. /\ cmds[n + 1] = <<"HSET", "ledger", [state |-> state]>> /\ cmds[n + 2] = <<"EXPIRE", "ledger", Life>>
      /\ cmds[n + 3] = <<"RPUSH", "journal", entry>> /\ cmds[n + 4] = <<"EXPIRE", "journal", Life>>
  BY <1>1, <1>2
<1>4. n \in Nat /\ Len(cmds) = n + 4
  BY <1>2
<1>5. Runs(a, r, n, cmds, tuple)
  BY DEF cmds
<1> QED BY <1>3, <1>4, <1>5, ClosesDo

LEMMA SettleStarts ==
    ASSUME NEW m, NEW l, Good(m, l), clock \in Int, NEW a, a.name = "settle", a.capped \in BOOLEAN, a.final \in Int
    PROVE  Starts(a, m, l)
<1> DEFINE delta == a.final - Reserved(l)
           moved == IF Unlimited(l) \/ delta = 0 THEN l ELSE MovedBy(l, a, -delta)
           entry == <<"settle", a.final, Reserved(l)>>
           tuple == <<1, IF Unlimited(l) THEN -1 ELSE Or(Value(moved, "user"), 0), delta>>
<1>0. a.name \in {"settle", "release"}
  OBVIOUS
<1>1. Script(a, l) =
        IF State(l) = Nil THEN Reply(<<0, 0, 0>>, l)
        ELSE IF State(l) # "open" THEN Reply(<<2, 0, 0>>, l)
        ELSE Reply(tuple, ClosedLedger(moved, "settled", entry))
  BY DEF Script, SETTLE_LUA
<1> HIDE DEF moved, tuple
<1>2. CASE State(l) # "open"
  <2>1. Ends(a, <<>>, m, Refusal(a, l), m)
    BY <1>0, <1>2, ClosingStarts
  <2>2. Script(a, l) = Reply(Refusal(a, l), l)
    BY <1>1, <1>2 DEF Refusal
  <2> QED BY <2>1, <2>2, ReplyIs DEF Starts
<1>3. CASE State(l) = "open"
  <2> DEFINE amount == Reserved(l)
             free == Unlimited(l)
             u == Value(m, "user")
  <2>1. amount \in Int /\ free \in BOOLEAN
    BY <1>0, <1>3, StillOpen
  <2>2. PICK r : Reaches(a, m, r, 3, m) /\ r[1] = "open" /\ r[2] = amount /\ r[3] = free
    BY <1>0, <1>3, StillOpen
  <2>3. State(l) # Nil
    BY <1>3, TwinsAssumption
  <2>4. Script(a, l) = Reply(tuple, ClosedLedger(moved, "settled", entry))
    BY <1>1, <1>3, <2>3
  <2>5. IsStore(m) /\ delta \in Int /\ -delta \in Int
    BY <2>1 DEF Good
  <2>6. Value(l, "user") = u
    BY CounterIs
  <2>7. ASSUME NEW n \in Nat, NEW q, Replies(q, 3 + n), BeginsLike(q, r, 3)
        PROVE  q # <<>> /\ Len(q) = 3 + n /\ q[1] = "open" /\ q[2] = amount /\ q[3] = free
    <3>1. q # <<>> /\ Len(q) = 3 + n
      <4>1. 3 + n \in Nat /\ 3 + n # 0
        OBVIOUS
      <4> QED BY <2>7, <4>1, EmptyIs, Zenon
    <3>2. q[1] = "open" /\ q[2] = amount /\ q[3] = free
      BY <2>2, <2>7 DEF BeginsLike
    <3> QED BY <3>1, <3>2
  <2>8. PICK d \in Int : d = delta
    BY <2>5
  <2>9. /\ moved = (IF free \/ d = 0 THEN l ELSE MovedBy(l, a, -d))
        /\ tuple = <<1, IF free THEN -1 ELSE Or(Value(moved, "user"), 0), d>>
        /\ d = a.final - amount /\ entry = <<"settle", a.final, amount>>
    BY <2>8 DEF moved, tuple
  <2> HIDE DEF amount, entry, free, delta, u
  \* What the twin does from the third reply on.
  <2>10. ASSUME NEW n \in Nat, NEW q, Replies(q, 3 + n), BeginsLike(q, r, 3),
                NEW pays, pays = IF free THEN <<>> ELSE IF d = 0 THEN <<<<"GET", "user">>>> ELSE Moves(a, -d),
                NEW c \in Nat, c = Len(pays)
         PROVE  SettlesOn(a, q, n, pays, entry, free, d)
    <3>1. Found(q, amount, free) /\ Len(q) = 3 + n
      BY <2>7, <2>10 DEF Found
    <3>2. d = a.final - amount /\ a.name = "settle"
      BY <2>9
    <3>3. pays = IF free THEN <<>> ELSE IF d = 0 THEN <<<<"GET", "user">>>> ELSE Moves(a, -d)
      BY <2>10
    <3>4. c = Len(pays)
      BY <2>10
    <3>5. SettlesOn(a, q, n, pays, <<"settle", a.final, amount>>, free, d)
      BY <3>1, <3>2, <3>3, <3>4, SettleIs
    <3> QED BY <2>9, <3>5
  <2>11. CASE free
    <3>1. PICK pays : pays = <<>>
      OBVIOUS
    <3> DEFINE cmds == ThreeGets \o pays \o <<>> \o Ending("settled", entry)
    <3>2. Runs(a, r, 3, cmds, tuple)
      <4> SUFFICES ASSUME NEW j \in Nat, NEW p, Replies(p, 3 + j), \A i \in 1..3 : p[i] = r[i]
                   PROVE  Twin(a, p) = Then(cmds, p, tuple)
        BY DEF Runs
      <4>1. BeginsLike(p, r, 3)
        BY DEF BeginsLike
      <4>2. pays = (IF free THEN <<>> ELSE IF d = 0 THEN <<<<"GET", "user">>>> ELSE Moves(a, -d)) /\ 0 = Len(pays)
        BY <2>11, <3>1
      <4>3. Twin(a, p) =
                     Then(ThreeGets \o pays
                            \o (IF Len(pays) = 2 /\ p[5] = 1 THEN <<<<"INCRBY", "token", -d>>>> ELSE <<>>)
                            \o Ending("settled", entry), p, <<1, IF free THEN -1 ELSE Or(p[4], 0), d>>)
        <5>1. j >= 0 /\ 0 \in Nat /\ 0 = Len(pays)
          BY <4>2
        <5>2. pays = (IF free THEN <<>> ELSE IF d = 0 THEN <<<<"GET", "user">>>> ELSE Moves(a, -d))
          BY <4>2
        <5>3. SettlesOn(a, p, j, pays, entry, free, d)
          BY <2>10, <4>1, <5>1, <5>2
        <5> QED BY <5>1, <5>3 DEF SettlesOn
      <4>4. Len(pays) # 2
        BY <4>2
      <4> QED BY <2>9, <2>11, <4>3, <4>4
    <3> HIDE DEF cmds
    <3>3. Ends(a, <<>>, m, tuple, ClosedLedger(m, "settled", entry))
      <4>1. PICK n \in {3, 4} : n = 3
        OBVIOUS
      <4>2. pays = (IF n = 3 THEN <<>> ELSE <<0>>)
        BY <3>1, <4>1
      <4> QED BY <2>2, <2>5, <3>2, <4>1, <4>2, ClosesAfter DEF cmds
    <3>4. Good(ClosedLedger(m, "settled", entry), ClosedLedger(l, "settled", entry))
      BY GoodClosed
    <3> QED BY <2>4, <2>9, <2>11, <3>3, <3>4, ReplyIs DEF Starts
  <2>12. CASE ~free /\ d = 0
    <3>0. PICK x : x = <<"GET", "user">>
      OBVIOUS
    <3>1. PICK pays : pays = <<x>>
      OBVIOUS
    <3> DEFINE cmds == ThreeGets \o pays \o <<>> \o Ending("settled", entry)
    <3>2. pays = (IF free THEN <<>> ELSE IF d = 0 THEN <<<<"GET", "user">>>> ELSE Moves(a, -d)) /\ 1 = Len(pays)
      BY <2>12, <3>0, <3>1
    <3>2a. pays[1] = x
      BY <3>1
    <3>3. Twin(a, r) = Do(x)
      <4>1. Replies(r, 3 + 0) /\ BeginsLike(r, r, 3)
        BY <2>2 DEF Reaches, BeginsLike
      <4>2. 0 < 1 => Twin(a, r) = Do(pays[0 + 1])
        <5>1. PICK n \in Nat : n = 0
          OBVIOUS
        <5>2. Replies(r, 3 + n) /\ 1 \in Nat /\ 1 = Len(pays)
          BY <3>2, <4>1, <5>1
        <5>3. pays = (IF free THEN <<>> ELSE IF d = 0 THEN <<<<"GET", "user">>>> ELSE Moves(a, -d))
          BY <3>2
        <5>4. SettlesOn(a, r, n, pays, entry, free, d)
          BY <2>10, <4>1, <5>2, <5>3
        <5> QED BY <5>1, <5>2, <5>4 DEF SettlesOn
      <4> QED BY <3>2a, <4>2
    <3>4. TwinCommand(m, x) = Reply(u, m)
      BY <3>0, GetDoes DEF u
    <3>5. PICK q : Reaches(a, m, q, 4, m) /\ EndsIn(q, 4, u) /\ BeginsLike(q, r, 3)
      <4>1. \E q : Reaches(a, m, q, 3 + 1, m) /\ EndsIn(q, 3 + 1, u) /\ BeginsLike(q, r, 3)
        BY <2>2, <3>3, <3>4, GetsOn
      <4> QED BY <4>1
    <3>6. tuple = <<1, Or(u, 0), d>> /\ moved = l
      BY <2>6, <2>9, <2>12
    <3>7. Runs(a, q, 4, cmds, tuple)
      <4> SUFFICES ASSUME NEW j \in Nat, NEW p, Replies(p, 4 + j), \A i \in 1..4 : p[i] = q[i]
                   PROVE  Twin(a, p) = Then(cmds, p, tuple)
        BY DEF Runs
      <4>1. BeginsLike(p, r, 3) /\ p[4] = u
        BY <3>5 DEF BeginsLike, EndsIn
      <4>2. j + 1 \in Nat /\ 3 + (j + 1) = 4 + j /\ j + 1 >= 1
        OBVIOUS
      <4>3. Replies(p, 3 + (j + 1))
        BY <4>2
      <4>4. Twin(a, p) =
                     Then(ThreeGets \o pays
                            \o (IF Len(pays) = 2 /\ p[5] = 1 THEN <<<<"INCRBY", "token", -d>>>> ELSE <<>>)
                            \o Ending("settled", entry), p, <<1, IF free THEN -1 ELSE Or(p[4], 0), d>>)
        <5>1. j + 1 >= 1 /\ 1 \in Nat /\ 1 = Len(pays) /\ j + 1 \in Nat
          BY <3>2
        <5>2. pays = (IF free THEN <<>> ELSE IF d = 0 THEN <<<<"GET", "user">>>> ELSE Moves(a, -d))
          BY <3>2
        <5>3. PICK n1 \in Nat : n1 = j + 1
          BY <5>1
        <5>4. Replies(p, 3 + n1) /\ n1 >= 1
          BY <4>3, <5>1, <5>3
        <5>5. SettlesOn(a, p, n1, pays, entry, free, d)
          BY <2>10, <4>1, <5>1, <5>2, <5>4
        <5> QED BY <5>1, <5>4, <5>5 DEF SettlesOn
      <4>5. Len(pays) # 2
        <5>1. Len(pays) = 1
          BY <3>2
        <5> QED BY <5>1
      <4> QED BY <2>12, <3>6, <4>1, <4>4, <4>5
    <3> HIDE DEF cmds
    <3>8. Ends(a, <<>>, m, tuple, ClosedLedger(m, "settled", entry))
      <4>1. PICK n \in {3, 4} : n = 4
        OBVIOUS
      <4>2. pays = (IF n = 3 THEN <<>> ELSE <<x>>)
        BY <3>1, <4>1
      <4> QED BY <2>5, <3>5, <3>7, <4>1, <4>2, ClosesAfter DEF cmds
    <3>9. Good(ClosedLedger(m, "settled", entry), ClosedLedger(l, "settled", entry))
      BY GoodClosed
    <3> QED BY <2>4, <3>6, <3>8, <3>9, ReplyIs DEF Starts
  <2>13. CASE ~free /\ d # 0
    <3>1. moved = MovedBy(l, a, -d)
      BY <2>9, <2>13
    <3>2. -d \in Int
      OBVIOUS
    <3>3. /\ Good(MovedBy(m, a, -d), MovedBy(l, a, -d))
          /\ Value(moved, "user") = Or(u, 0) + (-d) /\ Or(u, 0) + (-d) \in Int
      BY <3>1, <3>2, GoodMoved DEF u
    <3>4. PICK paid \in Int : paid = Or(u, 0) + (-d)
      BY <3>3
    <3>5. tuple = <<1, paid, d>> /\ Or(paid, 0) = paid
      <4>1. Or(paid, 0) = paid
        BY TwinsAssumption DEF Or
      <4> QED BY <2>9, <2>13, <3>3, <3>4, <4>1
    <3>6. Moving(a, r, -d, "settled", entry, Or(Value(m, "user"), 0) + (-d), tuple)
      <4> SUFFICES ASSUME NEW n \in Nat, NEW q, Replies(q, 3 + n), BeginsLike(q, r, 3),
                          NEW pays, pays = Moves(a, -d), NEW cap,
                          cap = IF Len(pays) = 2 /\ q[5] = 1 THEN <<<<"INCRBY", "token", -d>>>> ELSE <<>>
                   PROVE  /\ n < Len(pays) => Twin(a, q) = Do(pays[n + 1])
                          /\ n >= Len(pays) /\ q[4] = Or(Value(m, "user"), 0) + (-d) =>
                               Twin(a, q) = Then(ThreeGets \o pays \o cap \o Ending("settled", entry), q, tuple)
        BY DEF Moving
      <4>1. pays = (IF free THEN <<>> ELSE IF d = 0 THEN <<<<"GET", "user">>>> ELSE Moves(a, -d))
        BY <2>13
      <4>2. PICK c \in Nat : c = Len(pays)
        BY MovesLength
      <4>3. /\ n < c => Twin(a, q) = Do(pays[n + 1])
            /\ n >= c => Twin(a, q) =
                     Then(ThreeGets \o pays
                            \o (IF Len(pays) = 2 /\ q[5] = 1 THEN <<<<"INCRBY", "token", -d>>>> ELSE <<>>)
                            \o Ending("settled", entry), q, <<1, IF free THEN -1 ELSE Or(q[4], 0), d>>)
        <5>1. SettlesOn(a, q, n, pays, entry, free, d)
          BY <2>10, <4>1, <4>2
        <5> QED BY <4>2, <5>1 DEF SettlesOn
      <4>4. q[4] = Or(Value(m, "user"), 0) + (-d) => <<1, IF free THEN -1 ELSE Or(q[4], 0), d>> = tuple
        BY <2>13, <3>4, <3>5 DEF u
      <4> QED BY <4>2, <4>3, <4>4
    <3>7. Ends(a, <<>>, m, tuple, ClosedLedger(MovedBy(m, a, -d), "settled", entry))
      BY <2>2, <2>5, <3>6, MovesClose
    <3>8. Good(ClosedLedger(MovedBy(m, a, -d), "settled", entry), ClosedLedger(MovedBy(l, a, -d), "settled", entry))
      BY <3>3, GoodClosed
    <3> QED BY <2>4, <3>1, <3>7, <3>8, ReplyIs DEF Starts
  <2> QED BY <2>11, <2>12, <2>13
<1> QED BY <1>2, <1>3

-----------------------------------------------------------------------------
(* What is left for a running twin to do, from its replies and the two      *)
(* stores.                                                                  *)

Called(fam, a) ==
    /\ fam = "bucket" => /\ a.name = "tokenBucket"
                         /\ a.capacity \in Int /\ a.refill \in Int /\ a.cost \in Int /\ a.now \in Int
    /\ fam = "window" => a.name = "fixedWindow" /\ a.limit \in Int /\ a.cost \in Nat \ {0}
    /\ fam = "successes" => a.name = "slidingSuccess"
    /\ fam = "pool" => a.name = "nextKey" /\ a.size \in Int
    /\ fam = "health" => a.name = "health" /\ a.ok \in BOOLEAN
    /\ fam = "inflight" => a.name = "concurrency" /\ a.limit \in Int /\ a.now \in Int
    /\ fam = "buffer" => /\ a.name \in {"releaseLock", "ackUsage"} /\ a.owner \in Nat
                         /\ a.name = "ackUsage" => a.acked \in Nat
    /\ fam = "ledger" =>
         \/ a.name = "reserve" /\ a.amount \in Int /\ a.unlimited \in BOOLEAN /\ a.capped \in BOOLEAN
         \/ a.name = "settle" /\ a.final \in Int /\ a.capped \in BOOLEAN
         \/ a.name = "release" /\ a.capped \in BOOLEAN

\* A script nothing falls between the commands of.
Ahead(a, r, m, l) == \E last : Ends(a, r, m, Script(a, l).answer, last) /\ Good(last, Script(a, l).store)
Alone(m, l, a, r, lua) ==
    IF Twin(a, r).next = "done" THEN Twin(a, r).is = lua /\ Good(m, l) ELSE Ahead(a, r, m, l)

\* An admission: requests leave between its commands.
Admits(m, l, a, r, lua) ==
    \/ Replies(r, 1) /\ Trimmed("inflight", m, l, a.now)
    \/ Replies(r, 2) /\ r[2] >= a.limit /\ lua = <<0, r[2]>> /\ Good(m, l)
    \/ /\ ~(r[2] >= a.limit) /\ lua = <<1, r[2] + 1>>
       /\ \/ Replies(r, 2) /\ Missing("inflight", m, l, a.member, a.now + Life, Life + 1)
          \/ /\ Replies(r, 3) /\ Undated("inflight", m, l, Life + 1)
             /\ a.member \in DOMAIN Hash(l, "inflight")
          \/ Replies(r, 4) /\ Good(m, l)

\* The lock's owner: rows join the buffer and others ask for the lock between
\* its commands.  Its batch is cut off the twin's buffer first.
UsageRows(s) == Held(s, "buffer", <<>>)
CutShort(m, l, n) ==
    /\ Apart(m, l, "buffer")
    /\ UsageRows(m) = SubSeq(UsageRows(l), n + 1, Len(UsageRows(l)))
Unlocks(m, l, a, r, lua) ==
    \/ Twin(a, r).next = "done" /\ Twin(a, r).is = lua /\ Good(m, l)
    \/ r = <<a.owner>> /\ Value(l, "lock") = a.owner /\ Good(m, l)
    \/ r = <<a.owner, "OK">> /\ a.name = "ackUsage" /\ Value(l, "lock") = a.owner /\ CutShort(m, l, a.acked)

UnderWay(fam, m, l, a, r, lua) ==
    CASE fam = "inflight" -> Admits(m, l, a, r, lua)
      [] fam = "buffer" -> Unlocks(m, l, a, r, lua)
      [] OTHER -> Alone(m, l, a, r, lua)

\* A step more.
Stepped(fam, a, r, m, l, lua) ==
    LET done == TwinCommand(m, Twin(a, r).is)
        q    == Append(r, done.answer)
        settles == Settles(a, q)
    IN  UnderWay(fam, done.store, IF settles THEN Script(a, l).store ELSE l, a, q,
                 IF settles THEN Script(a, l).answer ELSE lua)

Undisturbed == {"bucket", "window", "successes", "pool", "health", "ledger"}

LEMMA OnesIs == \A fam \in ScriptFamilies : fam \in Undisturbed <=> fam \notin {"inflight", "buffer"}
BY DEF ScriptFamilies, Undisturbed

LEMMA CalledStarts ==
    ASSUME NEW fam \in Undisturbed, NEW a, Called(fam, a), NEW m, NEW l, Good(m, l), clock \in Int
    PROVE  Starts(a, m, l) /\ a.name # "concurrency"
<1>1. CASE fam = "bucket"
  <2>1. /\ a.name = "tokenBucket"
        /\ a.capacity \in Int /\ a.refill \in Int /\ a.cost \in Int /\ a.now \in Int
    BY <1>1 DEF Called
  <2> QED BY <2>1, TokenBucketStarts
<1>2. CASE fam = "window"
  <2>1. a.name = "fixedWindow" /\ a.limit \in Int /\ a.cost \in Nat \ {0}
    BY <1>2 DEF Called
  <2> QED BY <2>1, FixedWindowStarts
<1>3. CASE fam = "successes"
  <2>1. a.name = "slidingSuccess"
    BY <1>3 DEF Called
  <2> QED BY <2>1, SlidingSuccessStarts
<1>4. CASE fam = "pool"
  <2>1. a.name = "nextKey" /\ a.size \in Int
    BY <1>4 DEF Called
  <2> QED BY <2>1, NextKeyStarts
<1>5. CASE fam = "health"
  <2>1. a.name = "health" /\ a.ok \in BOOLEAN
    BY <1>5 DEF Called
  <2> QED BY <2>1, HealthStarts
<1>6. CASE fam = "ledger"
  <2>1. \/ a.name = "reserve" /\ a.amount \in Int /\ a.unlimited \in BOOLEAN /\ a.capped \in BOOLEAN
        \/ a.name = "settle" /\ a.final \in Int /\ a.capped \in BOOLEAN
        \/ a.name = "release" /\ a.capped \in BOOLEAN
    BY <1>6 DEF Called
  <2>2. CASE a.name = "reserve" /\ a.amount \in Int /\ a.unlimited \in BOOLEAN /\ a.capped \in BOOLEAN
    BY <2>2, ReserveStarts
  <2>3. CASE a.name = "settle" /\ a.final \in Int /\ a.capped \in BOOLEAN
    BY <2>3, SettleStarts
  <2>4. CASE a.name = "release" /\ a.capped \in BOOLEAN
    BY <2>4, ReleaseStarts
  <2> QED BY <2>1, <2>2, <2>3, <2>4
<1> QED BY <1>1, <1>2, <1>3, <1>4, <1>5, <1>6 DEF Undisturbed

LEMMA AloneSteps ==
    ASSUME NEW fam \in Undisturbed, NEW a, a.name # "concurrency", NEW r, NEW m, NEW l, NEW lua,
           Ahead(a, r, m, l), Twin(a, r).next = "command"
    PROVE  Stepped(fam, a, r, m, l, lua)
<1> DEFINE done == TwinCommand(m, Twin(a, r).is)
           q == Append(r, done.answer)
           script == Script(a, l)
<1>1. PICK last : Ends(a, r, m, script.answer, last) /\ Good(last, script.store)
  BY DEF Ahead
<1>2. Ends(a, q, done.store, script.answer, last)
  BY <1>1, EndsStep
<1>3. Settles(a, q) <=> Twin(a, q).next = "done"
  BY DEF Settles
<1>4. fam # "inflight" /\ fam # "buffer"
  BY DEF Undisturbed
<1>5. Stepped(fam, a, r, m, l, lua) <=>
        Alone(done.store, IF Settles(a, q) THEN script.store ELSE l, a, q,
              IF Settles(a, q) THEN script.answer ELSE lua)
  BY <1>4 DEF Stepped, UnderWay
<1> HIDE DEF done, q, script
<1>6. CASE Twin(a, q).next = "done"
  <2>1. Twin(a, q).is = script.answer /\ done.store = last
    BY <1>2, <1>6, EndsNow
  <2>2. Good(done.store, script.store)
    BY <1>1, <2>1
  <2> QED BY <1>3, <1>5, <1>6, <2>1, <2>2 DEF Alone
<1>7. CASE Twin(a, q).next # "done"
  <2>1. Ahead(a, q, done.store, l)
    BY <1>1, <1>2 DEF Ahead, script
  <2> QED BY <1>3, <1>5, <1>7, <2>1 DEF Alone
<1> QED BY <1>6, <1>7

LEMMA ReplyAppended ==
    ASSUME NEW r, NEW n \in Nat, Replies(r, n), NEW x
    PROVE  Replies(Append(r, x), n + 1) /\ EndsIn(Append(r, x), n + 1, x) /\ BeginsLike(Append(r, x), r, n)
<1> DEFINE S == {r[i] : i \in 1..n} \cup {x}
<1>0. PICK q : q = Append(r, x)
  OBVIOUS
<1>1. n \in Nat /\ Len(r) = n /\ r = [i \in 1..n |-> r[i]]
  BY DEF Replies
<1>2. r \in Seq(S) /\ x \in S
  <2>1. \A i \in 1..n : r[i] \in S
    OBVIOUS
  <2> HIDE DEF S
  <2>2. r \in [1..n -> S]
    BY <1>1, <2>1
  <2>3. r \in Seq(S)
    BY <1>1, <2>2, SeqDef
  <2> QED BY <2>3 DEF S
<1> HIDE DEF S
<1>3. q \in Seq(S) /\ Len(q) = n + 1 /\ q[n + 1] = x /\ \A i \in 1..n : q[i] = r[i]
  BY <1>0, <1>1, <1>2, AppendProperties
<1>4. q = [i \in 1..(n + 1) |-> q[i]]
  BY <1>1, <1>3, LenProperties
<1>5. Replies(q, n + 1)
  BY <1>1, <1>3, <1>4 DEF Replies
<1>6. EndsIn(q, n + 1, x) /\ BeginsLike(q, r, n)
  BY <1>3 DEF EndsIn, BeginsLike
<1> QED BY <1>0, <1>5, <1>6

LEMMA ConcurrencyIs ==
    ASSUME NEW a, Called("inflight", a), clock \in Int
    PROVE  /\ a.name = "concurrency" /\ a.limit \in Int /\ a.now \in Int
           /\ \A q : Settles(a, q) <=> Len(q) = 2
           /\ \A l : Script(a, l) = Admission(l, "inflight", a, a.now, a.now + Life, Life + 1)
           /\ "inflight" \in ZSets /\ Lasts(clock + (Life + 1))
<1>1. a.name = "concurrency" /\ a.limit \in Int /\ a.now \in Int
  BY DEF Called
<1>2. \A q : Settles(a, q) <=> Len(q) = 2
  BY <1>1 DEF Settles
<1>3. \A l : Script(a, l) = Admission(l, "inflight", a, a.now, a.now + Life, Life + 1)
  BY <1>1 DEF Script, CONCURRENCY_LUA
<1>4. "inflight" \in ZSets /\ Lasts(clock + (Life + 1))
  BY DEF ZSets, Lasts, Life
<1> QED BY <1>1, <1>2, <1>3, <1>4

LEMMA ConcurrencyTwinIs ==
    ASSUME NEW a, a.name = "concurrency", NEW r
    PROVE  /\ Len(r) = 0 => Twin(a, r) = Do(<<"ZREMRANGEBYSCORE", "inflight", a.now>>)
           /\ Len(r) = 1 => Twin(a, r) = Do(<<"ZCARD", "inflight">>)
           /\ Len(r) \in 2..4 /\ r[2] >= a.limit => Twin(a, r) = Finished(<<0, r[2]>>)
           /\ ~(r[2] >= a.limit) =>
                /\ Len(r) = 2 => Twin(a, r) = Do(<<"ZADD", "inflight", a.now + Life, a.member>>)
                /\ Len(r) = 3 => Twin(a, r) = Do(<<"EXPIRE", "inflight", Life + 1>>)
                /\ Len(r) = 4 => Twin(a, r) = Finished(<<1, r[2] + 1>>)
<1>1. Twin(a, r) = AdmissionTwin("inflight", a, a.now, a.now + Life, Life + 1, r)
  BY DEF Twin, ConcurrencyTwin
<1> QED BY <1>1, AdmissionTwinIs

\* Where an admission stands after a reply more.
LEMMA AdmissionMoves ==
    ASSUME NEW a, Called("inflight", a), clock \in Int, NEW r, NEW n \in Nat, Replies(r, n), NEW m, NEW l, NEW lua,
           NEW c, Twin(a, r) = Do(c)
    PROVE  LET done == TwinCommand(m, c)
           IN  \E q : /\ Replies(q, n + 1) /\ q[n + 1] = done.answer /\ BeginsLike(q, r, n)
                      /\ Stepped("inflight", a, r, m, l, lua) <=>
                           Admits(done.store, IF n = 1 THEN Script(a, l).store ELSE l, a, q,
                                  IF n = 1 THEN Script(a, l).answer ELSE lua)
<1> DEFINE done == TwinCommand(m, c)
<1>1. PICK x : x = done.answer
  OBVIOUS
<1>2. PICK q : q = Append(r, x)
  OBVIOUS
<1>3. Replies(q, n + 1) /\ q[n + 1] = x /\ \A i \in 1..n : q[i] = r[i]
  <2>1. EndsIn(q, n + 1, x) /\ BeginsLike(q, r, n) /\ Replies(q, n + 1)
    BY <1>2, ReplyAppended
  <2> QED BY <2>1 DEF EndsIn, BeginsLike
<1>4. Replies(q, n + 1) /\ q[n + 1] = x /\ BeginsLike(q, r, n)
  BY <1>3 DEF BeginsLike
<1>5. Twin(a, r).is = c
  BY NextIs
<1>6. Settles(a, q) <=> n = 1
  <2>1. Len(q) = n + 1
    BY <1>4 DEF Replies
  <2>2. Settles(a, q) <=> Len(q) = 2
    BY ConcurrencyIs
  <2> QED BY <2>1, <2>2
<1>7. Stepped("inflight", a, r, m, l, lua) <=>
        Admits(done.store, IF Settles(a, q) THEN Script(a, l).store ELSE l, a, q,
               IF Settles(a, q) THEN Script(a, l).answer ELSE lua)
  BY <1>1, <1>2, <1>5 DEF Stepped, UnderWay
<1>8. Stepped("inflight", a, r, m, l, lua) <=>
        Admits(done.store, IF n = 1 THEN Script(a, l).store ELSE l, a, q,
               IF n = 1 THEN Script(a, l).answer ELSE lua)
  BY <1>6, <1>7
<1> HIDE DEF done
<1>9. \E p : /\ Replies(p, n + 1) /\ p[n + 1] = done.answer /\ BeginsLike(p, r, n)
             /\ Stepped("inflight", a, r, m, l, lua) <=>
                  Admits(done.store, IF n = 1 THEN Script(a, l).store ELSE l, a, p,
                         IF n = 1 THEN Script(a, l).answer ELSE lua)
  BY <1>1, <1>4, <1>8
<1> QED BY <1>9 DEF done

LEMMA AdmissionBegins ==
    ASSUME NEW a, Called("inflight", a), clock \in Int, NEW m, NEW l, Good(m, l), NEW lua
    PROVE  Stepped("inflight", a, <<>>, m, l, lua)
<1>1. PICK c : c = <<"ZREMRANGEBYSCORE", "inflight", a.now>>
  OBVIOUS
<1>2. Twin(a, <<>>) = Do(c)
  BY <1>1, EmptyLength, ConcurrencyIs, ConcurrencyTwinIs
<1>3. PICK n \in Nat : n = 0
  OBVIOUS
<1>4. Replies(<<>>, n)
  BY <1>3, NoReplies
<1>5. PICK q : /\ Replies(q, n + 1)
               /\ Stepped("inflight", a, <<>>, m, l, lua) <=>
                    Admits(TwinCommand(m, c).store, IF n = 1 THEN Script(a, l).store ELSE l, a, q,
                           IF n = 1 THEN Script(a, l).answer ELSE lua)
  BY <1>2, <1>4, AdmissionMoves
<1>6. Trimmed("inflight", TwinCommand(m, c).store, l, a.now)
  BY <1>1, ConcurrencyIs, ZRemRangeTrims
<1>7. Replies(q, 1)
  BY <1>3, <1>5
<1>8. Admits(TwinCommand(m, c).store, l, a, q, lua)
  BY <1>6, <1>7 DEF Admits
<1> QED BY <1>3, <1>5, <1>8

LEMMA AdmissionSteps ==
    ASSUME NEW a, Called("inflight", a), clock \in Int, NEW m, NEW l, NEW r, NEW lua, Admits(m, l, a, r, lua),
           Twin(a, r).next = "command"
    PROVE  Stepped("inflight", a, r, m, l, lua)
<1> USE ConcurrencyIs
<1>0. a.name = "concurrency" /\ "inflight" \in ZSets
  OBVIOUS
<1>1. CASE Replies(r, 1) /\ Trimmed("inflight", m, l, a.now)
  <2>1. PICK c : c = <<"ZCARD", "inflight">>
    OBVIOUS
  <2>2. Twin(a, r) = Do(c)
    BY <1>0, <1>1, <2>1, ConcurrencyTwinIs DEF Replies
  <2>3. PICK n \in Nat : n = 1
    OBVIOUS
  <2>4. PICK count : count = Cardinality(DOMAIN Hash(m, "inflight"))
    OBVIOUS
  <2>5. TwinCommand(m, c) = Reply(count, m)
    BY <2>1, <2>4, ZCardDoes
  <2>6. PICK q : /\ Replies(q, n + 1) /\ q[n + 1] = TwinCommand(m, c).answer
                 /\ Stepped("inflight", a, r, m, l, lua) <=>
                      Admits(TwinCommand(m, c).store, IF n = 1 THEN Script(a, l).store ELSE l, a, q,
                             IF n = 1 THEN Script(a, l).answer ELSE lua)
    BY <1>1, <2>2, <2>3, AdmissionMoves
  <2>7. Replies(q, 2) /\ q[2] = count
    BY <2>3, <2>5, <2>6, ReplyIs
  <2>8. Stepped("inflight", a, r, m, l, lua) <=> Admits(m, Script(a, l).store, a, q, Script(a, l).answer)
    BY <2>3, <2>5, <2>6, ReplyIs
  <2>9. LET script == Script(a, l)
        IN  /\ count >= a.limit => script.answer = <<0, count>> /\ Good(m, script.store)
            /\ ~(count >= a.limit) => /\ script.answer = <<1, count + 1>>
                                      /\ Missing("inflight", m, script.store, a.member, a.now + Life, Life + 1)
    <3>1. PICK life, d, v : life = Life + 1 /\ d = a.now /\ v = a.now + Life
      OBVIOUS
    <3>2. Lasts(clock + life)
      BY <3>1
    <3>3. Trimmed("inflight", m, l, d)
      BY <1>1, <3>1
    <3>4. LET n1 == Cardinality(DOMAIN Hash(m, "inflight"))
              lua1 == Admission(l, "inflight", a, d, v, life)
          IN  /\ n1 >= a.limit => lua1.answer = <<0, n1>> /\ Good(m, lua1.store)
              /\ ~(n1 >= a.limit) => lua1.answer = <<1, n1 + 1>> /\ Missing("inflight", m, lua1.store, a.member, v, life)
      BY <1>0, <3>2, <3>3, ZCardDecides
    <3>5. Script(a, l) = Admission(l, "inflight", a, d, v, life)
      BY <3>1
    <3> QED BY <2>4, <3>1, <3>4, <3>5
  <2>10. Admits(m, Script(a, l).store, a, q, Script(a, l).answer)
    BY <2>7, <2>9 DEF Admits
  <2> QED BY <2>8, <2>10
<1>2. CASE Replies(r, 2) /\ r[2] >= a.limit
  <2>1. Twin(a, r) = Finished(<<0, r[2]>>)
    <3>1. Len(r) \in 2..4 /\ r[2] >= a.limit
      BY <1>2 DEF Replies
    <3> QED BY <1>0, <3>1, ConcurrencyTwinIs
  <2> QED BY <2>1, NextIs
<1>3. CASE ~(r[2] >= a.limit) /\ lua = <<1, r[2] + 1>> /\ Replies(r, 2)
             /\ Missing("inflight", m, l, a.member, a.now + Life, Life + 1)
  <2>1. PICK c : c = <<"ZADD", "inflight", a.now + Life, a.member>>
    OBVIOUS
  <2>2. Twin(a, r) = Do(c)
    BY <1>0, <1>3, <2>1, ConcurrencyTwinIs DEF Replies
  <2>3. PICK n \in Nat : n = 2
    OBVIOUS
  <2>6. PICK q : /\ Replies(q, n + 1) /\ BeginsLike(q, r, n)
                 /\ Stepped("inflight", a, r, m, l, lua) <=>
                      Admits(TwinCommand(m, c).store, IF n = 1 THEN Script(a, l).store ELSE l, a, q,
                             IF n = 1 THEN Script(a, l).answer ELSE lua)
    BY <1>3, <2>2, <2>3, AdmissionMoves
  <2>7. Replies(q, 3) /\ q[2] = r[2]
    BY <2>3, <2>6 DEF BeginsLike
  <2>8. Undated("inflight", TwinCommand(m, c).store, l, Life + 1)
    BY <1>3, <2>1, ZAddAdds
  <2>9. a.member \in DOMAIN Hash(l, "inflight")
    <3>1. Hash(l, "inflight") = Merged(One(a.member, a.now + Life), Hash(m, "inflight"))
      BY <1>3 DEF Missing
    <3> QED BY <3>1 DEF Merged, One
  <2>10. Admits(TwinCommand(m, c).store, l, a, q, lua)
    BY <1>3, <2>7, <2>8, <2>9 DEF Admits
  <2> QED BY <2>3, <2>6, <2>10
<1>4. CASE ~(r[2] >= a.limit) /\ lua = <<1, r[2] + 1>> /\ Replies(r, 3) /\ Undated("inflight", m, l, Life + 1)
  <2>1. PICK c : c = <<"EXPIRE", "inflight", Life + 1>>
    OBVIOUS
  <2>2. Twin(a, r) = Do(c)
    BY <1>0, <1>4, <2>1, ConcurrencyTwinIs DEF Replies
  <2>3. PICK n \in Nat : n = 3
    OBVIOUS
  <2>6. PICK q : /\ Replies(q, n + 1) /\ BeginsLike(q, r, n)
                 /\ Stepped("inflight", a, r, m, l, lua) <=>
                      Admits(TwinCommand(m, c).store, IF n = 1 THEN Script(a, l).store ELSE l, a, q,
                             IF n = 1 THEN Script(a, l).answer ELSE lua)
    BY <1>4, <2>2, <2>3, AdmissionMoves
  <2>7. Replies(q, 4) /\ q[2] = r[2]
    BY <2>3, <2>6 DEF BeginsLike
  <2>8. Good(TwinCommand(m, c).store, l)
    BY <1>4, <2>1, ExpireDates
  <2>10. Admits(TwinCommand(m, c).store, l, a, q, lua)
    BY <1>4, <2>7, <2>8 DEF Admits
  <2> QED BY <2>3, <2>6, <2>10
<1>5. CASE ~(r[2] >= a.limit) /\ Replies(r, 4)
  <2>1. Twin(a, r) = Finished(<<1, r[2] + 1>>)
    BY <1>0, <1>5, ConcurrencyTwinIs DEF Replies
  <2> QED BY <2>1, NextIs
<1> QED BY <1>1, <1>2, <1>3, <1>4, <1>5 DEF Admits

LEMMA AdmissionEnds ==
    ASSUME NEW a, Called("inflight", a), clock \in Int, NEW m, NEW l, NEW r, NEW lua, Admits(m, l, a, r, lua),
           Twin(a, r).next = "done"
    PROVE  Twin(a, r).is = lua /\ Good(m, l)
<1>0. a.name = "concurrency"
  BY ConcurrencyIs
<1>1. CASE Replies(r, 1)
  <2>1. Twin(a, r) = Do(<<"ZCARD", "inflight">>)
    BY <1>0, <1>1, ConcurrencyTwinIs DEF Replies
  <2> QED BY <2>1, NextIs
<1>2. CASE Replies(r, 2) /\ r[2] >= a.limit /\ lua = <<0, r[2]>> /\ Good(m, l)
  <2>1. Twin(a, r) = Finished(<<0, r[2]>>)
    <3>1. Len(r) \in 2..4 /\ r[2] >= a.limit
      BY <1>2 DEF Replies
    <3> QED BY <1>0, <3>1, ConcurrencyTwinIs
  <2> QED BY <1>2, <2>1, NextIs
<1>3. CASE ~(r[2] >= a.limit) /\ lua = <<1, r[2] + 1>> /\ Replies(r, 2)
  <2>1. Twin(a, r) = Do(<<"ZADD", "inflight", a.now + Life, a.member>>)
    BY <1>0, <1>3, ConcurrencyTwinIs DEF Replies
  <2> QED BY <2>1, NextIs
<1>4. CASE ~(r[2] >= a.limit) /\ lua = <<1, r[2] + 1>> /\ Replies(r, 3)
  <2>1. Twin(a, r) = Do(<<"EXPIRE", "inflight", Life + 1>>)
    BY <1>0, <1>4, ConcurrencyTwinIs DEF Replies
  <2> QED BY <2>1, NextIs
<1>5. CASE ~(r[2] >= a.limit) /\ lua = <<1, r[2] + 1>> /\ Replies(r, 4) /\ Good(m, l)
  <2>1. Twin(a, r) = Finished(<<1, r[2] + 1>>)
    BY <1>0, <1>5, ConcurrencyTwinIs DEF Replies
  <2> QED BY <1>5, <2>1, NextIs
<1> QED BY <1>1, <1>2, <1>3, <1>4, <1>5 DEF Admits

-----------------------------------------------------------------------------
(* Single commands, between those of a twin.  Redis keeps no empty           *)
(* collection and nothing past its date.                                     *)

Shown(s) == [k \in StoreKeys |-> Seen(s, k)]

LEMMA VisibleIs ==
    ASSUME NEW e, IsEntry(e)
    PROVE  IsEntry(Visible(e)) /\ Visible(Visible(e)) = Visible(e) /\ Visible(e) \in {e, NoEntry}
<1>1. ~Emptied(NoEntry)
  BY NoEntryIs DEF Emptied
<1> QED BY <1>1, NoEntryIs DEF Visible

LEMMA ShownIs ==
    ASSUME NEW s, IsStore(s), clock \in Int
    PROVE  IsStore(Shown(s)) /\ \A k \in StoreKeys : Live(Shown(s), k) = Visible(Live(s, k))
<1> DEFINE t == Shown(s)
<1>1. ASSUME NEW k \in StoreKeys
      PROVE  t[k] = Visible(Live(s, k)) /\ IsEntry(t[k]) /\ Live(t, k) = t[k]
  <2>1. t[k] = Visible(Live(s, k))
    BY SeenIs DEF Shown
  <2> HIDE DEF t
  <2>2. IsEntry(Live(s, k)) /\ Lasts(Live(s, k).date)
    BY LiveIs
  <2>3. IsEntry(t[k]) /\ t[k] \in {Live(s, k), NoEntry}
    BY <2>1, <2>2, VisibleIs
  <2>4. Lasts(t[k].date)
    BY <2>2, <2>3, NoEntryIs DEF Lasts, Forever
  <2>5. Live(t, k) = t[k]
    BY <2>4 DEF Live, Lasts
  <2> QED BY <2>1, <2>3, <2>5
<1>2. t = [k \in StoreKeys |-> t[k]]
  BY DEF Shown
<1>3. IsStore(t)
  BY <1>1, <1>2 DEF IsStore
<1> QED BY <1>1, <1>3

LEMMA AlikeShown ==
    ASSUME NEW d, NEW e, IsEntry(e), NEW k, Alike(k, d, e)
    PROVE  Alike(k, d, Visible(e))
<1>1. Visible(Visible(e)) = Visible(e) /\ Visible(e) \in {e, NoEntry}
  BY VisibleIs
<1>2. CASE k \in Emptiable
  <2>1. FitsEmptiable(k, NoEntry)
    BY DEF FitsEmptiable
  <2>2. FitsEmptiable(k, Visible(e)) /\ Visible(d) = Visible(Visible(e))
    BY <1>1, <1>2, <2>1 DEF Alike
  <2> QED BY <1>2, <2>2 DEF Alike
<1>3. CASE k \notin Emptiable
  <2>1. d = e /\ Fits(k, e)
    BY <1>3 DEF Alike
  <2>2. e = NoEntry \/ ~Emptied(e)
    BY <2>1 DEF Fits
  <2>3. Visible(e) = e
    BY <2>2 DEF Visible
  <2> QED BY <2>3
<1> QED BY <1>2, <1>3

LEMMA AlikeButShown ==
    ASSUME NEW m, NEW l, IsStore(l), NEW keys, AlikeBut(m, l, keys), clock \in Int
    PROVE  AlikeBut(m, Shown(l), keys)
<1> SUFFICES ASSUME NEW k \in StoreKeys \ keys PROVE Alike(k, Live(m, k), Live(Shown(l), k))
  BY DEF AlikeBut
<1>1. Alike(k, Live(m, k), Live(l, k)) /\ IsEntry(Live(l, k))
  BY LiveIs DEF AlikeBut
<1>2. Live(Shown(l), k) = Visible(Live(l, k))
  BY ShownIs
<1> QED BY <1>1, <1>2, AlikeShown

LEMMA GoodShown ==
    ASSUME NEW m, NEW l, Good(m, l), clock \in Int
    PROVE  Good(m, Shown(l))
BY AlikeButShown, ShownIs DEF Good

LEMMA ApartShown ==
    ASSUME NEW m, NEW l, NEW k \in Emptiable, Apart(m, l, k), clock \in Int
    PROVE  Apart(m, Shown(l), k) /\ Live(Shown(l), k) = Visible(Live(l, k))
<1>1. k \in StoreKeys
  BY DEF Emptiable, StoreKeys, ScriptFamilies
<1>2. IsStore(m) /\ IsStore(l) /\ AlikeBut(m, l, {k}) /\ FitsEmptiable(k, Live(m, k)) /\ FitsEmptiable(k, Live(l, k))
  BY DEF Apart
<1>3. IsStore(Shown(l)) /\ Live(Shown(l), k) = Visible(Live(l, k))
  BY <1>1, <1>2, ShownIs
<1>4. AlikeBut(m, Shown(l), {k})
  BY <1>2, AlikeButShown
<1>5. FitsEmptiable(k, Visible(Live(l, k)))
  <2>1. Visible(Live(l, k)) \in {Live(l, k), NoEntry}
    BY <1>1, <1>2, LiveIs, VisibleIs
  <2>2. FitsEmptiable(k, NoEntry)
    BY DEF FitsEmptiable
  <2> QED BY <1>2, <2>1, <2>2
<1> QED BY <1>2, <1>3, <1>4, <1>5 DEF Apart

\* A sorted set, shown.
LEMMA SortedShown ==
    ASSUME NEW l, NEW k \in ZSets, FitsEmptiable(k, Live(l, k)), IsStore(l), clock \in Int
    PROVE  /\ Hash(Shown(l), k) = Hash(l, k)
           /\ DOMAIN Hash(l, k) # {} => Live(Shown(l), k) = Live(l, k)
<1>1. Live(Shown(l), k) = Visible(Live(l, k))
  BY ShownIs, SortedKeys
<1>2. Visible(Live(l, k)) = IF DOMAIN Hash(l, k) = {} THEN NoEntry ELSE Live(l, k)
  BY EmptySorted
<1>3. CASE DOMAIN Hash(l, k) = {}
  <2>1. Hash(Shown(l), k) = <<>>
    BY <1>1, <1>2, <1>3 DEF Hash, Held
  <2>2. Hash(l, k) = <<>>
    <3>1. IsZSet(Hash(l, k))
      BY SortedIs
    <3> QED BY <1>3, <3>1 DEF IsZSet
  <2> QED BY <1>3, <2>1, <2>2
<1>4. CASE DOMAIN Hash(l, k) # {}
  BY <1>1, <1>2, <1>4 DEF Hash, Held
<1> QED BY <1>3, <1>4

\* A member leaves.
LEMMA ZRemTakes ==
    ASSUME NEW s, IsStore(s), NEW k \in ZSets, FitsEmptiable(k, Live(s, k)), NEW y, clock \in Int
    PROVE  LET t == TwinCommand(s, <<"ZREM", k, y>>)
           IN  /\ IsStore(t.store) /\ SameBut(s, t.store, k) /\ FitsEmptiable(k, Live(t.store, k))
               /\ Hash(t.store, k) = Without(Hash(s, k), {y})
               /\ Live(t.store, k).date = Live(s, k).date
               /\ y \in DOMAIN Hash(s, k) => t.answer = 1
<1> DEFINE t == TwinCommand(s, <<"ZREM", k, y>>)
           u == IF Live(s, k) = NoEntry THEN s
                ELSE Set(s, k, "zset", Without(Hash(s, k), {y}), Live(s, k).date)
<1>1. t = Reply(Cardinality(DOMAIN Hash(s, k) \cap {y}), u)
  BY ZRemDoes
<1>2. /\ IsStore(u) /\ SameBut(s, u, k) /\ FitsEmptiable(k, Live(u, k))
      /\ Hash(u, k) = Without(Hash(s, k), {y}) /\ Live(u, k).date = Live(s, k).date
  BY TakenOut
<1>3. t.store = u /\ t.answer = Cardinality(DOMAIN Hash(s, k) \cap {y})
  BY <1>1, ReplyIs
<1> HIDE DEF t, u
<1>4. y \in DOMAIN Hash(s, k) => t.answer = 1
  <2> SUFFICES ASSUME y \in DOMAIN Hash(s, k) PROVE t.answer = 1
    OBVIOUS
  <2>1. DOMAIN Hash(s, k) \cap {y} = {y}
    OBVIOUS
  <2>2. Cardinality({y}) = 1
    BY FS_Singleton
  <2> QED BY <1>3, <2>1, <2>2
<1> QED BY <1>2, <1>3, <1>4 DEF t

\* Taking a member out, before and after the old ones are dropped or another is
\* put in.
LEMMA TakenTwice ==
    ASSUME NEW z, NEW d, NEW y
    PROVE  Without(Without(z, Low(z, d)), {y}) = Without(Without(z, {y}), Low(Without(z, {y}), d))
<1> DEFINE w == Without(z, {y})
           D == (DOMAIN z \ Low(z, d)) \ {y}
<1>1. DOMAIN w = DOMAIN z \ {y} /\ \A x \in DOMAIN w : w[x] = z[x]
  BY DEF Without
<1>2. DOMAIN w \ Low(w, d) = D
  BY <1>1 DEF Low
<1> HIDE DEF w
<1>3. Without(w, Low(w, d)) = [x \in D |-> z[x]]
  <2>1. Without(w, Low(w, d)) = [x \in D |-> w[x]]
    BY <1>2 DEF Without
  <2>2. \A x \in D : w[x] = z[x]
    BY <1>1
  <2> QED BY <2>1, <2>2
<1>4. Without(Without(z, Low(z, d)), {y}) = [x \in D |-> z[x]]
  BY DEF Without
<1> QED BY <1>3, <1>4 DEF w

LEMMA TakenAndPut ==
    ASSUME NEW z, NEW x, NEW v, NEW gone, x \notin gone
    PROVE  Without(Merged(One(x, v), z), gone) = Merged(One(x, v), Without(z, gone))
<1> DEFINE D == ({x} \cup DOMAIN z) \ gone
<1>1. D = {x} \cup (DOMAIN z \ gone)
  OBVIOUS
<1>2. Without(Merged(One(x, v), z), gone) = [n \in D |-> IF n \in {x} THEN v ELSE z[n]]
  BY DEF Without, Merged, One
<1>3. Merged(One(x, v), Without(z, gone)) = [n \in D |-> IF n \in {x} THEN v ELSE z[n]]
  BY <1>1 DEF Without, Merged, One
<1> QED BY <1>2, <1>3

\* A member leaves both stores.
Left(s, k, y) == TwinCommand(s, <<"ZREM", k, y>>)

LEMMA BothLeft ==
    ASSUME NEW m, NEW l, NEW k \in ZSets, Apart(m, l, k), NEW y, y \in DOMAIN Hash(m, k), y \in DOMAIN Hash(l, k),
           clock \in Int
    PROVE  LET n == Left(m, k, y).store
               o == Left(l, k, y).store
           IN  /\ Left(m, k, y).answer = Left(l, k, y).answer
               /\ Apart(n, o, k) /\ Apart(n, Shown(o), k)
               /\ Hash(n, k) = Without(Hash(m, k), {y}) /\ Live(n, k).date = Live(m, k).date
               /\ Hash(o, k) = Without(Hash(l, k), {y}) /\ Live(o, k).date = Live(l, k).date
               /\ Hash(Shown(o), k) = Without(Hash(l, k), {y})
               /\ DOMAIN Hash(Shown(o), k) # {} => Live(Shown(o), k).date = Live(l, k).date
<1> DEFINE n == Left(m, k, y).store
           o == Left(l, k, y).store
<1>1. IsStore(m) /\ IsStore(l) /\ FitsEmptiable(k, Live(m, k)) /\ FitsEmptiable(k, Live(l, k)) /\ k \in Emptiable
  BY SortedKeys DEF Apart
<1>2. /\ IsStore(n) /\ SameBut(m, n, k) /\ FitsEmptiable(k, Live(n, k))
      /\ Hash(n, k) = Without(Hash(m, k), {y}) /\ Live(n, k).date = Live(m, k).date
      /\ Left(m, k, y).answer = 1
  BY <1>1, ZRemTakes DEF Left
<1>3. /\ IsStore(o) /\ SameBut(l, o, k) /\ FitsEmptiable(k, Live(o, k))
      /\ Hash(o, k) = Without(Hash(l, k), {y}) /\ Live(o, k).date = Live(l, k).date
      /\ Left(l, k, y).answer = 1
  BY <1>1, ZRemTakes DEF Left
<1> HIDE DEF n, o
<1>4. Apart(n, o, k)
  BY <1>2, <1>3, StaysApart
<1>5. Apart(n, Shown(o), k)
  BY <1>1, <1>4, ApartShown
<1>6. /\ Hash(Shown(o), k) = Hash(o, k)
      /\ DOMAIN Hash(o, k) # {} => Live(Shown(o), k) = Live(o, k)
  BY <1>3, SortedShown
<1> QED BY <1>2, <1>3, <1>4, <1>5, <1>6 DEF n, o

LEMMA GoodLeft ==
    ASSUME NEW m, NEW l, NEW k \in ZSets, Good(m, l), NEW y, y \in DOMAIN Hash(m, k), clock \in Int
    PROVE  /\ Left(m, k, y).answer = Left(l, k, y).answer
           /\ Good(Left(m, k, y).store, Shown(Left(l, k, y).store))
<1> DEFINE n == Left(m, k, y).store
           o == Left(l, k, y).store
<1>1. Apart(m, l, k) /\ Alike(k, Live(m, k), Live(l, k))
  BY GoodIsApart
<1>2. Hash(m, k) = Hash(l, k) /\ (DOMAIN Hash(m, k) # {} => Live(m, k) = Live(l, k))
  BY <1>1, SameSorted
<1>3. /\ Left(m, k, y).answer = Left(l, k, y).answer
      /\ Apart(n, o, k)
      /\ Hash(n, k) = Without(Hash(m, k), {y}) /\ Live(n, k).date = Live(m, k).date
      /\ Hash(o, k) = Without(Hash(l, k), {y}) /\ Live(o, k).date = Live(l, k).date
  BY <1>1, <1>2, BothLeft
<1> HIDE DEF n, o
<1>4. Hash(n, k) = Hash(o, k) /\ Live(n, k).date = Live(o, k).date
  <2>1. DOMAIN Hash(m, k) # {}
    OBVIOUS
  <2> QED BY <1>2, <1>3, <2>1
<1>5. Alike(k, Live(n, k), Live(o, k))
  BY <1>3, <1>4, AlikeSorted DEF Apart
<1>6. Good(n, Shown(o))
  BY <1>3, <1>5, GoodIsApart, GoodShown
<1> QED BY <1>3, <1>6 DEF n, o

LEMMA TrimmedLeft ==
    ASSUME NEW m, NEW l, NEW k \in ZSets, NEW d, Trimmed(k, m, l, d), NEW y, y \in DOMAIN Hash(m, k), clock \in Int
    PROVE  /\ Left(m, k, y).answer = Left(l, k, y).answer
           /\ Trimmed(k, Left(m, k, y).store, Shown(Left(l, k, y).store), d)
<1> DEFINE n == Left(m, k, y).store
           o == Shown(Left(l, k, y).store)
<1>1. /\ Apart(m, l, k) /\ Hash(m, k) = Without(Hash(l, k), Low(Hash(l, k), d))
      /\ DOMAIN Hash(m, k) # {} => Live(m, k).date = Live(l, k).date
  BY DEF Trimmed
<1>2. y \in DOMAIN Hash(l, k)
  BY <1>1 DEF Without
<1>3. /\ Left(m, k, y).answer = Left(l, k, y).answer
      /\ Apart(n, o, k)
      /\ Hash(n, k) = Without(Hash(m, k), {y}) /\ Live(n, k).date = Live(m, k).date
      /\ Hash(o, k) = Without(Hash(l, k), {y})
      /\ DOMAIN Hash(o, k) # {} => Live(o, k).date = Live(l, k).date
  BY <1>1, <1>2, BothLeft
<1> HIDE DEF n, o
<1>4. Hash(n, k) = Without(Hash(o, k), Low(Hash(o, k), d))
  <2>1. PICK z : z = Hash(l, k)
    OBVIOUS
  <2>2. Without(Without(z, Low(z, d)), {y}) = Without(Without(z, {y}), Low(Without(z, {y}), d))
    BY TakenTwice
  <2>3. Hash(n, k) = Without(Without(z, Low(z, d)), {y}) /\ Hash(o, k) = Without(z, {y})
    BY <1>1, <1>3, <2>1
  <2> QED BY <2>2, <2>3
<1>5. DOMAIN Hash(n, k) # {} => DOMAIN Hash(o, k) # {}
  BY <1>4 DEF Without
<1>6. DOMAIN Hash(n, k) # {} => Live(n, k).date = Live(o, k).date
  <2>1. DOMAIN Hash(m, k) # {}
    OBVIOUS
  <2> QED BY <1>1, <1>3, <1>5, <2>1
<1>7. Trimmed(k, n, o, d)
  BY <1>3, <1>4, <1>6 DEF Trimmed
<1> QED BY <1>3, <1>7 DEF n, o

LEMMA MissingLeft ==
    ASSUME NEW m, NEW l, NEW k \in ZSets, NEW x, NEW v, NEW life, Missing(k, m, l, x, v, life),
           NEW y, y \in DOMAIN Hash(m, k), y # x, clock \in Int
    PROVE  /\ Left(m, k, y).answer = Left(l, k, y).answer
           /\ Missing(k, Left(m, k, y).store, Shown(Left(l, k, y).store), x, v, life)
<1> DEFINE n == Left(m, k, y).store
           o == Shown(Left(l, k, y).store)
<1>1. /\ Apart(m, l, k) /\ Hash(l, k) = Merged(One(x, v), Hash(m, k)) /\ Live(l, k).date = clock + life
  BY DEF Missing
<1>2. y \in DOMAIN Hash(l, k) /\ x \in DOMAIN Hash(l, k)
  BY <1>1 DEF Merged, One
<1>3. /\ Left(m, k, y).answer = Left(l, k, y).answer
      /\ Apart(n, o, k)
      /\ Hash(n, k) = Without(Hash(m, k), {y})
      /\ Hash(o, k) = Without(Hash(l, k), {y})
      /\ DOMAIN Hash(o, k) # {} => Live(o, k).date = Live(l, k).date
  BY <1>1, <1>2, BothLeft
<1> HIDE DEF n, o
<1>4. Hash(o, k) = Merged(One(x, v), Hash(n, k))
  <2>1. PICK z : z = Hash(m, k)
    OBVIOUS
  <2>2. Without(Merged(One(x, v), z), {y}) = Merged(One(x, v), Without(z, {y}))
    <3>1. PICK gone : gone = {y}
      OBVIOUS
    <3>2. x \notin gone
      BY <3>1
    <3>3. Without(Merged(One(x, v), z), gone) = Merged(One(x, v), Without(z, gone))
      BY <3>2, TakenAndPut
    <3> QED BY <3>1, <3>3
  <2>3. Hash(o, k) = Without(Merged(One(x, v), z), {y}) /\ Hash(n, k) = Without(z, {y})
    BY <1>1, <1>3, <2>1
  <2> QED BY <2>2, <2>3
<1>5. x \in DOMAIN Hash(o, k)
  BY <1>2, <1>3 DEF Without
<1>6. Missing(k, n, o, x, v, life)
  BY <1>1, <1>3, <1>4, <1>5 DEF Missing
<1> QED BY <1>3, <1>6 DEF n, o

LEMMA UndatedLeft ==
    ASSUME NEW m, NEW l, NEW k \in ZSets, NEW life, Undated(k, m, l, life), NEW x, x \in DOMAIN Hash(l, k),
           NEW y, y \in DOMAIN Hash(m, k), y # x, clock \in Int
    PROVE  /\ Left(m, k, y).answer = Left(l, k, y).answer
           /\ Undated(k, Left(m, k, y).store, Shown(Left(l, k, y).store), life)
           /\ x \in DOMAIN Hash(Shown(Left(l, k, y).store), k)
<1> DEFINE n == Left(m, k, y).store
           o == Shown(Left(l, k, y).store)
<1>1. Apart(m, l, k) /\ Hash(l, k) = Hash(m, k) /\ Live(l, k).date = clock + life
  BY DEF Undated
<1>3. /\ Left(m, k, y).answer = Left(l, k, y).answer
      /\ Apart(n, o, k)
      /\ Hash(n, k) = Without(Hash(m, k), {y})
      /\ Hash(o, k) = Without(Hash(l, k), {y})
      /\ DOMAIN Hash(o, k) # {} => Live(o, k).date = Live(l, k).date
  BY <1>1, BothLeft
<1> HIDE DEF n, o
<1>5. x \in DOMAIN Hash(o, k)
  BY <1>3 DEF Without
<1>6. Undated(k, n, o, life)
  BY <1>1, <1>3, <1>5 DEF Undated
<1> QED BY <1>3, <1>5, <1>6 DEF n, o

\* A request leaves while another is being admitted.
LEMMA AdmissionLeaves ==
    ASSUME NEW a, NEW m, NEW l, NEW r, NEW lua, Admits(m, l, a, r, lua), clock \in Int,
           NEW y, y \in DOMAIN Hash(m, "inflight"), y # a.member
    PROVE  /\ Left(m, "inflight", y).answer = Left(l, "inflight", y).answer
           /\ Admits(Left(m, "inflight", y).store, Shown(Left(l, "inflight", y).store), a, r, lua)
<1> DEFINE n == Left(m, "inflight", y)
           o == Left(l, "inflight", y)
<1>0. PICK k \in ZSets : k = "inflight"
  BY DEF ZSets
<1>1. CASE Replies(r, 1) /\ Trimmed("inflight", m, l, a.now)
  <2>1. n.answer = o.answer /\ Trimmed("inflight", n.store, Shown(o.store), a.now)
    BY <1>0, <1>1, TrimmedLeft
  <2> QED BY <1>1, <2>1 DEF Admits
<1>2. CASE Replies(r, 2) /\ r[2] >= a.limit /\ lua = <<0, r[2]>> /\ Good(m, l)
  <2>1. n.answer = o.answer /\ Good(n.store, Shown(o.store))
    BY <1>0, <1>2, GoodLeft
  <2> QED BY <1>2, <2>1 DEF Admits
<1>3. CASE /\ ~(r[2] >= a.limit) /\ lua = <<1, r[2] + 1>>
           /\ Replies(r, 2) /\ Missing("inflight", m, l, a.member, a.now + Life, Life + 1)
  <2>1. n.answer = o.answer /\ Missing("inflight", n.store, Shown(o.store), a.member, a.now + Life, Life + 1)
    BY <1>0, <1>3, MissingLeft
  <2> QED BY <1>3, <2>1 DEF Admits
<1>4. CASE /\ ~(r[2] >= a.limit) /\ lua = <<1, r[2] + 1>> /\ Replies(r, 3)
           /\ Undated("inflight", m, l, Life + 1) /\ a.member \in DOMAIN Hash(l, "inflight")
  <2>1. /\ n.answer = o.answer /\ Undated("inflight", n.store, Shown(o.store), Life + 1)
        /\ a.member \in DOMAIN Hash(Shown(o.store), "inflight")
    BY <1>0, <1>4, UndatedLeft
  <2> QED BY <1>4, <2>1 DEF Admits
<1>5. CASE ~(r[2] >= a.limit) /\ lua = <<1, r[2] + 1>> /\ Replies(r, 4) /\ Good(m, l)
  <2>1. n.answer = o.answer /\ Good(n.store, Shown(o.store))
    BY <1>0, <1>5, GoodLeft
  <2> QED BY <1>5, <2>1 DEF Admits
<1> QED BY <1>1, <1>2, <1>3, <1>4, <1>5 DEF Admits

-----------------------------------------------------------------------------
(* The usage buffer and its lock.                                            *)

LEMMA BufferKey == "buffer" \in StoreKeys /\ "buffer" \in Emptiable /\ "lock" \in StoreKeys \ Emptiable /\ "lock" # "buffer"
BY DEF StoreKeys, Emptiable, ScriptFamilies

LEMMA EmptyRow ==
    ASSUME NEW s \in Seq(Nat)
    PROVE  (DOMAIN s = {} <=> s = <<>>) /\ (Len(s) = 0 <=> s = <<>>) /\ Len(s) \in Nat /\ DOMAIN s = 1..Len(s)
OBVIOUS

LEMMA BufferIs ==
    ASSUME NEW s, IsStore(s), FitsEmptiable("buffer", Live(s, "buffer")), clock \in Int
    PROVE  /\ UsageRows(s) \in Seq(Nat)
           /\ Live(s, "buffer") # NoEntry => Live(s, "buffer") = Entry("list", UsageRows(s), Forever)
           /\ Live(s, "buffer") = NoEntry => UsageRows(s) = <<>>
           /\ Live(s, "buffer").date = Forever
           /\ Visible(Live(s, "buffer")) = IF UsageRows(s) = <<>> THEN NoEntry ELSE Entry("list", UsageRows(s), Forever)
<1>1. CASE Live(s, "buffer") = NoEntry
  <2>1. UsageRows(s) = <<>>
    BY <1>1 DEF UsageRows, Held
  <2>2. Visible(Live(s, "buffer")) = NoEntry
    BY <1>1 DEF Visible
  <2>3. <<>> \in Seq(Nat)
    OBVIOUS
  <2> QED BY <1>1, <2>1, <2>2, <2>3, NoEntryIs
<1>2. CASE Live(s, "buffer") # NoEntry
  <2> DEFINE e == Live(s, "buffer")
  <2>1. e.type = "list" /\ e.is \in Seq(Nat) /\ e.date = Forever
    BY <1>2 DEF FitsEmptiable
  <2>2. IsEntry(e)
    BY LiveIs, BufferKey
  <2>3. UsageRows(s) = e.is
    BY <1>2 DEF UsageRows, Held
  <2>4. e = Entry("list", UsageRows(s), Forever)
    BY <2>1, <2>2, <2>3 DEF IsEntry, Entry
  <2>5. Emptied(e) <=> UsageRows(s) = <<>>
    BY <2>1, <2>3, EmptyRow DEF Emptied
  <2> QED BY <1>2, <2>1, <2>3, <2>4, <2>5 DEF Visible
<1> QED BY <1>1, <1>2

LEMMA GoodIsWhole ==
    ASSUME NEW m, NEW l, clock \in Int
    PROVE  Good(m, l) <=> Apart(m, l, "buffer") /\ UsageRows(m) = UsageRows(l)
<1> DEFINE k == "buffer"
<1>1. ASSUME Good(m, l) PROVE Apart(m, l, k) /\ UsageRows(m) = UsageRows(l)
  <2>1. \A j \in StoreKeys : Alike(j, Live(m, j), Live(l, j))
    BY <1>1 DEF Good, AlikeBut
  <2>2. AlikeBut(m, l, {k}) /\ Alike(k, Live(m, k), Live(l, k))
    BY <2>1, BufferKey DEF AlikeBut
  <2>3. FitsEmptiable(k, Live(m, k)) /\ FitsEmptiable(k, Live(l, k)) /\ Visible(Live(m, k)) = Visible(Live(l, k))
    BY <2>2, BufferKey DEF Alike
  <2>4. Apart(m, l, k)
    BY <1>1, <2>2, <2>3 DEF Apart, Good
  <2>5. /\ Visible(Live(m, k)) = IF UsageRows(m) = <<>> THEN NoEntry ELSE Entry("list", UsageRows(m), Forever)
        /\ Visible(Live(l, k)) = IF UsageRows(l) = <<>> THEN NoEntry ELSE Entry("list", UsageRows(l), Forever)
    BY <1>1, <2>3, BufferIs DEF Good
  <2>6. Entry("list", UsageRows(m), Forever) # NoEntry /\ Entry("list", UsageRows(l), Forever) # NoEntry
    BY EntryIs
  <2>7. Entry("list", UsageRows(m), Forever).is = UsageRows(m) /\ Entry("list", UsageRows(l), Forever).is = UsageRows(l)
    BY EntryIs
  <2> QED BY <2>3, <2>4, <2>5, <2>6, <2>7
<1>2. ASSUME Apart(m, l, k), UsageRows(m) = UsageRows(l) PROVE Good(m, l)
  <2>1. /\ IsStore(m) /\ IsStore(l) /\ AlikeBut(m, l, {k})
        /\ FitsEmptiable(k, Live(m, k)) /\ FitsEmptiable(k, Live(l, k))
    BY <1>2 DEF Apart
  <2>2. Visible(Live(m, k)) = Visible(Live(l, k))
    BY <1>2, <2>1, BufferIs
  <2>3. Alike(k, Live(m, k), Live(l, k))
    BY <2>1, <2>2, BufferKey DEF Alike
  <2>4. \A j \in StoreKeys : Alike(j, Live(m, j), Live(l, j))
    BY <2>1, <2>3 DEF AlikeBut
  <2> QED BY <2>1, <2>4 DEF Good, AlikeBut
<1> QED BY <1>1, <1>2

LEMMA BufferSet ==
    ASSUME NEW s, IsStore(s), NEW rows \in Seq(Nat), clock \in Int
    PROVE  LET t == Set(s, "buffer", "list", rows, Forever)
           IN  IsStore(t) /\ SameBut(s, t, "buffer") /\ FitsEmptiable("buffer", Live(t, "buffer")) /\ UsageRows(t) = rows
<1> DEFINE t == Set(s, "buffer", "list", rows, Forever)
<1>1. IsStore(t)
  BY SetIs, BufferKey DEF Forever
<1>2. Lasts(Forever)
  BY DEF Lasts, Forever
<1>3. Live(t, "buffer") = Entry("list", rows, Forever) /\ \A j \in StoreKeys : j # "buffer" => Live(t, j) = Live(s, j)
  BY <1>2, LiveSet, BufferKey
<1> HIDE DEF t
<1>4. Live(t, "buffer") # NoEntry /\ Live(t, "buffer").is = rows /\ Live(t, "buffer").type = "list"
      /\ Live(t, "buffer").date = Forever
  BY <1>3, EntryIs
<1>5. FitsEmptiable("buffer", Live(t, "buffer")) /\ UsageRows(t) = rows
  BY <1>4 DEF FitsEmptiable, UsageRows, Held
<1> QED BY <1>1, <1>3, <1>5 DEF SameBut, t

LEMMA BufferShown ==
    ASSUME NEW s, IsStore(s), FitsEmptiable("buffer", Live(s, "buffer")), clock \in Int
    PROVE  UsageRows(Shown(s)) = UsageRows(s)
<1>1. Live(Shown(s), "buffer") = IF UsageRows(s) = <<>> THEN NoEntry ELSE Entry("list", UsageRows(s), Forever)
  BY ShownIs, BufferIs, BufferKey
<1>2. CASE UsageRows(s) = <<>>
  BY <1>1, <1>2 DEF UsageRows, Held
<1>3. CASE UsageRows(s) # <<>>
  <2>1. Entry("list", UsageRows(s), Forever) # NoEntry /\ Entry("list", UsageRows(s), Forever).is = UsageRows(s)
    BY EntryIs
  <2>2. Live(Shown(s), "buffer") # NoEntry /\ Live(Shown(s), "buffer").is = UsageRows(s)
    BY <1>1, <1>3, <2>1
  <2>3. Held(Shown(s), "buffer", <<>>) = UsageRows(s)
    BY <2>2 DEF Held
  <2> QED BY <2>3 DEF UsageRows
<1> QED BY <1>2, <1>3

\* A row joins.
Pushed(s, x) == TwinCommand(s, <<"RPUSH", "buffer", x>>)

LEMMA PushedIs ==
    ASSUME NEW s, IsStore(s), FitsEmptiable("buffer", Live(s, "buffer")), NEW x \in Nat, clock \in Int
    PROVE  LET t == Pushed(s, x).store
           IN  /\ IsStore(t) /\ SameBut(s, t, "buffer") /\ FitsEmptiable("buffer", Live(t, "buffer"))
               /\ UsageRows(t) = Append(UsageRows(s), x)
<1>1. Pushed(s, x).store = Set(s, "buffer", "list", Append(UsageRows(s), x), Live(s, "buffer").date)
  BY RPushDoes, ReplyIs DEF Pushed, UsageRows
<1>2. Live(s, "buffer").date = Forever /\ Append(UsageRows(s), x) \in Seq(Nat)
  <2>1. UsageRows(s) \in Seq(Nat)
    BY BufferIs
  <2> QED BY <2>1, BufferIs
<1> QED BY <1>1, <1>2, BufferSet

LEMMA ApartPushed ==
    ASSUME NEW m, NEW l, Apart(m, l, "buffer"), NEW x \in Nat, clock \in Int
    PROVE  LET n == Pushed(m, x).store
               o == Shown(Pushed(l, x).store)
           IN  /\ Apart(n, o, "buffer")
               /\ UsageRows(n) = Append(UsageRows(m), x) /\ UsageRows(o) = Append(UsageRows(l), x)
               /\ Live(o, "lock") = Visible(Live(l, "lock"))
<1> DEFINE n == Pushed(m, x).store
           p == Pushed(l, x).store
<1>1. IsStore(m) /\ IsStore(l) /\ FitsEmptiable("buffer", Live(m, "buffer")) /\ FitsEmptiable("buffer", Live(l, "buffer"))
  BY DEF Apart
<1>2. /\ IsStore(n) /\ SameBut(m, n, "buffer") /\ FitsEmptiable("buffer", Live(n, "buffer"))
      /\ UsageRows(n) = Append(UsageRows(m), x)
  BY <1>1, PushedIs
<1>3. /\ IsStore(p) /\ SameBut(l, p, "buffer") /\ FitsEmptiable("buffer", Live(p, "buffer"))
      /\ UsageRows(p) = Append(UsageRows(l), x)
  BY <1>1, PushedIs
<1> HIDE DEF n, p
<1>4. Apart(n, p, "buffer")
  BY <1>2, <1>3, StaysApart
<1>5. Apart(n, Shown(p), "buffer")
  BY <1>4, ApartShown, BufferKey
<1>6. UsageRows(Shown(p)) = Append(UsageRows(l), x)
  BY <1>3, BufferShown
<1>7. Live(p, "lock") = Live(l, "lock")
  BY <1>3, BufferKey DEF SameBut
<1>8. Live(Shown(p), "lock") = Visible(Live(l, "lock"))
  BY <1>3, <1>7, ShownIs, BufferKey
<1> QED BY <1>2, <1>5, <1>6, <1>8 DEF n, p

\* The lock is set, or taken away, in both stores.
LEMMA LockAlike ==
    ASSUME NEW m, NEW l, Apart(m, l, "buffer"), clock \in Int
    PROVE  /\ Live(m, "lock") = Live(l, "lock") /\ Value(m, "lock") = Value(l, "lock")
           /\ Visible(Live(l, "lock")) = Live(l, "lock")
<1>1. Alike("lock", Live(m, "lock"), Live(l, "lock"))
  BY BufferKey DEF Apart, AlikeBut
<1>2. Live(m, "lock") = Live(l, "lock") /\ Fits("lock", Live(l, "lock"))
  BY <1>1, BufferKey DEF Alike
<1>3. Live(l, "lock") = NoEntry \/ ~Emptied(Live(l, "lock"))
  BY <1>2 DEF Fits
<1> QED BY <1>2, <1>3 DEF Visible, Value

LEMMA LockSet ==
    ASSUME NEW m, NEW l, Apart(m, l, "buffer"), clock \in Int, NEW type, NEW is, NEW date, Lasts(date),
           type \in {"scalar", "gone"}, type = "gone" => is = Nil /\ date = Forever
    PROVE  LET n == Set(m, "lock", type, is, date)
               o == Set(l, "lock", type, is, date)
           IN  /\ Apart(n, o, "buffer") /\ UsageRows(n) = UsageRows(m) /\ UsageRows(o) = UsageRows(l)
               /\ Live(o, "lock") = Entry(type, is, date)
<1> DEFINE n == Set(m, "lock", type, is, date)
           o == Set(l, "lock", type, is, date)
<1>1. /\ IsStore(m) /\ IsStore(l) /\ AlikeBut(m, l, {"buffer"})
      /\ FitsEmptiable("buffer", Live(m, "buffer")) /\ FitsEmptiable("buffer", Live(l, "buffer"))
  BY DEF Apart
<1>2. date \in Int
  BY DEF Lasts
<1>3. /\ IsStore(n) /\ Live(n, "lock") = Entry(type, is, date)
      /\ \A j \in StoreKeys : j # "lock" => Live(n, j) = Live(m, j)
  BY <1>1, <1>2, SetIs, LiveSet, BufferKey
<1>4. /\ IsStore(o) /\ Live(o, "lock") = Entry(type, is, date)
      /\ \A j \in StoreKeys : j # "lock" => Live(o, j) = Live(l, j)
  BY <1>1, <1>2, SetIs, LiveSet, BufferKey
<1> HIDE DEF n, o
<1>5. Fits("lock", Entry(type, is, date))
  <2>1. CASE type = "gone"
    <3>1. Entry(type, is, date) = NoEntry
      BY <2>1 DEF Entry, NoEntry
    <3> QED BY <3>1 DEF Fits
  <2>2. CASE type = "scalar"
    <3>1. ~Emptied(Entry(type, is, date))
      BY <2>2, EntryIs DEF Emptied
    <3> QED BY <3>1 DEF Fits
  <2> QED BY <2>1, <2>2
<1>6. AlikeBut(n, o, {"buffer"})
  <2> SUFFICES ASSUME NEW j \in StoreKeys \ {"buffer"} PROVE Alike(j, Live(n, j), Live(o, j))
    BY DEF AlikeBut
  <2>1. CASE j = "lock"
    BY <1>3, <1>4, <1>5, <2>1, BufferKey DEF Alike
  <2>2. CASE j # "lock"
    BY <1>1, <1>3, <1>4, <2>2 DEF AlikeBut
  <2> QED BY <2>1, <2>2
<1>7. Live(n, "buffer") = Live(m, "buffer") /\ Live(o, "buffer") = Live(l, "buffer")
  BY <1>3, <1>4, BufferKey
<1>8. Apart(n, o, "buffer")
  BY <1>1, <1>3, <1>4, <1>6, <1>7 DEF Apart
<1>9. UsageRows(n) = UsageRows(m) /\ UsageRows(o) = UsageRows(l)
  BY <1>7 DEF UsageRows, Held
<1> QED BY <1>4, <1>8, <1>9 DEF n, o

\* SET NX of the lock.
Locked(s, v) == TwinCommand(s, <<"SETNX", "lock", v>>)

LEMMA LockedIs ==
    ASSUME NEW s, NEW v
    PROVE  Locked(s, v) = IF Live(s, "lock") # NoEntry THEN Reply(Nil, s)
                          ELSE Reply("OK", Set(s, "lock", "scalar", v, clock + Life))
<1>1. Locked(s, v) = Strings(s, <<"SETNX", "lock", v>>)
  BY DEF Locked, TwinCommand
<1> QED BY <1>1 DEF Strings, Set

LEMMA ApartLocked ==
    ASSUME NEW m, NEW l, Apart(m, l, "buffer"), NEW v, clock \in Int
    PROVE  LET n == Locked(m, v).store
               o == Shown(Locked(l, v).store)
           IN  /\ Apart(n, o, "buffer")
               /\ UsageRows(n) = UsageRows(m) /\ UsageRows(o) = UsageRows(l)
               /\ Locked(m, v).answer = Locked(l, v).answer
               /\ Live(o, "lock") = IF Live(l, "lock") # NoEntry THEN Live(l, "lock")
                                    ELSE Entry("scalar", v, clock + Life)
<1> DEFINE n == Locked(m, v).store
           p == Locked(l, v).store
<1>1. /\ Live(m, "lock") = Live(l, "lock")
      /\ Visible(Live(l, "lock")) = Live(l, "lock")
  BY LockAlike
<1>2. /\ Apart(n, p, "buffer") /\ UsageRows(n) = UsageRows(m) /\ UsageRows(p) = UsageRows(l)
      /\ Locked(m, v).answer = Locked(l, v).answer
      /\ Live(p, "lock") = IF Live(l, "lock") # NoEntry THEN Live(l, "lock")
                           ELSE Entry("scalar", v, clock + Life)
  <2>1. CASE Live(l, "lock") # NoEntry
    <3>1. Locked(m, v) = Reply(Nil, m) /\ Locked(l, v) = Reply(Nil, l)
      BY <1>1, <2>1, LockedIs
    <3>2. n = m /\ p = l /\ Locked(m, v).answer = Locked(l, v).answer
      BY <3>1, ReplyIs
    <3> QED BY <2>1, <3>2
  <2>2. CASE Live(l, "lock") = NoEntry
    <3>1. /\ Locked(m, v) = Reply("OK", Set(m, "lock", "scalar", v, clock + Life))
          /\ Locked(l, v) = Reply("OK", Set(l, "lock", "scalar", v, clock + Life))
      BY <1>1, <2>2, LockedIs
    <3>2. /\ n = Set(m, "lock", "scalar", v, clock + Life) /\ p = Set(l, "lock", "scalar", v, clock + Life)
          /\ Locked(m, v).answer = Locked(l, v).answer
      BY <3>1, ReplyIs
    <3> HIDE DEF n, p
    <3>3. Lasts(clock + Life)
      BY DEF Lasts, Life
    <3>4. /\ Apart(Set(m, "lock", "scalar", v, clock + Life), Set(l, "lock", "scalar", v, clock + Life), "buffer")
          /\ UsageRows(Set(m, "lock", "scalar", v, clock + Life)) = UsageRows(m)
          /\ UsageRows(Set(l, "lock", "scalar", v, clock + Life)) = UsageRows(l)
          /\ Live(Set(l, "lock", "scalar", v, clock + Life), "lock") = Entry("scalar", v, clock + Life)
      BY <3>3, LockSet
    <3> QED BY <2>2, <3>2, <3>4
  <2> QED BY <2>1, <2>2
<1> HIDE DEF n, p
<1>3. IsStore(p) /\ FitsEmptiable("buffer", Live(p, "buffer"))
  BY <1>2 DEF Apart
<1>4. Apart(n, Shown(p), "buffer") /\ UsageRows(Shown(p)) = UsageRows(p)
  BY <1>2, <1>3, ApartShown, BufferShown, BufferKey
<1>5. Live(Shown(p), "lock") = Live(p, "lock")
  <2>1. Live(Shown(p), "lock") = Visible(Live(p, "lock"))
    BY <1>3, ShownIs, BufferKey
  <2>2. Visible(Live(p, "lock")) = Live(p, "lock")
    BY <1>2, LockAlike
  <2> QED BY <2>1, <2>2
<1> QED BY <1>2, <1>4, <1>5 DEF n, p

\* DEL of the lock.
LEMMA DelDoes ==
    ASSUME NEW s
    PROVE  TwinCommand(s, <<"DEL", "lock">>) =
             Reply(IF Live(s, "lock") = NoEntry THEN 0 ELSE 1, Set(s, "lock", "gone", Nil, Forever))
<1>1. TwinCommand(s, <<"DEL", "lock">>) = Keyspace(s, <<"DEL", "lock">>)
  BY DEF TwinCommand
<1> QED BY <1>1 DEF Keyspace, Set, NoEntry

LEMMA ApartFreed ==
    ASSUME NEW m, NEW l, Apart(m, l, "buffer"), clock \in Int
    PROVE  LET n == Set(m, "lock", "gone", Nil, Forever)
               o == Set(l, "lock", "gone", Nil, Forever)
           IN  /\ Apart(n, o, "buffer") /\ UsageRows(n) = UsageRows(m) /\ UsageRows(o) = UsageRows(l)
               /\ Live(o, "lock") = NoEntry
<1>1. Lasts(Forever)
  BY DEF Lasts, Forever
<1>2. Entry("gone", Nil, Forever) = NoEntry
  BY DEF Entry, NoEntry
<1> QED BY <1>1, <1>2, LockSet

\* LTRIM of the buffer.
LEMMA TrimDoes ==
    ASSUME NEW s, NEW n
    PROVE  TwinCommand(s, <<"LTRIM", "buffer", n>>) =
             Reply("OK", IF Live(s, "buffer") = NoEntry THEN s
                         ELSE Set(s, "buffer", "list", SubSeq(UsageRows(s), n + 1, Len(UsageRows(s))), Live(s, "buffer").date))
<1>1. TwinCommand(s, <<"LTRIM", "buffer", n>>) = Lists(s, <<"LTRIM", "buffer", n>>)
  BY DEF TwinCommand
<1> QED BY <1>1 DEF Lists, Set, Rewritten, UsageRows

-----------------------------------------------------------------------------
(* The owner of the lock frees it, or cuts its batch off the buffer first.   *)

LEMMA UnlockAsks ==
    ASSUME NEW a, Called("buffer", a), NEW r, r = <<>>
    PROVE  Twin(a, r) = Do(<<"GET", "lock">>)
<1>1. CASE a.name = "releaseLock"
  BY <1>1 DEF Twin, ReleaseLockTwin
<1>2. CASE a.name = "ackUsage"
  BY <1>2 DEF Twin, AckUsageTwin
<1> QED BY <1>1, <1>2 DEF Called

LEMMA UnlockRefuses ==
    ASSUME NEW a, Called("buffer", a), NEW x, x # a.owner, NEW r, r = <<x>>
    PROVE  Twin(a, r) = Finished(<<0>>)
<1>1. r # <<>> /\ r[1] # a.owner
  OBVIOUS
<1>2. CASE a.name = "releaseLock"
  <2>1. Twin(a, r) = ReleaseLockTwin(a, r)
    BY <1>2 DEF Twin
  <2> QED BY <1>1, <2>1 DEF ReleaseLockTwin
<1>3. CASE a.name = "ackUsage"
  <2>1. Twin(a, r) = AckUsageTwin(a, r)
    BY <1>3 DEF Twin
  <2> QED BY <1>1, <2>1 DEF AckUsageTwin
<1> QED BY <1>2, <1>3 DEF Called

LEMMA ReleaseTwinIs ==
    ASSUME NEW a, a.name = "releaseLock", NEW r, r # <<>>, r[1] = a.owner
    PROVE  /\ Len(r) = 1 => Twin(a, r) = Do(<<"DEL", "lock">>)
           /\ Len(r) = 2 => Twin(a, r) = Finished(<<r[2]>>)
<1>1. PICK cmds : cmds = <<"GET", <<"DEL", "lock">>>>
  OBVIOUS
<1>2. Len(cmds) = 2 /\ cmds[2] = <<"DEL", "lock">>
  BY <1>1
<1>3. Twin(a, r) = Then(cmds, r, <<r[2]>>)
  <2>1. Twin(a, r) = ReleaseLockTwin(a, r)
    BY DEF Twin
  <2> QED BY <1>1, <2>1 DEF ReleaseLockTwin
<1> QED BY <1>2, <1>3 DEF Then

LEMMA AckTwinIs ==
    ASSUME NEW a, a.name = "ackUsage", NEW r, r # <<>>, r[1] = a.owner
    PROVE  /\ Len(r) = 1 => Twin(a, r) = Do(<<"LTRIM", "buffer", a.acked>>)
           /\ Len(r) = 2 => Twin(a, r) = Do(<<"DEL", "lock">>)
           /\ Len(r) = 3 => Twin(a, r) = Finished(<<1>>)
<1>1. PICK cmds : cmds = <<"GET", <<"LTRIM", "buffer", a.acked>>, <<"DEL", "lock">>>>
  OBVIOUS
<1>2. Len(cmds) = 3 /\ cmds[2] = <<"LTRIM", "buffer", a.acked>> /\ cmds[3] = <<"DEL", "lock">>
  BY <1>1
<1>3. Twin(a, r) = Then(cmds, r, <<1>>)
  <2>1. Twin(a, r) = AckUsageTwin(a, r)
    BY DEF Twin
  <2> QED BY <1>1, <2>1 DEF AckUsageTwin
<1>4. Len(r) = 1 => Twin(a, r) = Do(cmds[2])
  BY <1>2, <1>3 DEF Then
<1>5. Len(r) = 2 => Twin(a, r) = Do(cmds[3])
  BY <1>2, <1>3 DEF Then
<1>6. Len(r) = 3 => Twin(a, r) = Finished(<<1>>)
  BY <1>2, <1>3 DEF Then
<1> QED BY <1>2, <1>4, <1>5, <1>6, Zenon

LEMMA ReleaseDeletes ==
    ASSUME NEW a, a.name = "releaseLock", NEW r, r = <<a.owner>>
    PROVE  Twin(a, r) = Do(<<"DEL", "lock">>)
<1>1. r # <<>> /\ r[1] = a.owner /\ Len(r) = 1
  OBVIOUS
<1> QED BY <1>1, ReleaseTwinIs, Zenon

LEMMA ReleaseDone ==
    ASSUME NEW a, a.name = "releaseLock", NEW x, NEW r, r = <<a.owner, x>>
    PROVE  Twin(a, r) = Finished(<<x>>)
<1>1. r # <<>> /\ r[1] = a.owner /\ Len(r) = 2 /\ r[2] = x
  OBVIOUS
<1>2. Twin(a, r) = Finished(<<r[2]>>)
  BY <1>1, ReleaseTwinIs, Zenon
<1> QED BY <1>1, <1>2

LEMMA AckTrimsNext ==
    ASSUME NEW a, a.name = "ackUsage", NEW r, r = <<a.owner>>
    PROVE  Twin(a, r) = Do(<<"LTRIM", "buffer", a.acked>>)
<1>1. r # <<>> /\ r[1] = a.owner /\ Len(r) = 1
  OBVIOUS
<1> QED BY <1>1, AckTwinIs, Zenon

LEMMA AckDeletes ==
    ASSUME NEW a, a.name = "ackUsage", NEW x, NEW r, r = <<a.owner, x>>
    PROVE  Twin(a, r) = Do(<<"DEL", "lock">>)
<1>1. r # <<>> /\ r[1] = a.owner /\ Len(r) = 2
  OBVIOUS
<1> QED BY <1>1, AckTwinIs, Zenon

LEMMA AckDone ==
    ASSUME NEW a, a.name = "ackUsage", NEW x, NEW y, NEW r, r = <<a.owner, x, y>>
    PROVE  Twin(a, r) = Finished(<<1>>)
<1>1. r # <<>> /\ r[1] = a.owner /\ Len(r) = 3
  OBVIOUS
<1> QED BY <1>1, AckTwinIs, Zenon

\* The buffer without its first rows.
Rest(rows, n) == SubSeq(rows, n + 1, Len(rows))

LEMMA RestIs ==
    ASSUME NEW rows \in Seq(Nat), NEW n \in Nat
    PROVE  /\ Rest(rows, n) \in Seq(Nat)
           /\ rows = <<>> => Rest(rows, n) = <<>>
           /\ Rest(rows, n) # <<>> => rows # <<>>
<1>1. \A i \in (n + 1)..Len(rows) : rows[i] \in Nat
  OBVIOUS
<1>2. Rest(rows, n) \in Seq(Nat)
  BY <1>1, SubSeqProperties DEF Rest
<1>3. rows = <<>> => Rest(rows, n) = <<>>
  <2> SUFFICES ASSUME rows = <<>> PROVE Rest(rows, n) = <<>>
    OBVIOUS
  <2>1. Len(rows) < n + 1 /\ Len(rows) \in Int
    OBVIOUS
  <2> QED BY <2>1, SubSeqEmpty DEF Rest
<1> QED BY <1>2, <1>3

LEMMA CutIs ==
    ASSUME NEW m, NEW l, NEW n, Apart(m, l, "buffer"), UsageRows(m) = Rest(UsageRows(l), n)
    PROVE  CutShort(m, l, n)
BY DEF CutShort, Rest

LEMMA TrimCuts ==
    ASSUME NEW m, NEW l, Good(m, l), NEW n \in Nat, clock \in Int
    PROVE  /\ TwinCommand(m, <<"LTRIM", "buffer", n>>).answer = "OK"
           /\ CutShort(TwinCommand(m, <<"LTRIM", "buffer", n>>).store, l, n)
<1> DEFINE t == IF Live(m, "buffer") = NoEntry THEN m
                ELSE Set(m, "buffer", "list", Rest(UsageRows(m), n), Live(m, "buffer").date)
<1>1. TwinCommand(m, <<"LTRIM", "buffer", n>>) = Reply("OK", t)
  BY TrimDoes DEF Rest
<1>2. Apart(m, l, "buffer") /\ UsageRows(m) = UsageRows(l)
  BY GoodIsWhole
<1>3. IsStore(m) /\ IsStore(l) /\ FitsEmptiable("buffer", Live(m, "buffer")) /\ FitsEmptiable("buffer", Live(l, "buffer"))
  BY <1>2 DEF Apart
<1>4. UsageRows(m) \in Seq(Nat) /\ Live(m, "buffer").date = Forever
  BY <1>3, BufferIs
<1>5. Rest(UsageRows(m), n) \in Seq(Nat) /\ (UsageRows(m) = <<>> => Rest(UsageRows(m), n) = <<>>)
  <2>1. PICK rows \in Seq(Nat) : rows = UsageRows(m)
    BY <1>4
  <2>2. Rest(rows, n) \in Seq(Nat) /\ (rows = <<>> => Rest(rows, n) = <<>>)
    BY RestIs
  <2> QED BY <2>1, <2>2
<1>6. /\ IsStore(t) /\ SameBut(m, t, "buffer") /\ FitsEmptiable("buffer", Live(t, "buffer"))
      /\ UsageRows(t) = Rest(UsageRows(m), n)
  <2>1. CASE Live(m, "buffer") = NoEntry
    <3>1. UsageRows(m) = <<>>
      BY <1>3, <2>1, BufferIs
    <3> QED BY <1>3, <1>5, <2>1, <3>1, SameButItself
  <2>2. CASE Live(m, "buffer") # NoEntry
    <3>1. t = Set(m, "buffer", "list", Rest(UsageRows(m), n), Forever)
      BY <1>4, <2>2
    <3> QED BY <1>3, <1>5, <3>1, BufferSet
  <2> QED BY <2>1, <2>2
<1> HIDE DEF t
<1>7. Apart(t, l, "buffer")
  BY <1>2, <1>3, <1>6, SameButItself, StaysApart
<1>8. CutShort(t, l, n)
  BY <1>2, <1>6, <1>7, CutIs
<1> QED BY <1>1, <1>8, ReplyIs

\* What Redis makes of an acknowledgement.
LEMMA AckIs ==
    ASSUME NEW l, IsStore(l), FitsEmptiable("buffer", Live(l, "buffer")), clock \in Int,
           NEW a, a.name = "ackUsage", a.acked \in Nat, Value(l, "lock") = a.owner
    PROVE  LET free == Set(l, "lock", "gone", Nil, Forever)
               left == Rest(UsageRows(l), a.acked)
           IN  Script(a, l) = Reply(<<1>>, Set(free, "buffer", IF left = <<>> THEN "gone" ELSE "list",
                                               IF left = <<>> THEN Nil ELSE left, Forever))
<1> DEFINE left == Rest(UsageRows(l), a.acked)
           free == Set(l, "lock", "gone", Nil, Forever)
           o == [l EXCEPT !["lock"] = NoEntry,
                          !["buffer"] = IF left = <<>> THEN NoEntry ELSE [@ EXCEPT !.is = left]]
           p == Set(free, "buffer", IF left = <<>> THEN "gone" ELSE "list",
                    IF left = <<>> THEN Nil ELSE left, Forever)
<1>1. Script(a, l) = Reply(<<1>>, o)
  BY DEF Script, ACK_USAGE_LUA, Rest, UsageRows
<1>2. left # <<>> => l["buffer"] = Entry("list", UsageRows(l), Forever)
  <2> SUFFICES ASSUME left # <<>> PROVE l["buffer"] = Entry("list", UsageRows(l), Forever)
    OBVIOUS
  <2>1. UsageRows(l) \in Seq(Nat)
    BY BufferIs
  <2>2. UsageRows(l) # <<>>
    BY <2>1, RestIs
  <2>3. Live(l, "buffer") # NoEntry /\ Live(l, "buffer") = Entry("list", UsageRows(l), Forever)
    BY <2>2, BufferIs
  <2> QED BY <2>3, LiveIs, BufferKey
<1>3. l = [k \in StoreKeys |-> l[k]] /\ "lock" \in StoreKeys /\ "buffer" \in StoreKeys /\ "lock" # "buffer"
  BY BufferKey DEF IsStore
<1> HIDE DEF left
<1>4. free = [l EXCEPT !["lock"] = NoEntry]
  BY DEF Set, NoEntry
<1>5. CASE left = <<>>
  <2>1. o = [l EXCEPT !["lock"] = NoEntry, !["buffer"] = NoEntry]
    BY <1>5
  <2>2. p = Set(free, "buffer", "gone", Nil, Forever)
    BY <1>5
  <2>3. o = p
    BY <1>3, <1>4, <2>1, <2>2 DEF Set, NoEntry
  <2> QED BY <1>1, <2>3 DEF left
<1>6. CASE left # <<>>
  <2>1. [l["buffer"] EXCEPT !.is = left] = [type |-> "list", is |-> left, date |-> Forever]
    BY <1>2, <1>6 DEF Entry
  <2>2. o = [l EXCEPT !["lock"] = NoEntry, !["buffer"] = [type |-> "list", is |-> left, date |-> Forever]]
    BY <1>3, <1>6, <2>1
  <2>3. p = Set(free, "buffer", "list", left, Forever)
    BY <1>6
  <2>4. o = p
    BY <1>3, <1>4, <2>2, <2>3 DEF Set
  <2> QED BY <1>1, <2>4 DEF left
<1> QED BY <1>5, <1>6

LEMMA UnlockMoves ==
    ASSUME NEW a, Called("buffer", a), NEW r, NEW c, Twin(a, r) = Do(c),
           NEW m, NEW x, NEW t, TwinCommand(m, c) = Reply(x, t), NEW q, Append(r, x) = q, NEW l, NEW lua,
           Twin(a, q).next # "done", Unlocks(t, l, a, q, lua)
    PROVE  Stepped("buffer", a, r, m, l, lua)
<1>1. Twin(a, r).is = c /\ TwinCommand(m, c).answer = x /\ TwinCommand(m, c).store = t
  BY NextIs, ReplyIs
<1>2. a.name # "concurrency"
  BY DEF Called
<1>3. ~Settles(a, q)
  BY <1>2 DEF Settles
<1> QED BY <1>1, <1>3 DEF Stepped, UnderWay

LEMMA UnlockSettles ==
    ASSUME NEW a, Called("buffer", a), NEW r, NEW c, Twin(a, r) = Do(c),
           NEW m, NEW x, NEW t, TwinCommand(m, c) = Reply(x, t), NEW q, Append(r, x) = q, NEW l, NEW lua,
           NEW tuple, Twin(a, q) = Finished(tuple), NEW o, Script(a, l) = Reply(tuple, o), Good(t, o)
    PROVE  Stepped("buffer", a, r, m, l, lua)
<1>1. Twin(a, r).is = c /\ TwinCommand(m, c).answer = x /\ TwinCommand(m, c).store = t
  BY NextIs, ReplyIs
<1>2. a.name # "concurrency"
  BY DEF Called
<1>3. Twin(a, q).next = "done" /\ Twin(a, q).is = tuple
  BY NextIs
<1>4. Settles(a, q)
  BY <1>2, <1>3 DEF Settles
<1>5. Script(a, l).answer = tuple /\ Script(a, l).store = o
  BY ReplyIs
<1>6. Unlocks(t, o, a, q, tuple)
  BY <1>3 DEF Unlocks
<1> QED BY <1>1, <1>4, <1>5, <1>6 DEF Stepped, UnderWay

LEMMA UnlockBegins ==
    ASSUME NEW a, Called("buffer", a), NEW m, NEW l, Good(m, l), NEW r, r = <<>>, NEW lua, clock \in Int
    PROVE  Twin(a, r).next = "command" /\ Stepped("buffer", a, r, m, l, lua)
<1>1. PICK c : c = <<"GET", "lock">>
  OBVIOUS
<1>2. Twin(a, r) = Do(c)
  BY <1>1, UnlockAsks
<1>3. PICK v : v = Value(l, "lock")
  OBVIOUS
<1>4. Value(m, "lock") = v
  BY <1>3, GoodIsWhole, LockAlike
<1>5. TwinCommand(m, c) = Reply(v, m)
  BY <1>1, <1>4, GetDoes
<1>6. PICK q : q = <<v>>
  OBVIOUS
<1>7. Append(r, v) = q
  BY <1>6, Append0
<1>8. Twin(a, r).next = "command"
  BY <1>2, NextIs
<1>9. CASE v # a.owner
  <2>1. PICK tuple : tuple = <<0>>
    OBVIOUS
  <2>2. Twin(a, q) = Finished(tuple)
    BY <1>6, <1>9, <2>1, UnlockRefuses
  <2>3. Script(a, l) = Reply(tuple, l)
    BY <1>3, <1>9, <2>1 DEF Script, RELEASE_LOCK_LUA, ACK_USAGE_LUA, Called
  <2>4. Stepped("buffer", a, r, m, l, lua)
    BY <1>2, <1>5, <1>7, <2>2, <2>3, UnlockSettles
  <2> QED BY <1>8, <2>4
<1>10. CASE v = a.owner
  <2>1. q = <<a.owner>>
    BY <1>6, <1>10
  <2>2. Twin(a, q).next # "done"
    <3>1. CASE a.name = "releaseLock"
      <4>1. Twin(a, q) = Do(<<"DEL", "lock">>)
        BY <2>1, <3>1, ReleaseDeletes
      <4> QED BY <4>1, NextIs
    <3>2. CASE a.name = "ackUsage"
      <4>1. Twin(a, q) = Do(<<"LTRIM", "buffer", a.acked>>)
        BY <2>1, <3>2, AckTrimsNext
      <4> QED BY <4>1, NextIs
    <3> QED BY <3>1, <3>2 DEF Called
  <2>3. Unlocks(m, l, a, q, lua)
    BY <1>3, <1>10, <2>1 DEF Unlocks
  <2>4. Stepped("buffer", a, r, m, l, lua)
    BY <1>2, <1>5, <1>7, <2>2, <2>3, UnlockMoves
  <2> QED BY <1>8, <2>4
<1> QED BY <1>9, <1>10

LEMMA OwnerHolds ==
    ASSUME NEW l, NEW owner \in Nat, Value(l, "lock") = owner
    PROVE  Live(l, "lock") # NoEntry
<1>1. Nil \notin Nat
  BY TwinsAssumption
<1> QED BY <1>1, NoEntryIs DEF Value

\* The owner frees the lock: both stores then hold the same.
LEMMA ReleaseFrees ==
    ASSUME NEW a, Called("buffer", a), a.name = "releaseLock", NEW m, NEW l, Good(m, l),
           Value(l, "lock") = a.owner, NEW r, r = <<a.owner>>, NEW lua, clock \in Int
    PROVE  Stepped("buffer", a, r, m, l, lua)
<1>0. a.name \in {"releaseLock", "ackUsage"} /\ a.owner \in Nat
  BY DEF Called
<1>1. PICK c : c = <<"DEL", "lock">>
  OBVIOUS
<1>2. Twin(a, r) = Do(c)
  BY <1>1, ReleaseDeletes
<1>3. Apart(m, l, "buffer") /\ UsageRows(m) = UsageRows(l)
  BY GoodIsWhole
<1>4. Live(m, "lock") # NoEntry
  BY <1>0, <1>3, LockAlike, OwnerHolds
<1> DEFINE n == Set(m, "lock", "gone", Nil, Forever)
           o == Set(l, "lock", "gone", Nil, Forever)
<1>5. TwinCommand(m, c) = Reply(1, n)
  BY <1>1, <1>4, DelDoes
<1>6. Good(n, o)
  <2>1. Apart(n, o, "buffer") /\ UsageRows(n) = UsageRows(m) /\ UsageRows(o) = UsageRows(l)
    BY <1>3, ApartFreed
  <2> QED BY <1>3, <2>1, GoodIsWhole
<1>7. Script(a, l) = Reply(<<1>>, o)
  <2>1. Script(a, l) = RELEASE_LOCK_LUA(l, a)
    BY DEF Script
  <2> QED BY <2>1 DEF RELEASE_LOCK_LUA, Set, NoEntry
<1> HIDE DEF n, o
<1>8. PICK q : q = <<a.owner, 1>>
  OBVIOUS
<1>9. Append(r, 1) = q
  BY <1>8, Append1
<1>10. Twin(a, q) = Finished(<<1>>)
  BY <1>8, ReleaseDone
<1> QED BY <1>2, <1>5, <1>6, <1>7, <1>9, <1>10, UnlockSettles

LEMMA AckTrims ==
    ASSUME NEW a, Called("buffer", a), a.name = "ackUsage", NEW m, NEW l, Good(m, l),
           Value(l, "lock") = a.owner, NEW r, r = <<a.owner>>, NEW lua, clock \in Int
    PROVE  Stepped("buffer", a, r, m, l, lua)
<1>0. a.name \in {"releaseLock", "ackUsage"} /\ a.owner \in Nat /\ a.acked \in Nat
  BY DEF Called
<1>1. PICK c : c = <<"LTRIM", "buffer", a.acked>>
  OBVIOUS
<1>2. Twin(a, r) = Do(c)
  BY <1>1, AckTrimsNext
<1>3. PICK acked \in Nat : acked = a.acked
  BY <1>0
<1>4. TwinCommand(m, c).answer = "OK" /\ CutShort(TwinCommand(m, c).store, l, acked)
  BY <1>1, <1>3, TrimCuts
<1>5. PICK t : t = TwinCommand(m, c).store
  OBVIOUS
<1>6. TwinCommand(m, c) = Reply("OK", t)
  <2>1. TwinCommand(m, c) = Reply("OK", IF Live(m, "buffer") = NoEntry THEN m
              ELSE Set(m, "buffer", "list", SubSeq(UsageRows(m), a.acked + 1, Len(UsageRows(m))), Live(m, "buffer").date))
    BY <1>1, TrimDoes
  <2> QED BY <1>5, <2>1, ReplyIs
<1>7. PICK q : q = <<a.owner, "OK">>
  OBVIOUS
<1>8. Append(r, "OK") = q
  BY <1>7, Append1
<1>9. Twin(a, q).next # "done"
  <2>1. Twin(a, q) = Do(<<"DEL", "lock">>)
    BY <1>7, AckDeletes
  <2> QED BY <2>1, NextIs
<1>10. Unlocks(t, l, a, q, lua)
  BY <1>3, <1>4, <1>5, <1>7 DEF Unlocks
<1> QED BY <1>2, <1>6, <1>8, <1>9, <1>10, UnlockMoves

LEMMA AckFrees ==
    ASSUME NEW a, Called("buffer", a), a.name = "ackUsage", NEW m, NEW l, CutShort(m, l, a.acked),
           Value(l, "lock") = a.owner, NEW r, r = <<a.owner, "OK">>, NEW lua, clock \in Int
    PROVE  Stepped("buffer", a, r, m, l, lua)
<1>0. a.name \in {"releaseLock", "ackUsage"} /\ a.owner \in Nat /\ a.acked \in Nat
  BY DEF Called
<1>1. PICK c : c = <<"DEL", "lock">>
  OBVIOUS
<1>2. Twin(a, r) = Do(c)
  BY <1>1, AckDeletes
<1>3. PICK acked \in Nat : acked = a.acked
  BY <1>0
<1>4. Apart(m, l, "buffer") /\ UsageRows(m) = Rest(UsageRows(l), acked)
  BY <1>3 DEF CutShort, Rest
<1>5. Live(m, "lock") # NoEntry
  BY <1>0, <1>4, LockAlike, OwnerHolds
<1> DEFINE left == Rest(UsageRows(l), acked)
           n == Set(m, "lock", "gone", Nil, Forever)
           free == Set(l, "lock", "gone", Nil, Forever)
           o == Set(free, "buffer", IF left = <<>> THEN "gone" ELSE "list", IF left = <<>> THEN Nil ELSE left, Forever)
<1>6. TwinCommand(m, c) = Reply(1, n)
  BY <1>1, <1>5, DelDoes
<1>7. IsStore(l) /\ FitsEmptiable("buffer", Live(l, "buffer")) /\ UsageRows(l) \in Seq(Nat)
  BY <1>4, BufferIs DEF Apart
<1>8. Script(a, l) = Reply(<<1>>, o)
  <2>1. LET fr == Set(l, "lock", "gone", Nil, Forever)
            lf == Rest(UsageRows(l), a.acked)
        IN  Script(a, l) = Reply(<<1>>, Set(fr, "buffer", IF lf = <<>> THEN "gone" ELSE "list",
                                            IF lf = <<>> THEN Nil ELSE lf, Forever))
    BY <1>0, <1>7, AckIs
  <2> QED BY <1>3, <2>1
<1>9. Apart(n, free, "buffer") /\ UsageRows(n) = left
  BY <1>4, ApartFreed
<1>10. left \in Seq(Nat)
  <2>1. PICK rows \in Seq(Nat) : rows = UsageRows(l)
    BY <1>7
  <2> QED BY <2>1, RestIs
<1> HIDE DEF left, n, free
<1>11. IsStore(free) /\ IsStore(n) /\ FitsEmptiable("buffer", Live(n, "buffer")) /\ SameBut(n, n, "buffer")
  BY <1>9, SameButItself DEF Apart
<1>12. IsStore(o) /\ SameBut(free, o, "buffer") /\ FitsEmptiable("buffer", Live(o, "buffer")) /\ UsageRows(o) = left
  <2>1. CASE left # <<>>
    <3>1. o = Set(free, "buffer", "list", left, Forever)
      BY <2>1
    <3> QED BY <1>10, <1>11, <3>1, BufferSet
  <2>2. CASE left = <<>>
    <3>1. o = Set(free, "buffer", "gone", Nil, Forever)
      BY <2>2
    <3>2. Lasts(Forever) /\ Forever \in Int
      BY DEF Lasts, Forever
    <3>3. IsStore(o)
      BY <1>11, <3>1, <3>2, SetIs, BufferKey
    <3>4. Live(o, "buffer") = NoEntry /\ \A j \in StoreKeys : j # "buffer" => Live(o, j) = Live(free, j)
      <4>1. Entry("gone", Nil, Forever) = NoEntry
        BY DEF Entry, NoEntry
      <4> QED BY <1>11, <3>1, <3>2, <4>1, LiveSet, BufferKey
    <3> HIDE DEF o
    <3>5. UsageRows(o) = <<>> /\ FitsEmptiable("buffer", Live(o, "buffer"))
      BY <3>4 DEF UsageRows, Held, FitsEmptiable
    <3> QED BY <2>2, <3>3, <3>4, <3>5 DEF SameBut
  <2> QED BY <2>1, <2>2
<1> HIDE DEF o
<1>13. Apart(n, o, "buffer")
  BY <1>9, <1>11, <1>12, StaysApart
<1>14. Good(n, o)
  BY <1>9, <1>12, <1>13, GoodIsWhole
<1>15. PICK q : q = <<a.owner, "OK", 1>>
  OBVIOUS
<1>16. Append(r, 1) = q
  BY <1>15, Append2
<1>17. Twin(a, q) = Finished(<<1>>)
  BY <1>15, AckDone
<1> QED BY <1>2, <1>6, <1>8, <1>14, <1>16, <1>17, UnlockSettles

LEMMA UnlockSteps ==
    ASSUME NEW a, Called("buffer", a), NEW m, NEW l, NEW r, NEW lua, Unlocks(m, l, a, r, lua), clock \in Int,
           Twin(a, r).next = "command"
    PROVE  Stepped("buffer", a, r, m, l, lua)
<1>0. a.name \in {"releaseLock", "ackUsage"}
  BY DEF Called
<1>1. CASE r = <<a.owner>> /\ Value(l, "lock") = a.owner /\ Good(m, l)
  BY <1>0, <1>1, ReleaseFrees, AckTrims
<1>2. CASE r = <<a.owner, "OK">> /\ a.name = "ackUsage" /\ Value(l, "lock") = a.owner /\ CutShort(m, l, a.acked)
  BY <1>2, AckFrees
<1> QED BY <1>1, <1>2 DEF Unlocks

LEMMA UnlockEnds ==
    ASSUME NEW a, Called("buffer", a), NEW m, NEW l, NEW r, NEW lua, Unlocks(m, l, a, r, lua),
           Twin(a, r).next = "done"
    PROVE  Twin(a, r).is = lua /\ Good(m, l)
<1>1. r # <<a.owner>>
  <2> SUFFICES ASSUME r = <<a.owner>> PROVE FALSE
    OBVIOUS
  <2>1. CASE a.name = "releaseLock"
    <3>1. Twin(a, r) = Do(<<"DEL", "lock">>)
      BY <2>1, ReleaseDeletes
    <3> QED BY <3>1, NextIs
  <2>2. CASE a.name = "ackUsage"
    <3>1. Twin(a, r) = Do(<<"LTRIM", "buffer", a.acked>>)
      BY <2>2, AckTrimsNext
    <3> QED BY <3>1, NextIs
  <2> QED BY <2>1, <2>2 DEF Called
<1>2. ~(r = <<a.owner, "OK">> /\ a.name = "ackUsage")
  <2> SUFFICES ASSUME r = <<a.owner, "OK">>, a.name = "ackUsage" PROVE FALSE
    OBVIOUS
  <2>1. Twin(a, r) = Do(<<"DEL", "lock">>)
    BY AckDeletes
  <2> QED BY <2>1, NextIs
<1> QED BY <1>1, <1>2 DEF Unlocks

-----------------------------------------------------------------------------
(* A row joins the buffer, or somebody asks for the lock, while the owner is *)
(* at it.                                                                    *)

LEMMA RestAppended ==
    ASSUME NEW rows \in Seq(Nat), NEW n \in Nat, n <= Len(rows), NEW x \in Nat
    PROVE  Rest(Append(rows, x), n) = Append(Rest(rows, n), x)
<1>1. PICK more \in Seq(Nat) : more = Append(rows, x)
  BY AppendProperties
<1>2. Len(more) = Len(rows) + 1 /\ \A i \in 1..Len(rows) : more[i] = rows[i]
  BY <1>1
<1>3. more[Len(rows) + 1] = x
  BY <1>1
<1>4. PICK left \in Seq(Nat) : left = Rest(rows, n)
  BY RestIs
<1>5. Len(left) = Len(rows) - n /\ \A i \in 1..(Len(rows) - n) : left[i] = rows[n + i]
  <2>1. \A i \in (n + 1)..Len(rows) : rows[i] \in Nat
    OBVIOUS
  <2>2. Len(rows) \in Nat
    OBVIOUS
  <2>3. Len(left) = IF n + 1 <= Len(rows) THEN Len(rows) - (n + 1) + 1 ELSE 0
    BY <1>4, <2>1, <2>2, SubSeqProperties DEF Rest
  <2>4. \A i \in 1..Len(rows) - (n + 1) + 1 : left[i] = rows[n + 1 + i - 1]
    BY <1>4, <2>1, <2>2, SubSeqProperties DEF Rest
  <2> QED BY <2>2, <2>3, <2>4
<1>6. PICK cut \in Seq(Nat) : cut = Rest(more, n)
  BY RestIs
<1>7. Len(cut) = Len(rows) + 1 - n /\ \A i \in 1..(Len(rows) + 1 - n) : cut[i] = more[n + i]
  <2>1. \A i \in (n + 1)..Len(more) : more[i] \in Nat
    OBVIOUS
  <2>2. Len(more) \in Nat /\ Len(rows) \in Nat
    OBVIOUS
  <2>3. Len(cut) = IF n + 1 <= Len(more) THEN Len(more) - (n + 1) + 1 ELSE 0
    BY <1>6, <2>1, <2>2, SubSeqProperties DEF Rest
  <2>4. \A i \in 1..Len(more) - (n + 1) + 1 : cut[i] = more[n + 1 + i - 1]
    BY <1>6, <2>1, <2>2, SubSeqProperties DEF Rest
  <2> QED BY <1>2, <2>2, <2>3, <2>4
<1>8. PICK all \in Seq(Nat) : all = Append(left, x)
  BY AppendProperties
<1>9. Len(all) = Len(left) + 1 /\ (\A i \in 1..Len(left) : all[i] = left[i])
  BY <1>8
<1>10. all[Len(left) + 1] = x
  BY <1>8
<1>11. Len(all) = Len(cut)
  BY <1>5, <1>7, <1>9
<1>12. ASSUME NEW i \in 1..Len(cut) PROVE cut[i] = all[i]
  <2>0. Len(rows) \in Nat /\ i \in 1..(Len(rows) + 1 - n)
    BY <1>7
  <2>1. CASE i \in 1..(Len(rows) - n)
    <3>1. n + i \in 1..Len(rows)
      BY <2>0, <2>1
    <3>2. cut[i] = rows[n + i]
      BY <1>2, <1>7, <2>0, <3>1
    <3>3. all[i] = left[i]
      BY <1>5, <1>9, <2>1
    <3> QED BY <1>5, <2>1, <3>2, <3>3
  <2>2. CASE i = Len(rows) + 1 - n
    <3>1. n + i = Len(rows) + 1 /\ i = Len(left) + 1
      BY <1>5, <2>0, <2>2
    <3>2. cut[i] = more[n + i]
      BY <1>7, <2>0
    <3> QED BY <1>3, <1>10, <3>1, <3>2
  <2>3. i \in 1..(Len(rows) - n) \/ i = Len(rows) + 1 - n
    <3>1. PICK len \in Nat : len = Len(rows)
      BY <2>0
    <3>2. i \in 1..(len + 1 - n)
      BY <2>0, <3>1
    <3>3. i \in 1..(len - n) \/ i = len + 1 - n
      BY <3>2
    <3> QED BY <3>1, <3>3
  <2> QED BY <2>1, <2>2, <2>3
<1>13. cut = all
  BY <1>11, <1>12, SeqEqual
<1> QED BY <1>1, <1>4, <1>6, <1>8, <1>13

LEMMA GoodPushed ==
    ASSUME NEW m, NEW l, Good(m, l), NEW x \in Nat, clock \in Int
    PROVE  Good(Pushed(m, x).store, Shown(Pushed(l, x).store))
<1> DEFINE n == Pushed(m, x).store
           o == Shown(Pushed(l, x).store)
<1>1. Apart(m, l, "buffer") /\ UsageRows(m) = UsageRows(l)
  BY GoodIsWhole
<1>2. Apart(n, o, "buffer") /\ UsageRows(n) = Append(UsageRows(m), x) /\ UsageRows(o) = Append(UsageRows(l), x)
  BY <1>1, ApartPushed
<1> QED BY <1>1, <1>2, GoodIsWhole

LEMMA CutPushed ==
    ASSUME NEW m, NEW l, NEW n \in Nat, CutShort(m, l, n), n <= Len(UsageRows(l)), NEW x \in Nat, clock \in Int
    PROVE  CutShort(Pushed(m, x).store, Shown(Pushed(l, x).store), n)
<1> DEFINE p == Pushed(m, x).store
           o == Shown(Pushed(l, x).store)
<1>1. Apart(m, l, "buffer") /\ UsageRows(m) = Rest(UsageRows(l), n)
  BY DEF CutShort, Rest
<1>2. Apart(p, o, "buffer") /\ UsageRows(p) = Append(UsageRows(m), x) /\ UsageRows(o) = Append(UsageRows(l), x)
  BY <1>1, ApartPushed
<1>3. UsageRows(l) \in Seq(Nat)
  BY <1>1, BufferIs DEF Apart
<1>4. PICK rows \in Seq(Nat) : rows = UsageRows(l)
  BY <1>3
<1>5. Rest(Append(rows, x), n) = Append(Rest(rows, n), x)
  BY <1>4, RestAppended
<1>6. UsageRows(p) = Rest(UsageRows(o), n)
  BY <1>1, <1>2, <1>4, <1>5
<1> QED BY <1>2, <1>6, CutIs

LEMMA LockStays ==
    ASSUME NEW m, NEW l, Apart(m, l, "buffer"), clock \in Int, NEW x \in Nat
    PROVE  /\ Value(Shown(Pushed(l, x).store), "lock") = Value(l, "lock")
           /\ Live(l, "lock") # NoEntry => Value(Shown(Locked(l, x).store), "lock") = Value(l, "lock")
<1>1. Live(Shown(Pushed(l, x).store), "lock") = Visible(Live(l, "lock"))
  BY ApartPushed
<1>2. Visible(Live(l, "lock")) = Live(l, "lock")
  BY LockAlike
<1>3. Live(l, "lock") # NoEntry => Live(Shown(Locked(l, x).store), "lock") = Live(l, "lock")
  BY ApartLocked
<1> QED BY <1>1, <1>2, <1>3 DEF Value

LEMMA UnlocksPushed ==
    ASSUME NEW a, Called("buffer", a), NEW m, NEW l, NEW r, NEW lua, Unlocks(m, l, a, r, lua), clock \in Int,
           a.name = "ackUsage" /\ Value(l, "lock") = a.owner => a.acked <= Len(UsageRows(l)), NEW x \in Nat
    PROVE  Unlocks(Pushed(m, x).store, Shown(Pushed(l, x).store), a, r, lua)
<1> DEFINE n == Pushed(m, x).store
           o == Shown(Pushed(l, x).store)
<1>1. CASE Twin(a, r).next = "done" /\ Twin(a, r).is = lua /\ Good(m, l)
  <2>1. Good(n, o)
    BY <1>1, GoodPushed
  <2> QED BY <1>1, <2>1 DEF Unlocks
<1>2. CASE r = <<a.owner>> /\ Value(l, "lock") = a.owner /\ Good(m, l)
  <2>1. Good(n, o)
    BY <1>2, GoodPushed
  <2>2. Value(o, "lock") = Value(l, "lock")
    BY <1>2, GoodIsWhole, LockStays
  <2> QED BY <1>2, <2>1, <2>2 DEF Unlocks
<1>3. CASE r = <<a.owner, "OK">> /\ a.name = "ackUsage" /\ Value(l, "lock") = a.owner /\ CutShort(m, l, a.acked)
  <2>0. PICK acked \in Nat : acked = a.acked
    BY <1>3 DEF Called
  <2>1. CutShort(n, o, acked)
    BY <1>3, <2>0, CutPushed
  <2>2. Value(o, "lock") = Value(l, "lock")
    BY <1>3, LockStays DEF CutShort
  <2> QED BY <1>3, <2>0, <2>1, <2>2 DEF Unlocks
<1> QED BY <1>1, <1>2, <1>3 DEF Unlocks

LEMMA GoodLocked ==
    ASSUME NEW m, NEW l, Good(m, l), NEW v, clock \in Int
    PROVE  Good(Locked(m, v).store, Shown(Locked(l, v).store)) /\ Locked(m, v).answer = Locked(l, v).answer
<1> DEFINE n == Locked(m, v).store
           o == Shown(Locked(l, v).store)
<1>1. Apart(m, l, "buffer") /\ UsageRows(m) = UsageRows(l)
  BY GoodIsWhole
<1>2. /\ Apart(n, o, "buffer") /\ UsageRows(n) = UsageRows(m) /\ UsageRows(o) = UsageRows(l)
      /\ Locked(m, v).answer = Locked(l, v).answer
  BY <1>1, ApartLocked
<1> QED BY <1>1, <1>2, GoodIsWhole

LEMMA UnlocksLocked ==
    ASSUME NEW a, Called("buffer", a), NEW m, NEW l, NEW r, NEW lua, Unlocks(m, l, a, r, lua), clock \in Int,
           NEW v \in Nat
    PROVE  /\ Unlocks(Locked(m, v).store, Shown(Locked(l, v).store), a, r, lua)
           /\ Locked(m, v).answer = Locked(l, v).answer
<1> DEFINE n == Locked(m, v).store
           o == Shown(Locked(l, v).store)
<1>0. a.owner \in Nat
  BY DEF Called
<1>1. CASE Twin(a, r).next = "done" /\ Twin(a, r).is = lua /\ Good(m, l)
  <2>1. Good(n, o) /\ Locked(m, v).answer = Locked(l, v).answer
    BY <1>1, GoodLocked
  <2> QED BY <1>1, <2>1 DEF Unlocks
<1>2. CASE r = <<a.owner>> /\ Value(l, "lock") = a.owner /\ Good(m, l)
  <2>1. Good(n, o) /\ Locked(m, v).answer = Locked(l, v).answer
    BY <1>2, GoodLocked
  <2>2. Live(l, "lock") # NoEntry
    BY <1>0, <1>2, OwnerHolds
  <2>3. Value(o, "lock") = Value(l, "lock")
    BY <1>2, <2>2, GoodIsWhole, LockStays
  <2> QED BY <1>2, <2>1, <2>3 DEF Unlocks
<1>3. CASE r = <<a.owner, "OK">> /\ a.name = "ackUsage" /\ Value(l, "lock") = a.owner /\ CutShort(m, l, a.acked)
  <2>0. PICK acked : acked = a.acked
    OBVIOUS
  <2>1. Apart(m, l, "buffer") /\ UsageRows(m) = Rest(UsageRows(l), acked)
    BY <1>3, <2>0 DEF CutShort, Rest
  <2>2. /\ Apart(n, o, "buffer") /\ UsageRows(n) = UsageRows(m) /\ UsageRows(o) = UsageRows(l)
        /\ Locked(m, v).answer = Locked(l, v).answer
    BY <2>1, ApartLocked
  <2>3. CutShort(n, o, acked)
    <3>1. UsageRows(n) = Rest(UsageRows(o), acked)
      BY <2>1, <2>2
    <3> QED BY <2>2, <3>1, CutIs
  <2>4. Live(l, "lock") # NoEntry
    BY <1>0, <1>3, OwnerHolds
  <2>5. Value(o, "lock") = Value(l, "lock")
    BY <2>1, <2>4, LockStays
  <2> QED BY <1>3, <2>0, <2>2, <2>3, <2>5 DEF Unlocks
<1> QED BY <1>1, <1>2, <1>3 DEF Unlocks

-----------------------------------------------------------------------------
(* Whatever is said of two stores is so after a step that leaves the clock.  *)

LEMMA LiveStill == ASSUME NEW s, NEW k, clock' = clock PROVE Live(s, k)' = Live(s, k)
BY DEF Live

LEMMA HeldStill ==
    ASSUME NEW s, NEW k, NEW empty, clock' = clock
    PROVE  /\ Held(s, k, empty)' = Held(s, k, empty) /\ Hash(s, k)' = Hash(s, k)
           /\ Value(s, k)' = Value(s, k) /\ Seen(s, k)' = Seen(s, k)
BY Zenon DEF Held, Hash, Value, Seen, Live

LEMMA CommandStill ==
    ASSUME NEW s, NEW c, clock' = clock
    PROVE  TwinCommand(s, c)' = TwinCommand(s, c)
<1>1. Strings(s, c)' = Strings(s, c)
  BY Zenon DEF Strings, Rewritten, Live
<1>2. Keyspace(s, c)' = Keyspace(s, c)
  BY Zenon DEF Keyspace, Live
<1>3. Hashes(s, c)' = Hashes(s, c)
  BY Zenon DEF Hashes, Rewritten, Hash, Held, Live
<1>4. Lists(s, c)' = Lists(s, c)
  BY Zenon DEF Lists, Rewritten, Held, Live
<1>5. SortedSets(s, c)' = SortedSets(s, c)
  BY Zenon DEF SortedSets, Rewritten, Held, Live
<1> QED BY <1>1, <1>2, <1>3, <1>4, <1>5, Zenon DEF TwinCommand

LEMMA WriteStill ==
    ASSUME NEW s, clock' = clock
    PROVE  /\ \A k, by : Add(s, k, by)' = Add(s, k, by)
           /\ \A k, fields, life : Write(s, k, fields, life)' = Write(s, k, fields, life)
           /\ \A k, f : Hashed(s, k, f)' = Hashed(s, k, f)
BY Zenon DEF Add, Write, Hashed, Value, Hash, Held, Live

LEMMA AdmissionStill ==
    ASSUME NEW s, NEW key, NEW a, NEW dropped, NEW score, NEW life, clock' = clock
    PROVE  Admission(s, key, a, dropped, score, life)' = Admission(s, key, a, dropped, score, life)
<1>1. Hash(s, key)' = Hash(s, key) /\ Live(s, key)' = Live(s, key)
  BY HeldStill, LiveStill
<1> QED BY <1>1, Zenon DEF Admission, Set

LEMMA MovedStill ==
    ASSUME NEW s, NEW a, NEW by, NEW state, NEW entry, clock' = clock
    PROVE  /\ MovedBy(s, a, by)' = MovedBy(s, a, by)
           /\ ClosedLedger(s, state, entry)' = ClosedLedger(s, state, entry)
<1>1. MovedBy(s, a, by)' = MovedBy(s, a, by)
  BY SMTT(30) DEF MovedBy, Add, Value, Live
<1>2. ClosedLedger(s, state, entry)' = ClosedLedger(s, state, entry)
  BY SMTT(30) DEF ClosedLedger, Write, Hash, Held, Live
<1> QED BY <1>1, <1>2

LEMMA LedgerStill ==
    ASSUME NEW s, clock' = clock
    PROVE  State(s)' = State(s) /\ Reserved(s)' = Reserved(s) /\ Unlimited(s)' = Unlimited(s)
BY Zenon DEF State, Reserved, Unlimited, Hashed, Hash, Held, Live

LEMMA SettleStill == ASSUME NEW s, NEW a, clock' = clock PROVE SETTLE_LUA(s, a)' = SETTLE_LUA(s, a)
<1>1. State(s)' = State(s) /\ Reserved(s)' = Reserved(s) /\ Unlimited(s)' = Unlimited(s)
  BY LedgerStill
<1>2. PICK delta : delta = a.final - Reserved(s)
  OBVIOUS
<1>3. PICK moved : moved = IF Unlimited(s) \/ delta = 0 THEN s ELSE MovedBy(s, a, -delta)
  OBVIOUS
<1>4. MovedBy(s, a, -delta)' = MovedBy(s, a, -delta)
  BY MovedStill
<1>5. PICK entry : entry = <<"settle", a.final, Reserved(s)>>
  OBVIOUS
<1>6. ClosedLedger(moved, "settled", entry)' = ClosedLedger(moved, "settled", entry)
  BY MovedStill
<1>7. Value(moved, "user")' = Value(moved, "user")
  BY HeldStill
<1>8. SETTLE_LUA(s, a) =
        IF State(s) = Nil THEN Reply(<<0, 0, 0>>, s)
        ELSE IF State(s) # "open" THEN Reply(<<2, 0, 0>>, s)
        ELSE Reply(<<1, IF Unlimited(s) THEN -1 ELSE Or(Value(moved, "user"), 0), delta>>,
                   ClosedLedger(moved, "settled", entry))
  BY <1>2, <1>3, <1>5, Zenon DEF SETTLE_LUA
<1>9. SETTLE_LUA(s, a)' =
        IF State(s)' = Nil THEN Reply(<<0, 0, 0>>, s)
        ELSE IF State(s)' # "open" THEN Reply(<<2, 0, 0>>, s)
        ELSE Reply(<<1, IF Unlimited(s)' THEN -1 ELSE Or(Value(moved, "user")', 0), delta>>,
                   ClosedLedger(moved, "settled", entry)')
  BY <1>1, <1>2, <1>3, <1>4, <1>5, Zenon DEF SETTLE_LUA
<1> QED BY <1>1, <1>6, <1>7, <1>8, <1>9

LEMMA ReleaseStill == ASSUME NEW s, NEW a, clock' = clock PROVE RELEASE_LUA(s, a)' = RELEASE_LUA(s, a)
<1>1. State(s)' = State(s) /\ Reserved(s)' = Reserved(s) /\ Unlimited(s)' = Unlimited(s)
  BY LedgerStill
<1>2. PICK amount : amount = Reserved(s)
  OBVIOUS
<1>3. PICK refunded : refunded = IF ~Unlimited(s) /\ amount > 0 THEN MovedBy(s, a, amount) ELSE s
  OBVIOUS
<1>4. MovedBy(s, a, amount)' = MovedBy(s, a, amount)
  BY MovedStill
<1>5. PICK entry : entry = <<"release", 0, amount>>
  OBVIOUS
<1>6. ClosedLedger(refunded, "released", entry)' = ClosedLedger(refunded, "released", entry)
  BY MovedStill
<1>8. RELEASE_LUA(s, a) =
        IF State(s) = Nil THEN Reply(<<0, 0>>, s)
        ELSE IF State(s) # "open" THEN Reply(<<2, 0>>, s)
        ELSE Reply(<<1, amount>>, ClosedLedger(refunded, "released", entry))
  BY <1>2, <1>3, <1>5, Zenon DEF RELEASE_LUA
<1>9. RELEASE_LUA(s, a)' =
        IF State(s)' = Nil THEN Reply(<<0, 0>>, s)
        ELSE IF State(s)' # "open" THEN Reply(<<2, 0>>, s)
        ELSE Reply(<<1, amount>>, ClosedLedger(refunded, "released", entry)')
  BY <1>1, <1>2, <1>3, <1>4, <1>5, Zenon DEF RELEASE_LUA
<1> QED BY <1>1, <1>6, <1>8, <1>9

LEMMA ScriptStill ==
    ASSUME NEW a, NEW s, clock' = clock
    PROVE  Script(a, s)' = Script(a, s)
<1>1. TOKEN_BUCKET_LUA(s, a)' = TOKEN_BUCKET_LUA(s, a)
  BY Zenon DEF TOKEN_BUCKET_LUA, Hashed, Write, Hash, Held, Live
<1>2. FIXED_WINDOW_LUA(s, a)' = FIXED_WINDOW_LUA(s, a)
  BY Zenon DEF FIXED_WINDOW_LUA, Value, Live
<1>3. SLIDING_SUCCESS_LUA(s, a)' = SLIDING_SUCCESS_LUA(s, a)
  BY AdmissionStill, Zenon DEF SLIDING_SUCCESS_LUA
<1>4. CONCURRENCY_LUA(s, a)' = CONCURRENCY_LUA(s, a)
  BY AdmissionStill, Zenon DEF CONCURRENCY_LUA
<1>5. RESERVE_LUA(s, a)' = RESERVE_LUA(s, a)
  BY SMTT(30) DEF RESERVE_LUA, Value, Add, Write, Hash, Held, Live
<1>6. SETTLE_LUA(s, a)' = SETTLE_LUA(s, a)
  BY SettleStill
<1>7. RELEASE_LUA(s, a)' = RELEASE_LUA(s, a)
  BY ReleaseStill
<1>8. NEXT_KEY_LUA(s, a)' = NEXT_KEY_LUA(s, a)
  BY Zenon DEF NEXT_KEY_LUA, Value, Live
<1>9. HEALTH_LUA(s, a)' = HEALTH_LUA(s, a)
  BY Zenon DEF HEALTH_LUA, Hashed, Write, Hash, Held, Live
<1>10. RELEASE_LOCK_LUA(s, a)' = RELEASE_LOCK_LUA(s, a)
  BY Zenon DEF RELEASE_LOCK_LUA, Value, Live
<1>11. ACK_USAGE_LUA(s, a)' = ACK_USAGE_LUA(s, a)
  BY Zenon DEF ACK_USAGE_LUA, Value, Held, Live
<1> QED BY <1>1, <1>2, <1>3, <1>4, <1>5, <1>6, <1>7, <1>8, <1>9, <1>10, <1>11, Zenon DEF Script

LEMMA GoodStill ==
    ASSUME NEW m, NEW l, NEW keys, clock' = clock
    PROVE  AlikeBut(m, l, keys)' = AlikeBut(m, l, keys) /\ Good(m, l)' = Good(m, l)
<1>1. \A k : Live(m, k)' = Live(m, k) /\ Live(l, k)' = Live(l, k)
  BY LiveStill
<1>2. \A gone : AlikeBut(m, l, gone)' = AlikeBut(m, l, gone)
  BY <1>1, Zenon DEF AlikeBut
<1> QED BY <1>2, Zenon DEF Good

LEMMA ApartStill ==
    ASSUME NEW m, NEW l, NEW k, clock' = clock
    PROVE  Apart(m, l, k)' = Apart(m, l, k)
<1>1. Live(m, k)' = Live(m, k) /\ Live(l, k)' = Live(l, k)
  BY LiveStill
<1>2. AlikeBut(m, l, {k})' = AlikeBut(m, l, {k})
  BY GoodStill
<1> QED BY <1>1, <1>2, Zenon DEF Apart

LEMMA AdmitsStill ==
    ASSUME NEW m, NEW l, NEW a, NEW r, NEW lua, clock' = clock
    PROVE  Admits(m, l, a, r, lua)' = Admits(m, l, a, r, lua)
<1>1. Apart(m, l, "inflight")' = Apart(m, l, "inflight") /\ Good(m, l)' = Good(m, l)
  BY ApartStill, GoodStill
<1>2. /\ Live(m, "inflight")' = Live(m, "inflight") /\ Live(l, "inflight")' = Live(l, "inflight")
      /\ Hash(m, "inflight")' = Hash(m, "inflight") /\ Hash(l, "inflight")' = Hash(l, "inflight")
  BY LiveStill, HeldStill
<1>3. Trimmed("inflight", m, l, a.now)' = Trimmed("inflight", m, l, a.now)
  BY <1>1, <1>2, Zenon DEF Trimmed
<1>4. Missing("inflight", m, l, a.member, a.now + Life, Life + 1)' = Missing("inflight", m, l, a.member, a.now + Life, Life + 1)
  BY <1>1, <1>2, Zenon DEF Missing
<1>5. Undated("inflight", m, l, Life + 1)' = Undated("inflight", m, l, Life + 1)
  BY <1>1, <1>2, Zenon DEF Undated
<1> QED BY <1>1, <1>2, <1>3, <1>4, <1>5, Zenon DEF Admits

LEMMA UnlocksStill ==
    ASSUME NEW m, NEW l, NEW a, NEW r, NEW lua, clock' = clock
    PROVE  /\ Unlocks(m, l, a, r, lua)' = Unlocks(m, l, a, r, lua)
           /\ UsageRows(l)' = UsageRows(l)
<1>1. Apart(m, l, "buffer")' = Apart(m, l, "buffer") /\ Good(m, l)' = Good(m, l)
  BY ApartStill, GoodStill
<1>2. UsageRows(m)' = UsageRows(m) /\ UsageRows(l)' = UsageRows(l) /\ Value(l, "lock")' = Value(l, "lock")
  BY HeldStill, Zenon DEF UsageRows
<1>3. CutShort(m, l, a.acked)' = CutShort(m, l, a.acked)
  BY <1>1, <1>2, Zenon DEF CutShort
<1> QED BY <1>1, <1>2, <1>3, Zenon DEF Unlocks

LEMMA AloneStill ==
    ASSUME NEW m, NEW l, NEW a, NEW r, NEW lua, clock' = clock
    PROVE  Alone(m, l, a, r, lua)' = Alone(m, l, a, r, lua)
<1>1. \A p : After(a, p)' = After(a, p)
  BY CommandStill, Zenon DEF After
<1>2. \A n, tr : Trace(a, n, tr)' = Trace(a, n, tr)
  BY <1>1, Zenon DEF Trace
<1>3. \A s, answer, last : Ends(a, r, s, answer, last)' = Ends(a, r, s, answer, last)
  BY <1>2, Zenon DEF Ends
<1>4. Script(a, l)' = Script(a, l)
  BY ScriptStill
<1>5. \A p, q : Good(p, q)' = Good(p, q)
  BY GoodStill
<1>9. Ahead(a, r, m, l)' = Ahead(a, r, m, l)
  BY <1>3, <1>4, <1>5, Zenon DEF Ahead
<1> QED BY <1>5, <1>9, Zenon DEF Alone

LEMMA UnderWayStill ==
    ASSUME NEW fam, NEW m, NEW l, NEW a, NEW r, NEW lua, clock' = clock
    PROVE  UnderWay(fam, m, l, a, r, lua)' = UnderWay(fam, m, l, a, r, lua)
<1>1. Admits(m, l, a, r, lua)' = Admits(m, l, a, r, lua)
  BY AdmitsStill
<1>2. Unlocks(m, l, a, r, lua)' = Unlocks(m, l, a, r, lua)
  BY UnlocksStill
<1>3. Alone(m, l, a, r, lua)' = Alone(m, l, a, r, lua)
  BY AloneStill
<1> QED BY <1>1, <1>2, <1>3, Zenon DEF UnderWay

-----------------------------------------------------------------------------
(* A step of a twin, of any family.                                          *)

LEMMA OnlyConcurrency ==
    ASSUME NEW fam \in Undisturbed, NEW a, Called(fam, a)
    PROVE  a.name # "concurrency"
BY DEF Undisturbed, Called

LEMMA TwinBegins ==
    ASSUME NEW fam \in ScriptFamilies, NEW a, Called(fam, a), NEW m, NEW l, Good(m, l), NEW r, r = <<>>, NEW lua,
           Twin(a, r).next = "command", clock \in Int
    PROVE  Stepped(fam, a, r, m, l, lua)
<1>1. CASE fam \in Undisturbed
  <2>1. a.name # "concurrency" /\ Starts(a, m, l)
    BY <1>1, CalledStarts
  <2>2. Ahead(a, r, m, l)
    BY <2>1 DEF Starts, Ahead
  <2> QED BY <1>1, <2>1, <2>2, AloneSteps
<1>2. CASE fam = "inflight"
  BY <1>2, AdmissionBegins
<1>3. CASE fam = "buffer"
  BY <1>3, UnlockBegins
<1> QED BY <1>1, <1>2, <1>3, OnesIs

LEMMA TwinSteps ==
    ASSUME NEW fam \in ScriptFamilies, NEW a, Called(fam, a), NEW m, NEW l, NEW r, NEW lua,
           UnderWay(fam, m, l, a, r, lua), Twin(a, r).next = "command", clock \in Int
    PROVE  Stepped(fam, a, r, m, l, lua)
<1>1. CASE fam \in Undisturbed
  <2>0. fam # "inflight" /\ fam # "buffer"
    BY <1>1 DEF Undisturbed
  <2>1. a.name # "concurrency"
    BY <1>1, OnlyConcurrency
  <2>2. Alone(m, l, a, r, lua)
    BY <2>0 DEF UnderWay
  <2>3. Ahead(a, r, m, l)
    BY <2>2 DEF Alone
  <2> QED BY <1>1, <2>1, <2>3, AloneSteps
<1>2. CASE fam = "inflight"
  <2>1. Admits(m, l, a, r, lua)
    BY <1>2 DEF UnderWay
  <2> QED BY <1>2, <2>1, AdmissionSteps
<1>3. CASE fam = "buffer"
  <2>1. Unlocks(m, l, a, r, lua)
    BY <1>3 DEF UnderWay
  <2> QED BY <1>3, <2>1, UnlockSteps
<1> QED BY <1>1, <1>2, <1>3, OnesIs

LEMMA TwinEnds ==
    ASSUME NEW fam \in ScriptFamilies, NEW a, Called(fam, a), NEW m, NEW l, NEW r, NEW lua,
           UnderWay(fam, m, l, a, r, lua), Twin(a, r).next = "done", clock \in Int
    PROVE  Twin(a, r).is = lua /\ Good(m, l)
<1>1. CASE fam \in Undisturbed
  <2>0. fam # "inflight" /\ fam # "buffer"
    BY <1>1 DEF Undisturbed
  <2>2. Alone(m, l, a, r, lua)
    BY <2>0 DEF UnderWay
  <2> QED BY <2>2 DEF Alone
<1>2. CASE fam = "inflight"
  <2>1. Admits(m, l, a, r, lua)
    BY <1>2 DEF UnderWay
  <2> QED BY <1>2, <2>1, AdmissionEnds
<1>3. CASE fam = "buffer"
  <2>1. Unlocks(m, l, a, r, lua)
    BY <1>3 DEF UnderWay
  <2> QED BY <1>3, <2>1, UnlockEnds
<1> QED BY <1>1, <1>2, <1>3, OnesIs

\* A script that asks nothing of the store.
LEMMA TwinEndsAtOnce ==
    ASSUME NEW fam \in ScriptFamilies, NEW a, Called(fam, a), NEW m, NEW l, Good(m, l), NEW r, r = <<>>,
           Twin(a, r).next = "done", clock \in Int
    PROVE  Twin(a, r).is = Script(a, l).answer /\ Good(m, Script(a, l).store)
<1>1. CASE fam \in Undisturbed
  <2>1. Starts(a, m, l)
    BY <1>1, CalledStarts
  <2>2. PICK script : script = Script(a, l)
    OBVIOUS
  <2>3. PICK last : Ends(a, r, m, script.answer, last) /\ Good(last, script.store)
    BY <2>1, <2>2 DEF Starts
  <2>4. Twin(a, r).is = script.answer /\ m = last
    BY <2>3, EndsNow
  <2> QED BY <2>2, <2>3, <2>4
<1>2. CASE fam = "inflight"
  <2>1. a.name = "concurrency"
    BY <1>2, ConcurrencyIs
  <2>2. Len(r) = 0
    OBVIOUS
  <2>3. Twin(a, r) = Do(<<"ZREMRANGEBYSCORE", "inflight", a.now>>)
    BY <2>1, <2>2, ConcurrencyTwinIs, Zenon
  <2> QED BY <2>3, NextIs
<1>3. CASE fam = "buffer"
  <2>1. Twin(a, r) = Do(<<"GET", "lock">>)
    BY <1>3, UnlockAsks
  <2> QED BY <2>1, NextIs
<1> QED BY <1>1, <1>2, <1>3, OnesIs

-----------------------------------------------------------------------------
(* An acknowledgement by the owner of the lock finds its rows in the buffer.  *)

RowsThere(l, a) == a.name = "ackUsage" /\ Value(l, "lock") = a.owner => a.acked <= Len(UsageRows(l))

\* A script leaves the store as it is, or frees the lock.
LEMMA UnlockLeaves ==
    ASSUME NEW a, Called("buffer", a), NEW l, IsStore(l), clock \in Int
    PROVE  Script(a, l).store = l \/ Value(Script(a, l).store, "lock") = Nil
<1>1. "lock" \in StoreKeys /\ l = [k \in StoreKeys |-> l[k]]
  BY BufferKey DEF IsStore
<1>2. ASSUME NEW o, o["lock"] = NoEntry PROVE Value(o, "lock") = Nil
  BY <1>2 DEF Value, Live, NoEntry
<1>3. CASE a.name = "releaseLock"
  <2>1. Script(a, l) = RELEASE_LOCK_LUA(l, a)
    BY <1>3 DEF Script
  <2>2. Script(a, l).store = l \/ Script(a, l).store = [l EXCEPT !["lock"] = NoEntry]
    BY <2>1, ReplyIs DEF RELEASE_LOCK_LUA
  <2>3. [l EXCEPT !["lock"] = NoEntry]["lock"] = NoEntry
    BY <1>1
  <2> QED BY <1>2, <2>2, <2>3
<1>4. CASE a.name = "ackUsage"
  <2>1. Script(a, l) = ACK_USAGE_LUA(l, a)
    BY <1>4 DEF Script
  <2>2. PICK e : e = IF SubSeq(Held(l, "buffer", <<>>), a.acked + 1, Len(Held(l, "buffer", <<>>))) = <<>> THEN NoEntry
                     ELSE [l["buffer"] EXCEPT !.is = SubSeq(Held(l, "buffer", <<>>), a.acked + 1, Len(Held(l, "buffer", <<>>)))]
    OBVIOUS
  <2>3. [l EXCEPT !["lock"] = NoEntry, !["buffer"] = e]["lock"] = NoEntry
    BY <1>1
  <2>4. Script(a, l).store = l \/ Script(a, l).store = [l EXCEPT !["lock"] = NoEntry, !["buffer"] = e]
    BY <1>1, <2>1, <2>2, ReplyIs DEF ACK_USAGE_LUA
  <2> QED BY <1>2, <2>3, <2>4
<1> QED BY <1>3, <1>4 DEF Called

LEMMA RowsStay ==
    ASSUME NEW a, Called("buffer", a), NEW b, Called("buffer", b), NEW l, IsStore(l), clock \in Int, RowsThere(l, b)
    PROVE  RowsThere(Script(a, l).store, b)
<1>1. Nil \notin Nat /\ b.owner \in Nat
  BY TwinsAssumption DEF Called
<1>2. PICK o : o = Script(a, l).store
  OBVIOUS
<1>3. o = l \/ Value(o, "lock") = Nil
  BY <1>2, UnlockLeaves
<1> QED BY <1>1, <1>2, <1>3 DEF RowsThere

LEMMA RowsPushed ==
    ASSUME NEW m, NEW l, Apart(m, l, "buffer"), NEW b, Called("buffer", b), RowsThere(l, b), NEW x \in Nat, clock \in Int
    PROVE  RowsThere(Shown(Pushed(l, x).store), b)
<1> DEFINE o == Shown(Pushed(l, x).store)
<1>1. Value(o, "lock") = Value(l, "lock")
  BY LockStays
<1>2. UsageRows(o) = Append(UsageRows(l), x) /\ UsageRows(l) \in Seq(Nat)
  <2>1. UsageRows(o) = Append(UsageRows(l), x)
    BY ApartPushed
  <2>2. IsStore(l) /\ FitsEmptiable("buffer", Live(l, "buffer"))
    BY DEF Apart
  <2> QED BY <2>1, <2>2, BufferIs
<1>3. Len(UsageRows(o)) = Len(UsageRows(l)) + 1 /\ Len(UsageRows(l)) \in Nat
  BY <1>2, AppendProperties
<1> HIDE DEF o
<1>4. b.name = "ackUsage" => b.acked \in Nat
  BY DEF Called
<1>5. RowsThere(o, b)
  BY <1>1, <1>3, <1>4 DEF RowsThere
<1> QED BY <1>5 DEF o

LEMMA RowsLocked ==
    ASSUME NEW m, NEW l, Apart(m, l, "buffer"), NEW b, Called("buffer", b), RowsThere(l, b), NEW v \in Nat, b.owner < v,
           clock \in Int
    PROVE  RowsThere(Shown(Locked(l, v).store), b)
<1> DEFINE o == Shown(Locked(l, v).store)
<1>1. /\ UsageRows(o) = UsageRows(l)
      /\ Live(o, "lock") = IF Live(l, "lock") # NoEntry THEN Live(l, "lock") ELSE Entry("scalar", v, clock + Life)
  BY ApartLocked
<1> HIDE DEF o
<1>2. Value(o, "lock") = Value(l, "lock") \/ Value(o, "lock") = v
  BY <1>1, EntryIs DEF Value
<1>3. b.owner \in Nat
  BY DEF Called
<1>4. RowsThere(o, b)
  BY <1>1, <1>2, <1>3 DEF RowsThere
<1> QED BY <1>4 DEF o

\* While the owner is at it, the twin's buffer is no longer than the other.
LEMMA BufferNoLonger ==
    ASSUME NEW m, NEW l, clock \in Int,
           Good(m, l) \/ \E n \in Nat : CutShort(m, l, n)
    PROVE  Len(UsageRows(m)) <= Len(UsageRows(l)) /\ Apart(m, l, "buffer")
<1>1. CASE Good(m, l)
  <2>1. Apart(m, l, "buffer") /\ UsageRows(m) = UsageRows(l)
    BY <1>1, GoodIsWhole
  <2>2. UsageRows(l) \in Seq(Nat)
    BY <2>1, BufferIs DEF Apart
  <2>3. Len(UsageRows(l)) \in Nat
    BY <2>2
  <2> QED BY <2>1, <2>3
<1>2. CASE \E n \in Nat : CutShort(m, l, n)
  <2>1. PICK n \in Nat : CutShort(m, l, n)
    BY <1>2
  <2>2. Apart(m, l, "buffer") /\ UsageRows(m) = SubSeq(UsageRows(l), n + 1, Len(UsageRows(l)))
    BY <2>1 DEF CutShort
  <2>3. PICK rows \in Seq(Nat) : rows = UsageRows(l)
    BY <2>2, BufferIs DEF Apart
  <2>4. Len(rows) \in Nat /\ \A i \in (n + 1)..Len(rows) : rows[i] \in Nat
    OBVIOUS
  <2>5. Len(SubSeq(rows, n + 1, Len(rows))) = IF n + 1 <= Len(rows) THEN Len(rows) - (n + 1) + 1 ELSE 0
    BY <2>4, SubSeqProperties
  <2>6. Len(SubSeq(rows, n + 1, Len(rows))) <= Len(rows)
    BY <2>4, <2>5
  <2> QED BY <2>2, <2>3, <2>6
<1> QED BY <1>1, <1>2

LEMMA UnlockApart ==
    ASSUME NEW m, NEW l, NEW a, Called("buffer", a), NEW r, NEW lua, Unlocks(m, l, a, r, lua)
    PROVE  Good(m, l) \/ \E n \in Nat : CutShort(m, l, n)
BY DEF Unlocks, Called

-----------------------------------------------------------------------------
(* The invariant, of any stores, twins and chain.                            *)

Asked(at, a, r, lua) == [at |-> at, call |-> a, r |-> r, lua |-> lua]
Replied(r) == \E k \in Nat : Replies(r, k + 1)
TwinIs(fam, t) ==
    \/ t = NoScript
    \/ \E a, lua : t = Asked("waiting", a, <<>>, lua) /\ Called(fam, a)
    \/ \E a, r, lua : t = Asked("running", a, r, lua) /\ Called(fam, a) /\ Replied(r)
AtHead(chain, c) == chain # <<>> /\ chain[1] = c
NobodyRuns(ts) == \A c \in ScriptCallers : ts[c].at # "running"
RowsReady(l, t, n) == t.at # "idle" => t.call.owner < n /\ RowsThere(l, t.call)

TwinsHold(fam, m, l, ts, chain, n) ==
    /\ fam \in ScriptFamilies /\ n \in Nat /\ chain \in Seq(ScriptCallers)
    /\ ts = [c \in ScriptCallers |-> ts[c]] /\ \A c \in ScriptCallers : TwinIs(fam, ts[c])
    /\ NobodyRuns(ts) => Good(m, l)
    /\ \A c \in ScriptCallers : ts[c].at = "running" =>
         AtHead(chain, c) /\ UnderWay(fam, m, l, ts[c].call, ts[c].r, ts[c].lua)
    /\ fam = "buffer" => \A c \in ScriptCallers : RowsReady(l, ts[c], n)

LEMMA AskedIs ==
    ASSUME NEW at, NEW a, NEW r, NEW lua
    PROVE  LET t == Asked(at, a, r, lua)
           IN  t.at = at /\ t.call = a /\ t.r = r /\ t.lua = lua
BY DEF Asked

LEMMA TwinAt ==
    ASSUME NEW fam, NEW t, TwinIs(fam, t)
    PROVE  /\ t.at \in {"idle", "waiting", "running"}
           /\ t.at = "idle" => t = NoScript
           /\ t.at # "idle" => t = Asked(t.at, t.call, t.r, t.lua) /\ Called(fam, t.call)
           /\ t.at = "waiting" => t.r = <<>>
           /\ t.at = "running" => Replied(t.r)
<1>1. CASE t = NoScript
  <2>1. t.at = "idle"
    BY <1>1 DEF NoScript
  <2> QED BY <1>1, <2>1
<1>2. CASE \E a, lua : t = Asked("waiting", a, <<>>, lua) /\ Called(fam, a)
  <2>1. PICK a, lua : t = Asked("waiting", a, <<>>, lua) /\ Called(fam, a)
    BY <1>2
  <2>2. t.at = "waiting" /\ t.call = a /\ t.r = <<>> /\ t.lua = lua
    BY <2>1, AskedIs
  <2> QED BY <2>1, <2>2
<1>3. CASE \E a, r, lua : t = Asked("running", a, r, lua) /\ Called(fam, a) /\ Replied(r)
  <2>1. PICK a, r, lua : t = Asked("running", a, r, lua) /\ Called(fam, a) /\ Replied(r)
    BY <1>3
  <2>2. t.at = "running" /\ t.call = a /\ t.r = r /\ t.lua = lua
    BY <2>1, AskedIs
  <2> QED BY <2>1, <2>2
<1> QED BY <1>1, <1>2, <1>3 DEF TwinIs

LEMMA WaitingIs ==
    ASSUME NEW fam, NEW a, Called(fam, a), NEW lua
    PROVE  TwinIs(fam, Asked("waiting", a, <<>>, lua))
BY DEF TwinIs

LEMMA RunningIs ==
    ASSUME NEW fam, NEW a, Called(fam, a), NEW r, Replied(r), NEW lua
    PROVE  TwinIs(fam, Asked("running", a, r, lua))
BY DEF TwinIs

LEMMA RepliedIs ==
    /\ \A r : Replied(r) => r # <<>>
    /\ \A x : Replied(Append(<<>>, x))
    /\ \A r, x : Replied(r) => Replied(Append(r, x))
<1>1. ASSUME NEW r, Replied(r) PROVE r # <<>>
  <2>1. PICK k \in Nat : Replies(r, k + 1)
    BY <1>1 DEF Replied
  <2>2. Len(r) # 0
    BY <2>1 DEF Replies
  <2>3. Len(<<>>) = 0
    OBVIOUS
  <2> QED BY <2>2, <2>3
<1>2. ASSUME NEW x PROVE Replied(Append(<<>>, x))
  <2>1. Replies(<<>>, 0)
    BY DEF Replies
  <2>2. PICK k \in Nat : k = 0
    OBVIOUS
  <2>3. Replies(Append(<<>>, x), k + 1)
    BY <2>1, <2>2, ReplyAppended
  <2> QED BY <2>3 DEF Replied
<1>3. ASSUME NEW r, NEW x, Replied(r) PROVE Replied(Append(r, x))
  <2>1. PICK k \in Nat : Replies(r, k + 1)
    BY <1>3 DEF Replied
  <2>2. PICK j \in Nat : j = k + 1
    OBVIOUS
  <2>3. Replies(Append(r, x), j + 1)
    BY <2>1, <2>2, ReplyAppended
  <2> QED BY <2>3 DEF Replied
<1> QED BY <1>1, <1>2, <1>3

\* The twins once one of them has moved on.
LEMMA TwinPut ==
    ASSUME NEW ts, ts = [c \in ScriptCallers |-> ts[c]], NEW c \in ScriptCallers, NEW t
    PROVE  LET us == [ts EXCEPT ![c] = t]
           IN  /\ us = [d \in ScriptCallers |-> us[d]] /\ us[c] = t
               /\ \A d \in ScriptCallers : d # c => us[d] = ts[d]
OBVIOUS

LEMMA BothApart ==
    ASSUME NEW fam, fam = "buffer", NEW m, NEW l, NEW ts, NEW chain, NEW n, TwinsHold(fam, m, l, ts, chain, n),
           clock \in Int
    PROVE  Len(UsageRows(m)) <= Len(UsageRows(l)) /\ Apart(m, l, "buffer")
<1>1. CASE NobodyRuns(ts)
  <2>1. Good(m, l)
    BY <1>1 DEF TwinsHold
  <2> QED BY <2>1, BufferNoLonger
<1>2. CASE ~NobodyRuns(ts)
  <2>1. PICK c \in ScriptCallers : ts[c].at = "running"
    BY <1>2 DEF NobodyRuns
  <2>2. UnderWay(fam, m, l, ts[c].call, ts[c].r, ts[c].lua) /\ TwinIs(fam, ts[c])
    BY <2>1 DEF TwinsHold
  <2>3. Called("buffer", ts[c].call)
    BY <2>1, <2>2, TwinAt
  <2>4. Unlocks(m, l, ts[c].call, ts[c].r, ts[c].lua)
    BY <2>2 DEF UnderWay
  <2>5. Good(m, l) \/ \E k \in Nat : CutShort(m, l, k)
    BY <2>3, <2>4, UnlockApart
  <2> QED BY <2>5, BufferNoLonger
<1> QED BY <1>1, <1>2

LEMMA HoldsJoin ==
    ASSUME NEW fam, NEW m, NEW l, NEW ts, NEW chain, NEW n, TwinsHold(fam, m, l, ts, chain, n), clock \in Int,
           NEW c \in ScriptCallers, ts[c] = NoScript, NEW a, Called(fam, a),
           fam = "buffer" => a.owner < n /\ (a.name = "ackUsage" => a.acked <= Len(UsageRows(m))),
           NEW t, t = Asked("waiting", a, <<>>, Nil)
    PROVE  TwinsHold(fam, m, l, [ts EXCEPT ![c] = t], Append(chain, c), n + 1)
<1> DEFINE us == [ts EXCEPT ![c] = t]
<1>0. /\ fam \in ScriptFamilies /\ n \in Nat /\ chain \in Seq(ScriptCallers)
      /\ ts = [d \in ScriptCallers |-> ts[d]] /\ \A d \in ScriptCallers : TwinIs(fam, ts[d])
  BY DEF TwinsHold
<1>1. us = [d \in ScriptCallers |-> us[d]] /\ us[c] = t /\ \A d \in ScriptCallers : d # c => us[d] = ts[d]
  BY <1>0, TwinPut
<1> HIDE DEF us
<1>2. PICK more \in Seq(ScriptCallers) : more = Append(chain, c)
  BY <1>0, AppendProperties
<1>3. \A d : AtHead(chain, d) => AtHead(more, d)
  <2>1. more # <<>> /\ (chain # <<>> => more[1] = chain[1])
    BY <1>0, <1>2, AppendProperties
  <2> QED BY <2>1 DEF AtHead
<1>4. t.at = "waiting" /\ t.call = a /\ ts[c].at = "idle"
  BY AskedIs DEF NoScript
<1>5. TwinIs(fam, t)
  BY WaitingIs
<1>6. \A d \in ScriptCallers : TwinIs(fam, us[d])
  BY <1>0, <1>1, <1>5
<1>7. NobodyRuns(us) => Good(m, l)
  <2>1. NobodyRuns(us) => NobodyRuns(ts)
    BY <1>1, <1>4 DEF NobodyRuns
  <2> QED BY <2>1 DEF TwinsHold
<1>8. ASSUME NEW d \in ScriptCallers, us[d].at = "running"
      PROVE  AtHead(more, d) /\ UnderWay(fam, m, l, us[d].call, us[d].r, us[d].lua)
  <2>1. d # c /\ us[d] = ts[d]
    BY <1>1, <1>4, <1>8
  <2>2. AtHead(chain, d) /\ UnderWay(fam, m, l, ts[d].call, ts[d].r, ts[d].lua)
    BY <1>8, <2>1 DEF TwinsHold
  <2> QED BY <1>3, <2>1, <2>2
<1>9. ASSUME fam = "buffer", NEW d \in ScriptCallers PROVE RowsReady(l, us[d], n + 1)
  <2>1. CASE d # c
    <3>1. RowsReady(l, ts[d], n)
      BY <1>9 DEF TwinsHold
    <3>2. ts[d].at # "idle" => ts[d].call.owner \in Nat
      BY <1>0, <1>9, TwinAt DEF Called
    <3> QED BY <1>0, <1>1, <2>1, <3>1, <3>2 DEF RowsReady
  <2>2. CASE d = c
    <3>1. a.owner \in Nat /\ (a.name = "ackUsage" => a.acked \in Nat)
      BY <1>9 DEF Called
    <3>2. Len(UsageRows(m)) <= Len(UsageRows(l)) /\ Apart(m, l, "buffer")
      BY <1>9, BothApart
    <3>3. UsageRows(m) \in Seq(Nat) /\ UsageRows(l) \in Seq(Nat)
      BY <3>2, BufferIs DEF Apart
    <3>4. Len(UsageRows(m)) \in Nat /\ Len(UsageRows(l)) \in Nat
      BY <3>3
    <3>5. RowsThere(l, a)
      BY <1>9, <3>1, <3>2, <3>4 DEF RowsThere
    <3>6. a.owner < n + 1
      BY <1>0, <1>9, <3>1
    <3> QED BY <1>1, <1>4, <2>2, <3>5, <3>6 DEF RowsReady
  <2> QED BY <2>1, <2>2
<1>10. n + 1 \in Nat
  BY <1>0
<1>11. TwinsHold(fam, m, l, us, more, n + 1)
  BY <1>0, <1>1, <1>6, <1>7, <1>8, <1>9, <1>10 DEF TwinsHold
<1> QED BY <1>2, <1>11 DEF us

\* Only the head of the chain is at work.
LEMMA HeadAlone ==
    ASSUME NEW fam, NEW m, NEW l, NEW ts, NEW chain, NEW n, TwinsHold(fam, m, l, ts, chain, n),
           NEW c \in ScriptCallers, AtHead(chain, c)
    PROVE  /\ \A d \in ScriptCallers : d # c => ts[d].at # "running"
           /\ ts[c].at # "running" => Good(m, l)
<1>1. ASSUME NEW d \in ScriptCallers, d # c PROVE ts[d].at # "running"
  <2>1. ts[d].at = "running" => AtHead(chain, d)
    BY DEF TwinsHold
  <2> QED BY <1>1, <2>1 DEF AtHead
<1>2. ts[c].at # "running" => NobodyRuns(ts)
  BY <1>1 DEF NobodyRuns
<1> QED BY <1>1, <1>2 DEF TwinsHold

LEMMA HoldsStep ==
    ASSUME NEW fam, NEW m, NEW l, NEW ts, NEW chain, NEW n, TwinsHold(fam, m, l, ts, chain, n), clock \in Int,
           NEW c \in ScriptCallers, ts[c].at # "idle", AtHead(chain, c),
           NEW a, a = ts[c].call, NEW r, r = ts[c].r, NEW was, was = ts[c].lua, Twin(a, r).next = "command",
           NEW done, done = TwinCommand(m, Twin(a, r).is), NEW q, q = Append(r, done.answer),
           NEW o, o = (IF Settles(a, q) THEN Script(a, l).store ELSE l),
           NEW lua, lua = (IF Settles(a, q) THEN Script(a, l).answer ELSE was),
           NEW t, t = Asked("running", a, q, lua)
    PROVE  TwinsHold(fam, done.store, o, [ts EXCEPT ![c] = t], chain, n)
<1> DEFINE us == [ts EXCEPT ![c] = t]
<1>0. /\ fam \in ScriptFamilies /\ n \in Nat /\ chain \in Seq(ScriptCallers)
      /\ ts = [d \in ScriptCallers |-> ts[d]] /\ \A d \in ScriptCallers : TwinIs(fam, ts[d])
  BY DEF TwinsHold
<1>1. us = [d \in ScriptCallers |-> us[d]] /\ us[c] = t /\ \A d \in ScriptCallers : d # c => us[d] = ts[d]
  BY <1>0, TwinPut
<1> HIDE DEF us
<1>2. Called(fam, a) /\ (ts[c].at = "waiting" => r = <<>>) /\ (ts[c].at = "running" => Replied(r))
      /\ ts[c].at \in {"waiting", "running"}
  BY <1>0, TwinAt
<1>3. Stepped(fam, a, r, m, l, was)
  <2>1. CASE ts[c].at = "waiting"
    <3>1. Good(m, l)
      BY <2>1, HeadAlone
    <3> QED BY <1>0, <1>2, <2>1, <3>1, TwinBegins
  <2>2. CASE ts[c].at = "running"
    <3>1. UnderWay(fam, m, l, a, r, was)
      BY <2>2 DEF TwinsHold
    <3> QED BY <1>0, <1>2, <3>1, TwinSteps
  <2> QED BY <1>2, <2>1, <2>2
<1>4. UnderWay(fam, done.store, o, a, q, lua)
  BY <1>3 DEF Stepped
<1>5. Replied(q)
  <2>1. CASE ts[c].at = "waiting"
    BY <1>2, <2>1, RepliedIs
  <2>2. CASE ts[c].at = "running"
    BY <1>2, <2>2, RepliedIs
  <2> QED BY <1>2, <2>1, <2>2
<1>6. TwinIs(fam, t)
  BY <1>2, <1>5, RunningIs
<1>7. t.at = "running" /\ t.call = a /\ t.r = q /\ t.lua = lua
  BY DEF Asked
<1>8. \A d \in ScriptCallers : TwinIs(fam, us[d])
  BY <1>0, <1>1, <1>6
<1>9. ~NobodyRuns(us)
  BY <1>1, <1>7 DEF NobodyRuns
<1>10. ASSUME NEW d \in ScriptCallers, us[d].at = "running"
       PROVE  AtHead(chain, d) /\ UnderWay(fam, done.store, o, us[d].call, us[d].r, us[d].lua)
  <2>1. d = c
    BY <1>1, <1>10, HeadAlone
  <2> QED BY <1>1, <1>4, <1>7, <2>1
<1>11. ASSUME fam = "buffer", NEW d \in ScriptCallers PROVE RowsReady(o, us[d], n)
  <2>1. Apart(m, l, "buffer")
    BY <1>11, BothApart
  <2>2. IsStore(l)
    BY <2>1 DEF Apart
  <2>3. us[d].at # "idle" => ts[d].at # "idle" /\ us[d].call = ts[d].call
    BY <1>1, <1>7
  <2>4. SUFFICES ASSUME us[d].at # "idle" PROVE us[d].call.owner < n /\ RowsThere(o, us[d].call)
    BY DEF RowsReady
  <2>5. PICK b : b = us[d].call
    OBVIOUS
  <2>6. Called("buffer", b)
    BY <1>0, <1>11, <2>3, <2>4, <2>5, TwinAt
  <2>7. b.owner < n /\ RowsThere(l, b)
    BY <1>11, <2>3, <2>4, <2>5 DEF TwinsHold, RowsReady
  <2>8. RowsThere(Script(a, l).store, b)
    BY <1>2, <1>11, <2>2, <2>6, <2>7, RowsStay
  <2> QED BY <2>5, <2>7, <2>8
<1>12. TwinsHold(fam, done.store, o, us, chain, n)
  BY <1>0, <1>1, <1>8, <1>9, <1>10, <1>11 DEF TwinsHold
<1> QED BY <1>12 DEF us

\* What a script's end is held against.
AnswerOf(a, r, was, l, x, o) ==
    \/ r = <<>> /\ x = Script(a, l).answer /\ o = Script(a, l).store
    \/ r # <<>> /\ x = was /\ o = l

LEMMA HoldsReturn ==
    ASSUME NEW fam, NEW m, NEW l, NEW ts, NEW chain, NEW n, TwinsHold(fam, m, l, ts, chain, n), clock \in Int,
           NEW c \in ScriptCallers, ts[c].at # "idle", AtHead(chain, c),
           NEW a, a = ts[c].call, NEW r, NEW was, NEW x, NEW o, AnswerOf(a, r, was, l, x, o), Good(m, o),
           NEW left, left \in Seq(ScriptCallers)
    PROVE  TwinsHold(fam, m, o, [ts EXCEPT ![c] = NoScript], left, n)
<1> DEFINE us == [ts EXCEPT ![c] = NoScript]
<1>0. /\ fam \in ScriptFamilies /\ n \in Nat /\ chain \in Seq(ScriptCallers)
      /\ ts = [d \in ScriptCallers |-> ts[d]] /\ \A d \in ScriptCallers : TwinIs(fam, ts[d])
  BY DEF TwinsHold
<1>1. us = [d \in ScriptCallers |-> us[d]] /\ us[c] = NoScript /\ \A d \in ScriptCallers : d # c => us[d] = ts[d]
  BY <1>0, TwinPut
<1> HIDE DEF us
<1>2. Called(fam, a)
  BY <1>0, TwinAt
<1>4. NoScript.at = "idle"
  BY DEF NoScript
<1>5. \A d \in ScriptCallers : TwinIs(fam, us[d])
  BY <1>0, <1>1 DEF TwinIs
<1>6. \A d \in ScriptCallers : us[d].at # "running"
  BY <1>1, <1>4, HeadAlone
<1>7. ASSUME fam = "buffer", NEW d \in ScriptCallers PROVE RowsReady(o, us[d], n)
  <2>1. Apart(m, l, "buffer")
    BY <1>7, BothApart
  <2>2. IsStore(l)
    BY <2>1 DEF Apart
  <2>3. us[d].at # "idle" => ts[d].at # "idle" /\ us[d].call = ts[d].call
    BY <1>1, <1>4
  <2>4. SUFFICES ASSUME us[d].at # "idle" PROVE us[d].call.owner < n /\ RowsThere(o, us[d].call)
    BY DEF RowsReady
  <2>5. PICK b : b = us[d].call
    OBVIOUS
  <2>6. Called("buffer", b)
    BY <1>0, <1>7, <2>3, <2>4, <2>5, TwinAt
  <2>7. b.owner < n /\ RowsThere(l, b)
    BY <1>7, <2>3, <2>4, <2>5 DEF TwinsHold, RowsReady
  <2>8. RowsThere(Script(a, l).store, b)
    BY <1>2, <1>7, <2>2, <2>6, <2>7, RowsStay
  <2>9. o = l \/ o = Script(a, l).store
    BY DEF AnswerOf
  <2> QED BY <2>5, <2>7, <2>8, <2>9
<1>8. TwinsHold(fam, m, o, us, left, n)
  BY <1>0, <1>1, <1>5, <1>6, <1>7 DEF TwinsHold, NobodyRuns
<1> QED BY <1>8 DEF us

\* A single command, while nobody is at work or somebody is.
LEMMA HoldsPut ==
    ASSUME NEW fam, NEW m, NEW l, NEW ts, NEW chain, NEW n, TwinsHold(fam, m, l, ts, chain, n),
           NEW p, NEW o, NobodyRuns(ts) => Good(p, o),
           \A c \in ScriptCallers : ts[c].at = "running" => UnderWay(fam, p, o, ts[c].call, ts[c].r, ts[c].lua),
           fam = "buffer" => \A c \in ScriptCallers : ts[c].at # "idle" => RowsThere(o, ts[c].call)
    PROVE  TwinsHold(fam, p, o, ts, chain, n + 1)
<1>0. /\ fam \in ScriptFamilies /\ n \in Nat /\ chain \in Seq(ScriptCallers)
      /\ ts = [d \in ScriptCallers |-> ts[d]] /\ \A d \in ScriptCallers : TwinIs(fam, ts[d])
      /\ \A c \in ScriptCallers : ts[c].at = "running" => AtHead(chain, c)
  BY DEF TwinsHold
<1>1. ASSUME fam = "buffer", NEW d \in ScriptCallers PROVE RowsReady(o, ts[d], n + 1)
  <2>1. RowsReady(l, ts[d], n)
    BY <1>1 DEF TwinsHold
  <2>2. ts[d].at # "idle" => ts[d].call.owner \in Nat
    BY <1>0, <1>1, TwinAt DEF Called
  <2>3. ts[d].at # "idle" => ts[d].call.owner < n + 1
    BY <1>0, <2>1, <2>2 DEF RowsReady
  <2> QED BY <1>1, <2>3 DEF RowsReady
<1>2. n + 1 \in Nat
  BY <1>0
<1> QED BY <1>0, <1>1, <1>2 DEF TwinsHold

LEMMA HoldsPushed ==
    ASSUME NEW m, NEW l, NEW ts, NEW chain, NEW n, TwinsHold("buffer", m, l, ts, chain, n), clock \in Int
    PROVE  TwinsHold("buffer", Pushed(m, n).store, Shown(Pushed(l, n).store), ts, chain, n + 1)
<1>0. n \in Nat /\ \A d \in ScriptCallers : TwinIs("buffer", ts[d])
  BY DEF TwinsHold
<1>1. NobodyRuns(ts) => Good(Pushed(m, n).store, Shown(Pushed(l, n).store))
  BY <1>0, GoodPushed DEF TwinsHold
<1>2. ASSUME NEW c \in ScriptCallers, ts[c].at = "running"
      PROVE  UnderWay("buffer", Pushed(m, n).store, Shown(Pushed(l, n).store), ts[c].call, ts[c].r, ts[c].lua)
  <2>1. Called("buffer", ts[c].call)
    BY <1>0, <1>2, TwinAt
  <2>2. UnderWay("buffer", m, l, ts[c].call, ts[c].r, ts[c].lua) /\ RowsReady(l, ts[c], n)
    BY <1>2 DEF TwinsHold
  <2>3. Unlocks(m, l, ts[c].call, ts[c].r, ts[c].lua)
    BY <2>2 DEF UnderWay
  <2>4. ts[c].call.name = "ackUsage" /\ Value(l, "lock") = ts[c].call.owner => ts[c].call.acked <= Len(UsageRows(l))
    BY <1>2, <2>2 DEF RowsReady, RowsThere
  <2>5. Unlocks(Pushed(m, n).store, Shown(Pushed(l, n).store), ts[c].call, ts[c].r, ts[c].lua)
    BY <1>0, <2>1, <2>3, <2>4, UnlocksPushed
  <2> QED BY <2>5 DEF UnderWay
<1>3. ASSUME NEW c \in ScriptCallers, ts[c].at # "idle" PROVE RowsThere(Shown(Pushed(l, n).store), ts[c].call)
  <2>1. Called("buffer", ts[c].call)
    BY <1>0, <1>3, TwinAt
  <2>2. RowsThere(l, ts[c].call)
    BY <1>3 DEF TwinsHold, RowsReady
  <2>3. Apart(m, l, "buffer")
    BY BothApart
  <2> QED BY <1>0, <2>1, <2>2, <2>3, RowsPushed
<1> QED BY <1>1, <1>2, <1>3, HoldsPut

LEMMA HoldsLocked ==
    ASSUME NEW m, NEW l, NEW ts, NEW chain, NEW n, TwinsHold("buffer", m, l, ts, chain, n), clock \in Int
    PROVE  /\ TwinsHold("buffer", Locked(m, n).store, Shown(Locked(l, n).store), ts, chain, n + 1)
           /\ Locked(m, n).answer = Locked(l, n).answer
<1>0. n \in Nat /\ \A d \in ScriptCallers : TwinIs("buffer", ts[d])
  BY DEF TwinsHold
<1>1. Apart(m, l, "buffer")
  BY BothApart
<1>2. NobodyRuns(ts) => Good(Locked(m, n).store, Shown(Locked(l, n).store))
  BY <1>0, GoodLocked DEF TwinsHold
<1>3. ASSUME NEW c \in ScriptCallers, ts[c].at = "running"
      PROVE  UnderWay("buffer", Locked(m, n).store, Shown(Locked(l, n).store), ts[c].call, ts[c].r, ts[c].lua)
  <2>1. Called("buffer", ts[c].call)
    BY <1>0, <1>3, TwinAt
  <2>2. UnderWay("buffer", m, l, ts[c].call, ts[c].r, ts[c].lua)
    BY <1>3 DEF TwinsHold
  <2>3. Unlocks(m, l, ts[c].call, ts[c].r, ts[c].lua)
    BY <2>2 DEF UnderWay
  <2>4. Unlocks(Locked(m, n).store, Shown(Locked(l, n).store), ts[c].call, ts[c].r, ts[c].lua)
    BY <1>0, <2>1, <2>3, UnlocksLocked
  <2> QED BY <2>4 DEF UnderWay
<1>4. ASSUME NEW c \in ScriptCallers, ts[c].at # "idle" PROVE RowsThere(Shown(Locked(l, n).store), ts[c].call)
  <2>1. Called("buffer", ts[c].call)
    BY <1>0, <1>4, TwinAt
  <2>2. RowsThere(l, ts[c].call) /\ ts[c].call.owner < n
    BY <1>4 DEF TwinsHold, RowsReady
  <2> QED BY <1>0, <1>1, <2>1, <2>2, RowsLocked
<1>5. Locked(m, n).answer = Locked(l, n).answer
  BY <1>1, ApartLocked
<1> QED BY <1>2, <1>3, <1>4, <1>5, HoldsPut

LEMMA HoldsLeft ==
    ASSUME NEW m, NEW l, NEW ts, NEW chain, NEW n, TwinsHold("inflight", m, l, ts, chain, n), clock \in Int,
           NEW y, y \in DOMAIN Hash(m, "inflight"),
           \A c \in ScriptCallers : ts[c].at = "running" => ts[c].call.member # y
    PROVE  /\ TwinsHold("inflight", Left(m, "inflight", y).store, Shown(Left(l, "inflight", y).store), ts, chain, n + 1)
           /\ Left(m, "inflight", y).answer = Left(l, "inflight", y).answer
<1>0. "inflight" \in ZSets
  BY DEF ZSets
<1>1. NobodyRuns(ts) => /\ Good(Left(m, "inflight", y).store, Shown(Left(l, "inflight", y).store))
                  /\ Left(m, "inflight", y).answer = Left(l, "inflight", y).answer
  BY <1>0, GoodLeft DEF TwinsHold
<1>2. ASSUME NEW c \in ScriptCallers, ts[c].at = "running"
      PROVE  /\ UnderWay("inflight", Left(m, "inflight", y).store, Shown(Left(l, "inflight", y).store),
                         ts[c].call, ts[c].r, ts[c].lua)
             /\ Left(m, "inflight", y).answer = Left(l, "inflight", y).answer
  <2>1. UnderWay("inflight", m, l, ts[c].call, ts[c].r, ts[c].lua)
    BY <1>2 DEF TwinsHold
  <2>2. Admits(m, l, ts[c].call, ts[c].r, ts[c].lua)
    BY <2>1 DEF UnderWay
  <2>3. /\ Left(m, "inflight", y).answer = Left(l, "inflight", y).answer
        /\ Admits(Left(m, "inflight", y).store, Shown(Left(l, "inflight", y).store), ts[c].call, ts[c].r, ts[c].lua)
    BY <1>2, <2>2, AdmissionLeaves
  <2> QED BY <2>3 DEF UnderWay
<1>3. Left(m, "inflight", y).answer = Left(l, "inflight", y).answer
  BY <1>1, <1>2 DEF NobodyRuns
<1>4. TwinsHold("inflight", Left(m, "inflight", y).store, Shown(Left(l, "inflight", y).store), ts, chain, n + 1)
  BY <1>1, <1>2, HoldsPut
<1> QED BY <1>3, <1>4

-----------------------------------------------------------------------------
(* The clock stands still, or ticks.                                         *)

LEMMA HoldsStill ==
    ASSUME NEW fam, NEW m, NEW l, NEW ts, NEW chain, NEW n, TwinsHold(fam, m, l, ts, chain, n), clock' = clock
    PROVE  TwinsHold(fam, m, l, ts, chain, n)'
<1>1. Good(m, l)' = Good(m, l)
  BY GoodStill
<1>2. \A c \in ScriptCallers : UnderWay(fam, m, l, ts[c].call, ts[c].r, ts[c].lua)' =
                               UnderWay(fam, m, l, ts[c].call, ts[c].r, ts[c].lua)
  BY UnderWayStill
<1>3. \A a : RowsThere(l, a)' = RowsThere(l, a)
  <2>1. Value(l, "lock")' = Value(l, "lock") /\ UsageRows(l)' = UsageRows(l)
    BY HeldStill, UnlocksStill
  <2> QED BY <2>1, Zenon DEF RowsThere
<1>4. \A c : RowsReady(l, ts[c], n)' = RowsReady(l, ts[c], n)
  BY <1>3, Zenon DEF RowsReady
<1> QED BY <1>1, <1>2, <1>4, Zenon DEF TwinsHold

\* An entry at a time.
Aged(e, t) == IF e.date # Forever /\ e.date <= t THEN NoEntry ELSE e

LEMMA LiveAges ==
    ASSUME NEW s, IsStore(s), NEW k \in StoreKeys, clock \in Nat, clock' = clock + 1
    PROVE  Live(s, k)' = Aged(Live(s, k), clock + 1)
<1>1. Live(s, k) = Aged(s[k], clock) /\ Live(s, k)' = Aged(s[k], clock + 1)
  BY DEF Live, Aged
<1>2. s[k].date \in Int
  BY DEF IsStore, IsEntry
<1>3. Aged(NoEntry, clock + 1) = NoEntry
  BY NoEntryIs DEF Aged
<1>4. CASE s[k].date # Forever /\ s[k].date <= clock
  <2>1. Aged(s[k], clock) = NoEntry
    BY <1>4 DEF Aged
  <2>2. s[k].date <= clock + 1
    BY <1>2, <1>4
  <2>3. Aged(s[k], clock + 1) = NoEntry
    BY <1>4, <2>2 DEF Aged
  <2> QED BY <1>1, <1>3, <2>1, <2>3
<1>5. CASE ~(s[k].date # Forever /\ s[k].date <= clock)
  <2>1. Aged(s[k], clock) = s[k]
    BY <1>5 DEF Aged
  <2> QED BY <1>1, <2>1
<1> QED BY <1>4, <1>5

LEMMA AgedIs ==
    ASSUME NEW e, NEW t
    PROVE  Aged(e, t) \in {e, NoEntry} /\ (e.date = Forever => Aged(e, t) = e) /\ Aged(NoEntry, t) = NoEntry
BY NoEntryIs DEF Aged

LEMMA AlikeAges ==
    ASSUME NEW k, NEW d, NEW e, Alike(k, d, e), NEW t
    PROVE  Alike(k, Aged(d, t), Aged(e, t))
<1>0. Aged(d, t) \in {d, NoEntry} /\ Aged(e, t) \in {e, NoEntry}
  BY AgedIs
<1>1. CASE k \notin Emptiable
  <2>1. d = e /\ Fits(k, e)
    BY <1>1 DEF Alike
  <2>2. Fits(k, NoEntry)
    BY DEF Fits
  <2> QED BY <1>0, <1>1, <2>1, <2>2 DEF Alike
<1>2. CASE k \in Emptiable
  <2>1. Visible(d) = Visible(e) /\ FitsEmptiable(k, d) /\ FitsEmptiable(k, e)
    BY <1>2 DEF Alike
  <2>2. FitsEmptiable(k, Aged(d, t)) /\ FitsEmptiable(k, Aged(e, t))
    BY <1>0, <2>1 DEF FitsEmptiable
  <2>3. Visible(NoEntry) = NoEntry
    BY DEF Visible
  <2>4. Visible(Aged(d, t)) = Visible(Aged(e, t))
    <3>1. CASE Visible(d) = NoEntry
      BY <1>0, <2>1, <2>3, <3>1
    <3>2. CASE Visible(d) # NoEntry
      <4>1. d = e
        BY <2>1, <3>2 DEF Visible
      <4> QED BY <4>1
    <3> QED BY <3>1, <3>2
  <2> QED BY <1>2, <2>2, <2>4 DEF Alike
<1> QED BY <1>1, <1>2

LEMMA GoodAges ==
    ASSUME NEW m, NEW l, Good(m, l), clock \in Nat, clock' = clock + 1
    PROVE  Good(m, l)'
<1>1. IsStore(m) /\ IsStore(l)
  BY DEF Good
<1>2. ASSUME NEW k \in StoreKeys PROVE Alike(k, Live(m, k)', Live(l, k)')
  <2>1. Alike(k, Live(m, k), Live(l, k))
    BY DEF Good, AlikeBut
  <2>2. Live(m, k)' = Aged(Live(m, k), clock + 1) /\ Live(l, k)' = Aged(Live(l, k), clock + 1)
    BY <1>1, LiveAges
  <2>3. Alike(k, Aged(Live(m, k), clock + 1), Aged(Live(l, k), clock + 1))
    BY <2>1, AlikeAges
  <2> QED BY <2>2, <2>3
<1>3. \A k \in StoreKeys \ {} : Alike(k, Live(m, k)', Live(l, k)')
  BY <1>2
<1>4. AlikeBut(m, l, {})'
  BY <1>3, Zenon DEF AlikeBut
<1> QED BY <1>1, <1>4, Zenon DEF Good

LEMMA RowsAge ==
    ASSUME NEW m, NEW l, Good(m, l), clock \in Nat, clock' = clock + 1, NEW b, Called("buffer", b), RowsThere(l, b)
    PROVE  RowsThere(l, b)'
<1>1. IsStore(l) /\ "lock" \in StoreKeys /\ "buffer" \in StoreKeys /\ clock \in Int
  BY BufferKey DEF Good
<1>2. FitsEmptiable("buffer", Live(l, "buffer"))
  BY BufferKey DEF Good, AlikeBut, Alike
<1>3. Live(l, "buffer").date = Forever
  BY <1>1, <1>2, BufferIs
<1>4. Live(l, "buffer")' = Live(l, "buffer")
  BY <1>1, <1>3, LiveAges, AgedIs
<1>5. UsageRows(l)' = UsageRows(l)
  BY <1>4, Zenon DEF UsageRows, Held
<1>6. Live(l, "lock")' \in {Live(l, "lock"), NoEntry}
  BY <1>1, LiveAges, AgedIs
<1>7. Value(l, "lock")' \in {Value(l, "lock"), Nil}
  BY <1>6, NoEntryIs DEF Value
<1>8. Nil \notin Nat /\ b.owner \in Nat
  BY TwinsAssumption DEF Called
<1>9. Value(l, "lock")' = b.owner => Value(l, "lock") = b.owner
  BY <1>7, <1>8
<1> QED BY <1>5, <1>9, Zenon DEF RowsThere

LEMMA HoldsTick ==
    ASSUME NEW fam, NEW m, NEW l, NEW ts, NEW chain, NEW n, TwinsHold(fam, m, l, ts, chain, n),
           clock \in Nat, clock' = clock + 1, NobodyRuns(ts)
    PROVE  TwinsHold(fam, m, l, ts, chain, n)'
<1>1. Good(m, l)
  BY DEF TwinsHold
<1>2. Good(m, l)'
  BY <1>1, GoodAges
<1>3. \A c \in ScriptCallers : ts[c].at # "running"
  BY DEF NobodyRuns
<1>4. ASSUME fam = "buffer", NEW c \in ScriptCallers PROVE RowsReady(l, ts[c], n)'
  <2>1. RowsReady(l, ts[c], n) /\ TwinIs(fam, ts[c])
    BY <1>4 DEF TwinsHold
  <2>2. CASE ts[c].at = "idle"
    BY <2>2 DEF RowsReady
  <2>3. CASE ts[c].at # "idle"
    <3>1. Called("buffer", ts[c].call)
      BY <1>4, <2>1, <2>3, TwinAt
    <3>2. ts[c].call.owner < n /\ RowsThere(l, ts[c].call)
      BY <2>1, <2>3 DEF RowsReady
    <3>3. RowsThere(l, ts[c].call)'
      BY <1>1, <3>1, <3>2, RowsAge
    <3> QED BY <3>2, <3>3 DEF RowsReady
  <2> QED BY <2>2, <2>3
<1>5. /\ fam \in ScriptFamilies /\ n \in Nat /\ chain \in Seq(ScriptCallers)
      /\ ts = [c \in ScriptCallers |-> ts[c]] /\ \A c \in ScriptCallers : TwinIs(fam, ts[c])
  BY DEF TwinsHold
<1> QED BY <1>2, <1>3, <1>4, <1>5, Zenon DEF TwinsHold

LEMMA AskingIs ==
    ASSUME NEW name, NEW args
    PROVE  /\ Asking(name, args).name = name
           /\ \A f \in DOMAIN args : f # "name" => Asking(name, args)[f] = args[f]
<1>1. DOMAIN [name |-> name] = {"name"} /\ [name |-> name]["name"] = name
  OBVIOUS
<1>2. Asking(name, args) = [x \in {"name"} \cup DOMAIN args |->
                              IF x \in {"name"} THEN [name |-> name][x] ELSE args[x]]
  BY <1>1 DEF Asking, Merged
<1> QED BY <1>1, <1>2

\* The calls a family's scripts get.
LEMMA CallsAre ==
    ASSUME clock \in Nat, begun \in Nat, family \in ScriptFamilies, NEW a \in ScriptCalls
    PROVE  /\ Called(family, a)
           /\ family = "buffer" => a.owner < begun /\ (a.name = "ackUsage" => a.acked <= Len(UsageRows(memory)))
<1>1. CASE family = "bucket"
  <2>1. PICK n \in {0, 2}, f \in {0, 1}, c \in {1, 2} :
               a = Asking("tokenBucket", [capacity |-> n, refill |-> f, cost |-> c, now |-> clock])
    BY <1>1 DEF ScriptCalls
  <2>2. /\ a.name = "tokenBucket" /\ a.capacity = n /\ a.refill = f /\ a.cost = c /\ a.now = clock
    <3> DEFINE args == [capacity |-> n, refill |-> f, cost |-> c, now |-> clock]
    <3>1. {"capacity", "refill", "cost", "now"} = DOMAIN args
      OBVIOUS
    <3>2. /\ args["capacity"] = n /\ args["refill"] = f /\ args["cost"] = c /\ args["now"] = clock
      OBVIOUS
    <3> HIDE DEF args
    <3>3. a = Asking("tokenBucket", args)
      BY <2>1 DEF args
    <3> QED BY <3>1, <3>2, <3>3, AskingIs
  <2> QED BY <1>1, <2>2 DEF Called
<1>2. CASE family = "window"
  <2>1. PICK n \in {0, 2}, c \in {1, 2, 3} : a = Asking("fixedWindow", [limit |-> n, cost |-> c])
    BY <1>2 DEF ScriptCalls
  <2>2. a.name = "fixedWindow" /\ a.limit = n /\ a.cost = c
    <3> DEFINE args == [limit |-> n, cost |-> c]
    <3>1. {"limit", "cost"} = DOMAIN args /\ args["limit"] = n /\ args["cost"] = c
      OBVIOUS
    <3> HIDE DEF args
    <3>3. a = Asking("fixedWindow", args)
      BY <2>1 DEF args
    <3> QED BY <3>1, <3>3, AskingIs
  <2> QED BY <1>2, <2>2 DEF Called
<1>3. CASE family = "successes"
  <2>1. PICK n \in {0, 1, 2} : a = Asking("slidingSuccess", [limit |-> n, now |-> clock, member |-> begun])
    BY <1>3 DEF ScriptCalls
  <2>2. a.name = "slidingSuccess"
    BY <2>1, AskingIs
  <2> QED BY <1>3, <2>2 DEF Called
<1>4. CASE family = "pool"
  <2>1. PICK n \in {0, 1, 2} : a = Asking("nextKey", [size |-> n])
    BY <1>4 DEF ScriptCalls
  <2>2. a.name = "nextKey" /\ a.size = n
    <3> DEFINE args == [size |-> n]
    <3>1. {"size"} = DOMAIN args /\ args["size"] = n
      OBVIOUS
    <3> HIDE DEF args
    <3>3. a = Asking("nextKey", args)
      BY <2>1 DEF args
    <3> QED BY <3>1, <3>3, AskingIs
  <2> QED BY <1>4, <2>2 DEF Called
<1>5. CASE family = "health"
  <2>1. PICK ok \in BOOLEAN : a = Asking("health", [ok |-> ok, threshold |-> 2, now |-> clock])
    BY <1>5 DEF ScriptCalls
  <2>2. a.name = "health" /\ a.ok = ok
    <3> DEFINE args == [ok |-> ok, threshold |-> 2, now |-> clock]
    <3>1. "ok" \in DOMAIN args /\ args["ok"] = ok
      OBVIOUS
    <3> HIDE DEF args
    <3>3. a = Asking("health", args)
      BY <2>1 DEF args
    <3> QED BY <3>1, <3>3, AskingIs
  <2> QED BY <1>5, <2>2 DEF Called
<1>6. CASE family = "inflight"
  <2>1. PICK n \in {1, 2} : a = Asking("concurrency", [limit |-> n, now |-> clock, member |-> begun])
    BY <1>6 DEF ScriptCalls
  <2>2. a.name = "concurrency" /\ a.limit = n /\ a.now = clock
    <3> DEFINE args == [limit |-> n, now |-> clock, member |-> begun]
    <3>1. {"limit", "now", "member"} = DOMAIN args /\ args["limit"] = n /\ args["now"] = clock
      OBVIOUS
    <3> HIDE DEF args
    <3>3. a = Asking("concurrency", args)
      BY <2>1 DEF args
    <3> QED BY <3>1, <3>3, AskingIs
  <2> QED BY <1>6, <2>2 DEF Called
<1>7. CASE family = "buffer"
  <2>1. CASE \E n \in 0..(begun - 1) : a = Asking("releaseLock", [owner |-> n])
    <3>1. PICK n \in 0..(begun - 1) : a = Asking("releaseLock", [owner |-> n])
      BY <2>1
    <3>2. a.name = "releaseLock" /\ a.owner = n
      <4> DEFINE args == [owner |-> n]
      <4>1. {"owner"} = DOMAIN args /\ args["owner"] = n
        OBVIOUS
      <4> HIDE DEF args
      <4>3. a = Asking("releaseLock", args)
        BY <3>1 DEF args
      <4> QED BY <4>1, <4>3, AskingIs
    <3>3. n \in Nat /\ n < begun
      OBVIOUS
    <3> QED BY <1>7, <3>2, <3>3 DEF Called
  <2>2. CASE \E n \in 0..(begun - 1), k \in 1..Len(Held(memory, "buffer", <<>>)) :
               a = Asking("ackUsage", [owner |-> n, acked |-> k])
    <3>1. PICK n \in 0..(begun - 1), k \in 1..Len(Held(memory, "buffer", <<>>)) :
                 a = Asking("ackUsage", [owner |-> n, acked |-> k])
      BY <2>2
    <3>2. a.name = "ackUsage" /\ a.owner = n /\ a.acked = k
      <4> DEFINE args == [owner |-> n, acked |-> k]
      <4>1. {"owner", "acked"} = DOMAIN args /\ args["owner"] = n /\ args["acked"] = k
        OBVIOUS
      <4> HIDE DEF args
      <4>3. a = Asking("ackUsage", args)
        BY <3>1 DEF args
      <4> QED BY <4>1, <4>3, AskingIs
    <3>3. n \in Nat /\ n < begun
      OBVIOUS
    <3>4. k \in Nat /\ k <= Len(UsageRows(memory))
      BY DEF UsageRows
    <3> QED BY <1>7, <3>2, <3>3, <3>4 DEF Called
  <2> QED BY <1>7, <2>1, <2>2 DEF ScriptCalls
<1>8. CASE family = "ledger"
  <2>1. CASE \E n \in {1, 3}, u \in BOOLEAN, c \in BOOLEAN :
               a = Asking("reserve", [amount |-> n, unlimited |-> u, capped |-> c])
    <3>1. PICK n \in {1, 3}, u \in BOOLEAN, c \in BOOLEAN :
                 a = Asking("reserve", [amount |-> n, unlimited |-> u, capped |-> c])
      BY <2>1
    <3>2. a.name = "reserve" /\ a.amount = n /\ a.unlimited = u /\ a.capped = c
      <4> DEFINE args == [amount |-> n, unlimited |-> u, capped |-> c]
      <4>1. {"amount", "unlimited", "capped"} = DOMAIN args /\ args["amount"] = n /\ args["unlimited"] = u
            /\ args["capped"] = c
        OBVIOUS
      <4> HIDE DEF args
      <4>3. a = Asking("reserve", args)
        BY <3>1 DEF args
      <4> QED BY <4>1, <4>3, AskingIs
    <3> QED BY <1>8, <3>2 DEF Called
  <2>2. CASE \E n \in {0, 1, 4}, c \in BOOLEAN : a = Asking("settle", [final |-> n, capped |-> c])
    <3>1. PICK n \in {0, 1, 4}, c \in BOOLEAN : a = Asking("settle", [final |-> n, capped |-> c])
      BY <2>2
    <3>2. a.name = "settle" /\ a.final = n /\ a.capped = c
      <4> DEFINE args == [final |-> n, capped |-> c]
      <4>1. {"final", "capped"} = DOMAIN args /\ args["final"] = n /\ args["capped"] = c
        OBVIOUS
      <4> HIDE DEF args
      <4>3. a = Asking("settle", args)
        BY <3>1 DEF args
      <4> QED BY <4>1, <4>3, AskingIs
    <3> QED BY <1>8, <3>2 DEF Called
  <2>3. CASE \E c \in BOOLEAN : a = Asking("release", [capped |-> c])
    <3>1. PICK c \in BOOLEAN : a = Asking("release", [capped |-> c])
      BY <2>3
    <3>2. a.name = "release" /\ a.capped = c
      <4> DEFINE args == [capped |-> c]
      <4>1. {"capped"} = DOMAIN args /\ args["capped"] = c
        OBVIOUS
      <4> HIDE DEF args
      <4>3. a = Asking("release", args)
        BY <3>1 DEF args
      <4> QED BY <4>1, <4>3, AskingIs
    <3> QED BY <1>8, <3>2 DEF Called
  <2> DEFINE reserves == {Asking("reserve", [amount |-> n, unlimited |-> u, capped |-> c]) :
                          n \in {1, 3}, u \in BOOLEAN, c \in BOOLEAN}
             settles == {Asking("settle", [final |-> n, capped |-> c]) : n \in {0, 1, 4}, c \in BOOLEAN}
             releases == {Asking("release", [capped |-> c]) : c \in BOOLEAN}
  <2>4. ScriptCalls = reserves \cup settles \cup releases
    BY <1>8, SMTT(30) DEF ScriptCalls
  <2>5. CASE a \in reserves
    <3>1. \E n \in {1, 3}, u \in BOOLEAN, c \in BOOLEAN :
             a = Asking("reserve", [amount |-> n, unlimited |-> u, capped |-> c])
      BY <2>5, SMTT(30)
    <3> QED BY <2>1, <3>1
  <2>6. CASE a \in settles
    <3>1. \E n \in {0, 1, 4}, c \in BOOLEAN : a = Asking("settle", [final |-> n, capped |-> c])
      BY <2>6, SMTT(30)
    <3> QED BY <2>2, <3>1
  <2>7. CASE a \in releases
    <3>1. \E c \in BOOLEAN : a = Asking("release", [capped |-> c])
      BY <2>7, Zenon
    <3> QED BY <2>3, <3>1
  <2> HIDE DEF reserves, settles, releases
  <2>8. a \in reserves \cup settles \cup releases
    BY <2>4
  <2> QED BY <2>5, <2>6, <2>7, <2>8
<1> QED BY <1>1, <1>2, <1>3, <1>4, <1>5, <1>6, <1>7, <1>8 DEF ScriptFamilies

\* Between steps, with the head of the chain at its script, the answer it will
\* give and the store it will leave are those of the Lua script; the others wait.
TwinsInv ==
    /\ clock \in Nat
    /\ bothReturned.twin = bothReturned.lua
    /\ \E fam, m, l, ts, chain, n :
         /\ fam = family /\ m = memory /\ l = luaStore /\ ts = twins /\ chain = scriptChain /\ n = begun
         /\ TwinsHold(fam, m, l, ts, chain, n)

LEMMA TwinsInvIs ==
    ASSUME TwinsInv
    PROVE  TwinsHold(family, memory, luaStore, twins, scriptChain, begun) /\ clock \in Nat /\ clock \in Int
<1>1. PICK fam, m, l, ts, chain, n :
         /\ fam = family /\ m = memory /\ l = luaStore /\ ts = twins /\ chain = scriptChain /\ n = begun
         /\ TwinsHold(fam, m, l, ts, chain, n)
  BY DEF TwinsInv
<1>2. TwinsHold(family, memory, luaStore, twins, scriptChain, begun)
  BY <1>1
<1>3. clock \in Nat
  BY DEF TwinsInv
<1> QED BY <1>2, <1>3

\* A step that leaves the clock.
LEMMA TwinsInvStill ==
    ASSUME clock \in Nat, clock' = clock, bothReturned'.twin = bothReturned'.lua,
           NEW fam, NEW m, NEW l, NEW ts, NEW chain, NEW n,
           fam = family', m = memory', l = luaStore', ts = twins', chain = scriptChain', n = begun',
           TwinsHold(fam, m, l, ts, chain, n)
    PROVE  TwinsInv'
<1>1. TwinsHold(fam, m, l, ts, chain, n)'
  BY HoldsStill
<1> QED BY <1>1 DEF TwinsInv

LEMMA TwinsStart == TwinsInit => TwinsInv
<1> SUFFICES ASSUME TwinsInit PROVE TwinsInv
  OBVIOUS
<1>1. PICK private \in {Nil, 2} :
         memory = [k \in StoreKeys |->
             CASE family = "ledger" /\ k = "user" -> [type |-> "scalar", is |-> 3, date |-> Forever]
               [] family = "ledger" /\ k = "token" /\ private # Nil ->
                    [type |-> "scalar", is |-> private, date |-> Forever]
               [] OTHER -> NoEntry]
  BY DEF TwinsInit
<1>2. clock = 0 /\ family \in ScriptFamilies /\ luaStore = memory /\ scriptChain = <<>> /\ begun = 0
      /\ twins = [c \in ScriptCallers |-> NoScript] /\ bothReturned = [twin |-> Nil, lua |-> Nil]
  BY DEF TwinsInit
<1>3. ASSUME NEW k \in StoreKeys
      PROVE  memory[k] \in {NoEntry} \cup {Entry("scalar", v, Forever) : v \in Int}
  <2>1. memory[k] = NoEntry \/ memory[k] = Entry("scalar", 3, Forever)
        \/ (private # Nil /\ memory[k] = Entry("scalar", private, Forever))
    <3>1. memory[k] =
             CASE family = "ledger" /\ k = "user" -> Entry("scalar", 3, Forever)
               [] family = "ledger" /\ k = "token" /\ private # Nil -> Entry("scalar", private, Forever)
               [] OTHER -> NoEntry
      BY <1>1 DEF Entry
    <3>2. CASE family = "ledger" /\ k = "user"
      BY <3>1, <3>2
    <3>3. CASE family = "ledger" /\ k = "token" /\ private # Nil
      BY <3>1, <3>3
    <3>4. CASE ~(family = "ledger" /\ k = "user") /\ ~(family = "ledger" /\ k = "token" /\ private # Nil)
      BY <3>1, <3>4
    <3> QED BY <3>2, <3>3, <3>4
  <2>2. private # Nil => private \in Int
    OBVIOUS
  <2> QED BY <2>1, <2>2
<1>4. \A v : v \in Int => IsEntry(Entry("scalar", v, Forever))
  BY EntryIs DEF Forever
<1>5. IsStore(memory)
  <2>1. memory = [k \in StoreKeys |-> memory[k]]
    BY <1>1
  <2> QED BY <1>3, <1>4, <2>1, NoEntryIs DEF IsStore
<1>6. ASSUME NEW k \in StoreKeys PROVE Live(memory, k) = memory[k]
  <2>1. memory[k].date = Forever
    BY <1>3, EntryIs, NoEntryIs
  <2> QED BY <2>1 DEF Live
<1>7. ASSUME NEW k \in StoreKeys PROVE Alike(k, memory[k], memory[k])
  <2>1. CASE memory[k] = NoEntry
    BY <2>1, NothingAlike
  <2>2. CASE memory[k] # NoEntry
    <3>1. k \in {"user", "token"}
      BY <1>1, <2>2
    <3>2. PICK v \in Int : memory[k] = Entry("scalar", v, Forever)
      BY <1>3, <2>2
    <3>3. Entry("scalar", v, Forever).type = "scalar" /\ Entry("scalar", v, Forever).is = v
      BY EntryIs
    <3>4. ~Emptied(memory[k])
      BY <3>2, <3>3 DEF Emptied
    <3>5. Fits(k, memory[k])
      BY <3>1, <3>2, <3>3, <3>4 DEF Fits
    <3> QED BY <3>1, <3>5 DEF Alike, Emptiable
  <2> QED BY <2>1, <2>2
<1>8. Good(memory, luaStore)
  <2>1. \A k \in StoreKeys \ {} : Alike(k, Live(memory, k), Live(luaStore, k))
    BY <1>2, <1>6, <1>7
  <2> QED BY <1>2, <1>5, <2>1 DEF Good, AlikeBut
<1>9. PICK ts : ts = [c \in ScriptCallers |-> NoScript]
  OBVIOUS
<1>10. \A c \in ScriptCallers : ts[c] = NoScript /\ ts[c].at = "idle" /\ TwinIs(family, ts[c])
  BY <1>9 DEF NoScript, TwinIs
<1>11. ts = [c \in ScriptCallers |-> ts[c]]
  BY <1>9
<1>12. PICK n \in Nat : n = 0
  OBVIOUS
<1>13. PICK chain : chain = <<>> /\ chain \in Seq(ScriptCallers)
  <2>1. <<>> \in Seq(ScriptCallers)
    OBVIOUS
  <2> QED BY <2>1
<1>14. TwinsHold(family, memory, luaStore, ts, chain, n)
  <2>1. \A c \in ScriptCallers : ts[c].at # "running" /\ RowsReady(luaStore, ts[c], n)
    BY <1>10 DEF RowsReady
  <2>2. \A c \in ScriptCallers : TwinIs(family, ts[c])
    BY <1>10
  <2>3. family \in ScriptFamilies /\ n \in Nat /\ chain \in Seq(ScriptCallers)
    BY <1>2, <1>12, <1>13
  <2> QED BY <1>8, <1>11, <2>1, <2>2, <2>3 DEF TwinsHold
<1>15. bothReturned.twin = bothReturned.lua
  BY <1>2
<1> QED BY <1>2, <1>9, <1>12, <1>13, <1>14, <1>15 DEF TwinsInv

LEMMA TwinsJoin == ASSUME TwinsInv, NEW c \in ScriptCallers, JoinChain(c) PROVE TwinsInv'
<1>1. TwinsHold(family, memory, luaStore, twins, scriptChain, begun) /\ clock \in Nat /\ clock \in Int
  BY TwinsInvIs
<1>2. begun \in Nat /\ family \in ScriptFamilies
  BY <1>1 DEF TwinsHold
<1>3. PICK script \in ScriptCalls : twins' = [twins EXCEPT ![c] = [at |-> "waiting", call |-> script, r |-> <<>>, lua |-> Nil]]
  BY DEF JoinChain
<1>4. /\ Called(family, script)
      /\ family = "buffer" => script.owner < begun /\ (script.name = "ackUsage" => script.acked <= Len(UsageRows(memory)))
  BY <1>1, <1>2, CallsAre
<1>5. PICK t : t = Asked("waiting", script, <<>>, Nil)
  OBVIOUS
<1>6. twins' = [twins EXCEPT ![c] = t] /\ twins[c] = NoScript /\ begun' = begun + 1
      /\ scriptChain' = Append(scriptChain, c)
      /\ UNCHANGED <<family, clock, memory, luaStore, bothReturned>>
  BY <1>3, <1>5 DEF JoinChain, Asked
<1>7. TwinsHold(family, memory, luaStore, [twins EXCEPT ![c] = t], Append(scriptChain, c), begun + 1)
  BY <1>1, <1>4, <1>5, <1>6, HoldsJoin
<1>8. bothReturned'.twin = bothReturned'.lua
  BY <1>6 DEF TwinsInv
<1> QED BY <1>1, <1>6, <1>7, <1>8, TwinsInvStill

LEMMA TwinsStep == ASSUME TwinsInv, NEW c \in ScriptCallers, Step(c) PROVE TwinsInv'
<1>1. TwinsHold(family, memory, luaStore, twins, scriptChain, begun) /\ clock \in Nat /\ clock \in Int
  BY TwinsInvIs
<1>2. PICK a, r, was : a = twins[c].call /\ r = twins[c].r /\ was = twins[c].lua
  OBVIOUS
<1>3. PICK done : done = TwinCommand(memory, Twin(a, r).is)
  OBVIOUS
<1>4. PICK q : q = Append(r, done.answer)
  OBVIOUS
<1>5. PICK o : o = (IF Settles(a, q) THEN Script(a, luaStore).store ELSE luaStore)
  OBVIOUS
<1>6. PICK lua : lua = (IF Settles(a, q) THEN Script(a, luaStore).answer ELSE was)
  OBVIOUS
<1>7. PICK t : t = Asked("running", a, q, lua)
  OBVIOUS
<1>8. twins[c].at # "idle" /\ AtHead(scriptChain, c)
  BY DEF Step, HeadOfChain, AtHead
<1>9. Twin(a, r).next = "command" /\ memory' = done.store
  BY <1>2, <1>3 DEF Step
<1>10. luaStore' = o
  BY <1>2, <1>3, <1>4, <1>5 DEF Step
<1>11. twins' = [twins EXCEPT ![c] = t]
  <2>1. twins' = [twins EXCEPT ![c] = [twins[c] EXCEPT !.at = "running", !.r = q, !.lua = lua]]
    <3>1. twins' = [twins EXCEPT ![c] = [twins[c] EXCEPT !.at = "running", !.r = q,
                       !.lua = IF Settles(a, q) THEN Script(a, luaStore).answer ELSE @]]
      BY <1>2, <1>3, <1>4 DEF Step
    <3> QED BY <1>2, <1>6, <3>1
  <2>2. TwinIs(family, twins[c])
    BY <1>1 DEF TwinsHold
  <2>3. twins[c] = Asked(twins[c].at, a, r, was)
    BY <1>2, <1>8, <2>2, TwinAt
  <2>4. [twins[c] EXCEPT !.at = "running", !.r = q, !.lua = lua] = t
    <3>1. PICK at : at = twins[c].at
      OBVIOUS
    <3>2. twins[c] = [at |-> at, call |-> a, r |-> r, lua |-> was]
      BY <2>3, <3>1 DEF Asked
    <3>3. PICK e : e = twins[c]
      OBVIOUS
    <3>4. e = [f \in {"at", "call", "r", "lua"} |-> e[f]] /\ e["call"] = a
      BY <3>2, <3>3
    <3>5. [e EXCEPT !.at = "running", !.r = q, !.lua = lua] =
            [f \in {"at", "call", "r", "lua"} |->
               IF f = "at" THEN "running" ELSE IF f = "r" THEN q ELSE IF f = "lua" THEN lua ELSE e[f]]
      BY <3>4
    <3>6. [at |-> "running", call |-> a, r |-> q, lua |-> lua] =
            [f \in {"at", "call", "r", "lua"} |->
               IF f = "at" THEN "running" ELSE IF f = "r" THEN q ELSE IF f = "lua" THEN lua ELSE e[f]]
      BY <3>4
    <3> QED BY <1>7, <3>3, <3>5, <3>6 DEF Asked
  <2> QED BY <2>1, <2>4
<1>12. UNCHANGED <<family, clock, scriptChain, begun, bothReturned>>
  BY DEF Step
<1>13. TwinsHold(family, done.store, o, [twins EXCEPT ![c] = t], scriptChain, begun)
  BY <1>1, <1>2, <1>3, <1>4, <1>5, <1>6, <1>7, <1>8, <1>9, HoldsStep
<1>14. bothReturned'.twin = bothReturned'.lua
  BY <1>12 DEF TwinsInv
<1> QED BY <1>1, <1>9, <1>10, <1>11, <1>12, <1>13, <1>14, TwinsInvStill

LEMMA ChainLeft == ASSUME scriptChain \in Seq(ScriptCallers), NEW c, AtHead(scriptChain, c) PROVE ChainWithout(c) \in Seq(ScriptCallers)
<1>1. PICK chain \in Seq(ScriptCallers) : chain = scriptChain
  OBVIOUS
<1>2. chain # <<>> /\ chain[1] = c
  BY <1>1 DEF AtHead
<1>3. DOMAIN chain = 1..Len(chain) /\ Len(chain) \in Nat /\ Len(chain) # 0
  BY <1>2
<1>4. 1 \in DOMAIN chain
  BY <1>3
<1>5. PICK n : n = CHOOSE i \in DOMAIN chain : chain[i] = c
  OBVIOUS
<1>6. n \in DOMAIN chain
  BY <1>2, <1>4, <1>5
<1>7. n \in 1..Len(chain)
  BY <1>3, <1>6
<1>8. SubSeq(chain, 1, n - 1) \in Seq(ScriptCallers)
  <2>1. \A i \in 1..(n - 1) : chain[i] \in ScriptCallers
    BY <1>3, <1>7
  <2> QED BY <1>3, <1>7, <2>1, SubSeqProperties
<1>9. SubSeq(chain, n + 1, Len(chain)) \in Seq(ScriptCallers)
  <2>1. \A i \in (n + 1)..Len(chain) : chain[i] \in ScriptCallers
    BY <1>3, <1>7
  <2> QED BY <1>3, <1>7, <2>1, SubSeqProperties
<1>10. SubSeq(chain, 1, n - 1) \o SubSeq(chain, n + 1, Len(chain)) \in Seq(ScriptCallers)
  BY <1>8, <1>9, ConcatProperties
<1> QED BY <1>1, <1>5, <1>10 DEF ChainWithout

LEMMA TwinsReturn == ASSUME TwinsInv, NEW c \in ScriptCallers, Return(c) PROVE TwinsInv'
<1>1. TwinsHold(family, memory, luaStore, twins, scriptChain, begun) /\ clock \in Nat /\ clock \in Int
  BY TwinsInvIs
<1>2. PICK a, r, was : a = twins[c].call /\ r = twins[c].r /\ was = twins[c].lua
  OBVIOUS
<1>3. PICK lua : lua = (IF r = <<>> THEN Script(a, luaStore) ELSE Reply(was, luaStore))
  OBVIOUS
<1>4. twins[c].at # "idle" /\ AtHead(scriptChain, c)
  BY DEF Return, HeadOfChain, AtHead
<1>5. Twin(a, r).next = "done" /\ twins' = [twins EXCEPT ![c] = NoScript]
  BY <1>2 DEF Return
<1>6. luaStore' = lua.store /\ bothReturned' = [twin |-> Twin(a, r).is, lua |-> lua.answer]
  BY <1>2, <1>3 DEF Return
<1>7. scriptChain' = ChainWithout(c) /\ UNCHANGED <<family, clock, memory, begun>>
  BY DEF Return
<1>8. PICK left : left \in Seq(ScriptCallers) /\ left = ChainWithout(c)
  <2>1. scriptChain \in Seq(ScriptCallers)
    BY <1>1 DEF TwinsHold
  <2> QED BY <1>4, <2>1, ChainLeft
<1>9. PICK x, o : x = lua.answer /\ o = lua.store
  OBVIOUS
<1>10. AnswerOf(a, r, was, luaStore, x, o)
  BY <1>3, <1>9, ReplyIs DEF AnswerOf
<1>11. Twin(a, r).is = x /\ Good(memory, o)
  <2>1. family \in ScriptFamilies /\ TwinIs(family, twins[c])
    BY <1>1 DEF TwinsHold
  <2>2. Called(family, a) /\ (twins[c].at = "waiting" => r = <<>>) /\ (twins[c].at = "running" => Replied(r))
        /\ twins[c].at \in {"waiting", "running"}
    BY <1>2, <1>4, <2>1, TwinAt
  <2>3. CASE twins[c].at = "waiting"
    <3>1. Good(memory, luaStore)
      BY <1>1, <1>4, <2>3, HeadAlone
    <3>2. Twin(a, r).is = Script(a, luaStore).answer /\ Good(memory, Script(a, luaStore).store)
      BY <1>1, <1>5, <2>1, <2>2, <2>3, <3>1, TwinEndsAtOnce
    <3> QED BY <1>10, <2>2, <2>3, <3>2 DEF AnswerOf
  <2>4. CASE twins[c].at = "running"
    <3>1. UnderWay(family, memory, luaStore, a, r, was)
      BY <1>1, <1>2, <2>4 DEF TwinsHold
    <3>2. Twin(a, r).is = was /\ Good(memory, luaStore)
      BY <1>1, <1>5, <2>1, <2>2, <3>1, TwinEnds
    <3> QED BY <1>10, <2>2, <2>4, <3>2, RepliedIs DEF AnswerOf
  <2> QED BY <2>2, <2>3, <2>4
<1>12. TwinsHold(family, memory, o, [twins EXCEPT ![c] = NoScript], left, begun)
  BY <1>1, <1>2, <1>4, <1>8, <1>10, <1>11, HoldsReturn
<1>13. bothReturned'.twin = bothReturned'.lua
  BY <1>6, <1>9, <1>11
<1> QED BY <1>1, <1>5, <1>6, <1>7, <1>8, <1>9, <1>12, <1>13, TwinsInvStill

LEMMA TwinsSingle == ASSUME TwinsInv, Single PROVE TwinsInv'
<1>1. TwinsHold(family, memory, luaStore, twins, scriptChain, begun) /\ clock \in Nat /\ clock \in Int
  BY TwinsInvIs
<1>2. PICK c \in Others :
        /\ memory' = TwinCommand(memory, c).store
        /\ luaStore' = Shown(TwinCommand(luaStore, c).store)
        /\ bothReturned' = IF c[1] = "RPUSH" THEN bothReturned
                           ELSE [twin |-> TwinCommand(memory, c).answer, lua |-> TwinCommand(luaStore, c).answer]
  BY DEF Single, Shown
<1>3. begun' = begun + 1 /\ UNCHANGED <<family, clock, twins, scriptChain>>
  BY DEF Single
<1>4. bothReturned.twin = bothReturned.lua
  BY DEF TwinsInv
<1>5. ASSUME NEW n, NEW o, memory' = n, luaStore' = o, TwinsHold(family, n, o, twins, scriptChain, begun + 1),
             bothReturned'.twin = bothReturned'.lua
      PROVE  TwinsInv'
  BY <1>1, <1>3, <1>5, TwinsInvStill
<1>6. CASE family = "buffer" /\ c = <<"SETNX", "lock", begun>>
  <2>1. TwinsHold("buffer", memory, luaStore, twins, scriptChain, begun)
    BY <1>1, <1>6
  <2>2. /\ TwinsHold("buffer", Locked(memory, begun).store, Shown(Locked(luaStore, begun).store), twins, scriptChain, begun + 1)
        /\ Locked(memory, begun).answer = Locked(luaStore, begun).answer
    BY <1>1, <2>1, HoldsLocked
  <2>3. TwinCommand(memory, c) = Locked(memory, begun) /\ TwinCommand(luaStore, c) = Locked(luaStore, begun)
    BY <1>6 DEF Locked
  <2>4. c[1] = "SETNX"
    BY <1>6
  <2>5. bothReturned'.twin = bothReturned'.lua
    BY <1>2, <2>2, <2>3, <2>4
  <2>6. PICK n, o : n = Locked(memory, begun).store /\ o = Shown(Locked(luaStore, begun).store)
    OBVIOUS
  <2>7. memory' = n /\ luaStore' = o
    BY <1>2, <2>3, <2>6
  <2>8. TwinsHold(family, n, o, twins, scriptChain, begun + 1)
    BY <1>6, <2>2, <2>6
  <2> QED BY <1>5, <2>5, <2>7, <2>8
<1>7. CASE family = "buffer" /\ c = <<"RPUSH", "buffer", begun>>
  <2>1. TwinsHold("buffer", memory, luaStore, twins, scriptChain, begun)
    BY <1>1, <1>7
  <2>2. TwinsHold("buffer", Pushed(memory, begun).store, Shown(Pushed(luaStore, begun).store), twins, scriptChain, begun + 1)
    BY <1>1, <2>1, HoldsPushed
  <2>3. TwinCommand(memory, c) = Pushed(memory, begun) /\ TwinCommand(luaStore, c) = Pushed(luaStore, begun)
    BY <1>7 DEF Pushed
  <2>4. c[1] = "RPUSH"
    BY <1>7
  <2>5. bothReturned'.twin = bothReturned'.lua
    BY <1>2, <1>4, <2>4
  <2>6. PICK n, o : n = Pushed(memory, begun).store /\ o = Shown(Pushed(luaStore, begun).store)
    OBVIOUS
  <2>7. memory' = n /\ luaStore' = o
    BY <1>2, <2>3, <2>6
  <2>8. TwinsHold(family, n, o, twins, scriptChain, begun + 1)
    BY <1>7, <2>2, <2>6
  <2> QED BY <1>5, <2>5, <2>7, <2>8
<1>8. CASE family = "inflight"
  <2>1. TwinsHold("inflight", memory, luaStore, twins, scriptChain, begun)
    BY <1>1, <1>8
  <2>2. PICK y \in Holders : c = <<"ZREM", "inflight", y>>
    BY <1>8 DEF Others
  <2>3. y \in DOMAIN Hash(memory, "inflight")
    BY DEF Holders
  <2>4. \A d \in ScriptCallers : twins[d].at = "running" => twins[d].call.member # y
    BY DEF Holders, Running
  <2>5. /\ TwinsHold("inflight", Left(memory, "inflight", y).store, Shown(Left(luaStore, "inflight", y).store),
                 twins, scriptChain, begun + 1)
        /\ Left(memory, "inflight", y).answer = Left(luaStore, "inflight", y).answer
    BY <1>1, <2>1, <2>3, <2>4, HoldsLeft
  <2>6. TwinCommand(memory, c) = Left(memory, "inflight", y) /\ TwinCommand(luaStore, c) = Left(luaStore, "inflight", y)
    BY <2>2 DEF Left
  <2>7. c[1] = "ZREM"
    BY <2>2
  <2>8. bothReturned'.twin = bothReturned'.lua
    BY <1>2, <2>5, <2>6, <2>7
  <2>9. PICK n, o : n = Left(memory, "inflight", y).store /\ o = Shown(Left(luaStore, "inflight", y).store)
    OBVIOUS
  <2>10. memory' = n /\ luaStore' = o
    BY <1>2, <2>6, <2>9
  <2>11. TwinsHold(family, n, o, twins, scriptChain, begun + 1)
    BY <1>8, <2>5, <2>9
  <2> QED BY <1>5, <2>8, <2>10, <2>11
<1>9. \/ family = "buffer" /\ c = <<"SETNX", "lock", begun>>
      \/ family = "buffer" /\ c = <<"RPUSH", "buffer", begun>>
      \/ family = "inflight"
  <2>1. family \in {"buffer", "inflight"}
    BY DEF Others
  <2>2. family = "buffer" => c \in {<<"SETNX", "lock", begun>>, <<"RPUSH", "buffer", begun>>}
    BY DEF Others
  <2> QED BY <2>1, <2>2
<1> QED BY <1>6, <1>7, <1>8, <1>9

LEMMA TwinsTick == ASSUME TwinsInv, TwinTick PROVE TwinsInv'
<1>1. PICK fam, m, l, ts, chain, n :
         /\ fam = family /\ m = memory /\ l = luaStore /\ ts = twins /\ chain = scriptChain /\ n = begun
         /\ TwinsHold(fam, m, l, ts, chain, n)
  BY DEF TwinsInv
<1>2. clock \in Nat /\ bothReturned.twin = bothReturned.lua
  BY DEF TwinsInv
<1>3. clock' = clock + 1 /\ Running = {}
      /\ UNCHANGED <<family, memory, luaStore, twins, scriptChain, begun, bothReturned>>
  BY DEF TwinTick
<1>4. NobodyRuns(ts)
  BY <1>1, <1>3 DEF NobodyRuns, Running
<1>5. TwinsHold(fam, m, l, ts, chain, n)'
  BY <1>1, <1>2, <1>3, <1>4, HoldsTick
<1> QED BY <1>1, <1>2, <1>3, <1>5 DEF TwinsInv

LEMMA TwinsStutter == ASSUME TwinsInv, UNCHANGED twinVars PROVE TwinsInv'
<1>1. TwinsHold(family, memory, luaStore, twins, scriptChain, begun) /\ clock \in Nat /\ clock \in Int
  BY TwinsInvIs
<1>2. bothReturned'.twin = bothReturned'.lua
  BY DEF TwinsInv, twinVars
<1> QED BY <1>1, <1>2, TwinsInvStill DEF twinVars

LEMMA TwinsMove == TwinsInv /\ [TwinsNext]_twinVars => TwinsInv'
<1> SUFFICES ASSUME TwinsInv, [TwinsNext]_twinVars PROVE TwinsInv'
  OBVIOUS
<1>1. ASSUME NEW c \in ScriptCallers, JoinChain(c) PROVE TwinsInv'
  BY <1>1, TwinsJoin
<1>2. ASSUME NEW c \in ScriptCallers, Step(c) PROVE TwinsInv'
  BY <1>2, TwinsStep
<1>3. ASSUME NEW c \in ScriptCallers, Return(c) PROVE TwinsInv'
  BY <1>3, TwinsReturn
<1>4. CASE Single
  BY <1>4, TwinsSingle
<1>5. CASE TwinTick
  BY <1>5, TwinsTick
<1>6. CASE UNCHANGED twinVars
  BY <1>6, TwinsStutter
<1> QED BY <1>1, <1>2, <1>3, <1>4, <1>5, <1>6 DEF TwinsNext

LEMMA TwinsInvAgrees == TwinsInv => TwinsAgree
<1> SUFFICES ASSUME TwinsInv PROVE TwinsAgree
  OBVIOUS
<1>1. TwinsHold(family, memory, luaStore, twins, scriptChain, begun) /\ bothReturned.twin = bothReturned.lua
  BY TwinsInvIs DEF TwinsInv
<1>2. ASSUME Running = {}, NEW k \in StoreKeys PROVE Seen(memory, k) = Seen(luaStore, k)
  <2>1. NobodyRuns(twins)
    BY <1>2 DEF Running, NobodyRuns
  <2>2. Good(memory, luaStore)
    BY <1>1, <2>1 DEF TwinsHold
  <2> QED BY <2>2, GoodAgrees
<1> QED BY <1>1, <1>2 DEF TwinsAgree

THEOREM TwinsAlwaysAgree == TwinsSpec => []TwinsAgree
<1>1. TwinsSpec => []TwinsInv
  BY TwinsStart, TwinsMove, PTL DEF TwinsSpec
<1> QED BY <1>1, TwinsInvAgrees, PTL

\* The coordination store as a whole: MongoDB answers a command as Redis does
\* (redis/mongo.ts), and a script's twin (redis/scripts.ts) leaves and answers
\* what the Lua script does (redis/lua.ts), for any number of callers, scripts,
\* commands and ticks.
THEOREM CoordinationAlwaysAgrees == StoreSpec /\ TwinsSpec => []CoordinationAgrees
<1>1. StoreAgrees /\ TwinsAgree => CoordinationAgrees
  BY DEF CoordinationAgrees
<1> QED BY <1>1, StoreAlwaysAgrees, TwinsAlwaysAgree, PTL
=============================================================================
