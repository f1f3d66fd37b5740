---------------------------- MODULE DocumentStore ----------------------------
(***************************************************************************)
(* The in-process document store (src/lib/db/memory.ts) that stands in for  *)
(* MongoDB wherever no database is configured.  A collection name is bound  *)
(* to a collection object the first time anybody asks for it, at once and   *)
(* outside the queue; every method of a collection, and every transaction,  *)
(* then waits for its turn on one promise chain.  A transaction holds its   *)
(* turn across all its awaits, and puts back the snapshot it took when its  *)
(* work throws.                                                             *)
(*                                                                         *)
(* A document is the value of one field, under a sparse unique index.       *)
(***************************************************************************)
EXTENDS Integers, Sequences

CONSTANTS
    Callers,  \* requests that use the store
    Books,    \* collection names
    DocIds,   \* document identifiers
    Uniques,  \* values of the unique field; Absent is a document without it
    Absent,
    MaxObjects,  \* bound: collection objects ever created
    MaxSteps     \* bound: commands of one transaction

ASSUME DocumentAssumption == Absent \in Uniques

VARIABLES
    bound,     \* collection object by name; NoObject while nobody asked
    contents,  \* documents of each collection object
    chain,     \* callers waiting for the store, first come first served
    work,      \* what each caller does, and the collection it has a handle on
    snapshot,  \* what the transaction in progress would put back
    draft,     \* history: its commands so far, replayed after the finished calls
    agreed     \* history: the finished calls, replayed one after the other

documentVars == <<bound, contents, chain, work, snapshot, draft, agreed>>

NoObject == 0
Objects == 1..MaxObjects
NoDoc == "no document"
EmptyBook == [id \in DocIds |-> NoDoc]
EmptyBooks == [o \in Objects |-> EmptyBook]
NoSnapshot == [names |-> {}, contents |-> EmptyBooks]
NoDraft == [steps |-> 0, contents |-> EmptyBooks]
Resting == [state |-> "resting", handle |-> NoObject]

(***************************************************************************)
(* Commands of a collection                                                 *)
(***************************************************************************)
Commands == [op : {"insert", "set", "upsert", "delete"}, id : DocIds, value : Uniques]

Present(book) == {id \in DocIds : book[id] # NoDoc}

(* uniqueGuard, with the sparse index's exemption. *)
\* A slip: an update is not checked against the other documents.
BadUniqueGuard(book, command) ==
    command.op # "insert" \/ command.value = Absent
    \/ \A id \in Present(book) \ {command.id} : book[id] # command.value
UniqueGuard(book, command) ==
    command.value = Absent
    \/ \A id \in Present(book) \ {command.id} : book[id] # command.value

(* The command throws DuplicateKeyError. *)
Throws(book, command) ==
    \/ command.op = "insert"
       /\ (book[command.id] # NoDoc \/ ~UniqueGuard(book, command))
    \/ command.op = "set" /\ book[command.id] # NoDoc /\ ~UniqueGuard(book, command)

(* What the command makes of the document it names: insertOne, updateOne    *)
(* with $set and nothing to match, an upsert that sets on insert (updateOne *)
(* and findOneAndUpdate), deleteOne.                                        *)
Written(book, command) ==
    LET doc == book[command.id] IN
    CASE command.op = "insert" -> command.value
      [] command.op = "set" -> IF doc = NoDoc THEN NoDoc ELSE command.value
      [] command.op = "upsert" -> IF doc = NoDoc THEN Absent ELSE doc
      [] command.op = "delete" -> NoDoc

After(book, command) ==
    IF Throws(book, command) THEN book
    ELSE [book EXCEPT ![command.id] = Written(book, command)]

(***************************************************************************)
(* Handles and turns                                                        *)
(***************************************************************************)
DocumentInit ==
    /\ bound = [n \in Books |-> NoObject]
    /\ contents = EmptyBooks /\ agreed = EmptyBooks
    /\ chain = <<>>
    /\ work = [c \in Callers |-> Resting]
    /\ snapshot = NoSnapshot /\ draft = NoDraft

(* Objects nobody has reached yet. *)
Fresh == {o \in Objects : contents[o] = EmptyBook /\ agreed[o] = EmptyBook
            /\ (\A n \in Books : bound[n] # o) /\ \A c \in Callers : work[c].handle # o}

(* database.collection(name): bound at once, whoever holds the store.       *)
Open(c, n) ==
    /\ work[c].state \in {"resting", "working"}
    /\ \E o \in Objects :
         /\ IF bound[n] # NoObject THEN o = bound[n]
            ELSE o \in Fresh /\ \A p \in Fresh : o <= p
         /\ bound' = [bound EXCEPT ![n] = o]
         /\ work' = [work EXCEPT ![c].handle = o]
    /\ UNCHANGED <<contents, chain, snapshot, draft, agreed>>

(* A method outside any transaction, or a transaction: it joins the chain.  *)
Enqueue(c) ==
    /\ work[c].state = "resting"
    /\ \/ work[c].handle # NoObject /\ work' = [work EXCEPT ![c].state = "method"]
       \/ work[c].handle = NoObject /\ work' = [work EXCEPT ![c].state = "transaction"]
    /\ chain' = Append(chain, c)
    /\ UNCHANGED <<bound, contents, snapshot, draft, agreed>>

(* exclusive: the first of the chain runs, the others wait for its end. *)
\* A slip: whoever reaches the chain runs, as without the chain.
BadMyTurn(c) == \E i \in 1..Len(chain) : chain[i] = c
MyTurn(c) == chain # <<>> /\ Head(chain) = c

Leave(c) ==
    /\ work' = [work EXCEPT ![c] = Resting]
    /\ chain' = Tail(chain)

(* One method call, acknowledged or refused. *)
RunMethod(c) ==
    /\ work[c].state = "method" /\ MyTurn(c)
    /\ LET o == work[c].handle IN
       \E command \in Commands :
         /\ contents' = [contents EXCEPT ![o] = After(@, command)]
         /\ agreed' = [agreed EXCEPT ![o] = After(@, command)]
    /\ Leave(c)
    /\ UNCHANGED <<bound, snapshot, draft>>

(* transaction: a snapshot of every collection there is, then the work. *)
Begin(c) ==
    /\ work[c].state = "transaction" /\ MyTurn(c)
    /\ work' = [work EXCEPT ![c].state = "working"]
    /\ snapshot' = [names |-> {n \in Books : bound[n] # NoObject}, contents |-> contents]
    /\ draft' = [steps |-> 0, contents |-> agreed]
    /\ UNCHANGED <<bound, contents, chain, agreed>>

(* A command of the work runs at once: the transaction has the turn. *)
RunInside(c) ==
    /\ work[c].state = "working" /\ work[c].handle # NoObject
    /\ draft.steps < MaxSteps
    /\ LET o == work[c].handle IN
       \E command \in Commands :
         /\ contents' = [contents EXCEPT ![o] = After(@, command)]
         /\ draft' = [steps |-> draft.steps + 1,
                       contents |-> [draft.contents EXCEPT ![o] = After(@, command)]]
    /\ UNCHANGED <<bound, chain, work, snapshot, agreed>>

Commit(c) ==
    /\ work[c].state = "working"
    /\ agreed' = draft.contents
    /\ snapshot' = NoSnapshot /\ draft' = NoDraft
    /\ Leave(c)
    /\ UNCHANGED <<bound, contents>>

(* The catch of a transaction: a collection of the snapshot gets its        *)
(* documents back, a name bound since then is forgotten.                    *)
\* A slip: a collection the work created outlives the abort.
BadRestored(n) == bound[n]
Restored(n) == IF n \in snapshot.names THEN bound[n] ELSE NoObject

Abort(c) ==
    /\ work[c].state = "working"
    /\ bound' = [n \in Books |-> Restored(n)]
    /\ contents' = [o \in Objects |->
          IF \E n \in snapshot.names : bound[n] = o
          THEN snapshot.contents[o] ELSE contents[o]]
    /\ snapshot' = NoSnapshot /\ draft' = NoDraft
    /\ Leave(c)
    /\ UNCHANGED agreed

DocumentNext == \E c \in Callers :
    \/ \E n \in Books : Open(c, n)
    \/ Enqueue(c) \/ RunMethod(c)
    \/ Begin(c) \/ RunInside(c) \/ Commit(c) \/ Abort(c)

DocumentSpec == DocumentInit /\ [][DocumentNext]_documentVars

(***************************************************************************)
(* Properties                                                               *)
(***************************************************************************)
(* Between transactions the collections that have a name hold exactly what  *)
(* the finished calls, replayed one after the other, make of them: an       *)
(* aborted transaction left nothing, a committed one all of it, and no call *)
(* of another request landed inside one.  All along, no two documents of a  *)
(* collection share a unique value.                                         *)
FinishedCallsOnly ==
    /\ (\A c \in Callers : work[c].state # "working") =>
          \A n \in Books : bound[n] # NoObject => contents[bound[n]] = agreed[bound[n]]
    /\ \A o \in Objects : \A i, j \in Present(contents[o]) :
          i # j /\ contents[o][i] # Absent => contents[o][i] # contents[o][j]

(* A method that finished leaves its write where a later call finds it: a   *)
(* collection somebody has a handle on is the one its name leads to.        *)
(* It does not hold: see the README, section 6.                             *)
HandlesStayBound ==
    \A c \in Callers : work[c].state = "method"
        => \E n \in Books : bound[n] = work[c].handle
=============================================================================
