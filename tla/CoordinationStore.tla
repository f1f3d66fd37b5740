-------------------------- MODULE CoordinationStore --------------------------
(***************************************************************************)
(* The coordination store on MongoDB (lib/redis/mongo.ts) against the      *)
(* Redis it stands in for.  Every command is a transaction; values are     *)
(* interpreted by the in-memory twin (lib/redis/memory.ts) and written     *)
(* back; lists are one document per item beside a document with the        *)
(* positions of the ends.  A TTL index removes documents and items some    *)
(* time after their date, each on its own.                                 *)
(*                                                                         *)
(* Both stores are run on the same commands, and what they answer and hold *)
(* is compared.                                                            *)
(***************************************************************************)
EXTENDS Integers, FiniteSets, Sequences, SequencesExt

CONSTANTS
    MaxCommands,  \* bound: commands
    MaxNow        \* bound: the clock

ASSUME StoreAssumption == MaxCommands \in Nat /\ MaxNow \in Nat

VARIABLES
    now,
    redis,     \* what Redis would hold: a value or a list under each key, and its date
    docs,      \* coordination_keys
    items,     \* coordination_items
    answers,   \* what the last command returned, from each store
    commands

storeVars == <<now, redis, docs, items, answers, commands>>

Keys == {"lock", "queue"}       \* one key of each kind, as the program names them
Never == -1
None == [kind |-> "none"]
Ttl == 2

Overdue(date) == date # Never /\ date <= now

----------------------------------------------------------------------------
(* Redis: a key past its date, or an empty list, does not exist *)

RedisLive(k) == redis[k] # None /\ ~Overdue(redis[k].date)
RedisGet(k) == IF RedisLive(k) THEN redis[k] ELSE None
RedisPut(k, list, date) ==
    redis' = [redis EXCEPT ![k] = IF list = <<>> THEN None ELSE [kind |-> "list", list |-> list, date |-> date]]

----------------------------------------------------------------------------
(* TransactionCommands *)

\* load: a document past its date is removed with its items before anything else.
Loaded(k) == IF docs[k] # None /\ Overdue(docs[k].date) THEN None ELSE docs[k]
Kept(k) == IF docs[k] # None /\ Overdue(docs[k].date) THEN {i \in items : i.key # k} ELSE items

Save(k, doc) == docs' = [docs EXCEPT ![k] = doc]
Drop(k) == docs' = [docs EXCEPT ![k] = None] /\ items' = {i \in items : i.key # k}

\* A list's document; a new one takes a generation of its own.
ListOf(k) == IF Loaded(k) # None THEN Loaded(k)
             ELSE [kind |-> "list", head |-> 0, tail |-> -1, generation |-> commands + 1, date |-> Never]
Length(doc) == doc.tail - doc.head + 1

\* A slip: an older list's items count as this list's.
BadOwnRows(k, doc) == {i \in Kept(k) : i.key = k}

OwnRows(k, doc) == {i \in Kept(k) : i.key = k /\ i.generation = doc.generation}

RowsAt(k, doc, from, to) == {i \in OwnRows(k, doc) : i.position \in from..to}
InOrder(rows) ==
    LET sorted == CHOOSE s \in [1..Cardinality(rows) -> rows] :
                    /\ IsInjective(s)
                    /\ \A m, n \in DOMAIN s : m < n => s[m].position <= s[n].position
    IN  [n \in DOMAIN sorted |-> sorted[n].value]

Both(a, b) == answers' = [mongo |-> a, redis |-> b] /\ commands' = commands + 1 /\ UNCHANGED now
Command == commands < MaxCommands

----------------------------------------------------------------------------
(* Values: locks and counters *)

\* SET key value EX ttl NX, as redisSetNx sends it.
SetNx(value) ==
    LET set == [kind |-> "value", value |-> value, date |-> now + Ttl] IN
    /\ Command
    /\ IF Loaded("lock") = None THEN Save("lock", set) ELSE UNCHANGED docs
    /\ IF RedisLive("lock") THEN UNCHANGED redis ELSE redis' = [redis EXCEPT !["lock"] = set]
    /\ items' = Kept("lock")
    /\ Both(Loaded("lock") = None, ~RedisLive("lock"))

Get ==
    /\ Command
    /\ items' = Kept("lock") /\ Save("lock", Loaded("lock")) /\ UNCHANGED redis
    /\ Both(Loaded("lock"), RedisGet("lock"))

\* incrBy: a counter keeps the date it has; one that is gone starts at nought,
\* with no date.
Bumped(old) == IF old = None THEN [kind |-> "value", value |-> 1, date |-> Never]
               ELSE [old EXCEPT !.value = @ + 1]
Incr ==
    /\ Command
    /\ items' = Kept("lock") /\ Save("lock", Bumped(Loaded("lock")))
    /\ redis' = [redis EXCEPT !["lock"] = Bumped(RedisGet("lock"))]
    /\ Both(Bumped(Loaded("lock")).value, Bumped(RedisGet("lock")).value)

Del(k) ==
    /\ Command /\ Drop(k) /\ redis' = [redis EXCEPT ![k] = None]
    /\ Both(Loaded(k) # None, RedisLive(k))

\* A slip: the items keep the date they had.
BadMoved(k, date) == Kept(k)

\* EXPIRE moves the date of a list's items along with its own.
Moved(k, date) ==
    {IF i \in OwnRows(k, ListOf(k)) THEN [i EXCEPT !.date = date] ELSE i : i \in Kept(k)}

Expire(k) ==
    /\ Command
    /\ IF Loaded(k) = None THEN items' = Kept(k) /\ Save(k, None)
       ELSE /\ Save(k, [Loaded(k) EXCEPT !.date = now + Ttl])
            /\ items' = (IF k = "queue" THEN Moved(k, now + Ttl) ELSE Kept(k))
    /\ redis' = IF RedisLive(k) THEN [redis EXCEPT ![k].date = now + Ttl] ELSE redis
    /\ Both(Loaded(k) # None, RedisLive(k))

TimeLeft(date) == IF date = Never THEN -1 ELSE date - now
TtlOf(k) ==
    /\ Command
    /\ items' = Kept(k) /\ Save(k, Loaded(k)) /\ UNCHANGED redis
    /\ Both(IF Loaded(k) = None THEN -2 ELSE TimeLeft(Loaded(k).date),
            IF RedisLive(k) THEN TimeLeft(redis[k].date) ELSE -2)

----------------------------------------------------------------------------
(* Lists *)

RedisList == IF RedisLive("queue") THEN redis["queue"].list ELSE <<>>
RedisDate == IF RedisLive("queue") THEN redis["queue"].date ELSE Never

Rpush(value) ==
    LET doc == ListOf("queue") IN
    /\ Command
    /\ Save("queue", [doc EXCEPT !.tail = @ + 1])
    /\ items' = Kept("queue") \cup {[key |-> "queue", generation |-> doc.generation,
                                     position |-> doc.tail + 1, value |-> value, date |-> doc.date]}
    /\ RedisPut("queue", Append(RedisList, value), RedisDate)
    /\ Both(Length(doc) + 1, Len(RedisList) + 1)

\* The first n items; fewer rows than the ends promise is an error.
Lrange(n) ==
    LET doc  == ListOf("queue")
        size == Min({n, Length(doc)})
        rows == RowsAt("queue", doc, doc.head, doc.head + size - 1)
    IN  /\ Command
        /\ items' = Kept("queue") /\ Save("queue", Loaded("queue")) /\ UNCHANGED redis
        /\ Both(IF Cardinality(rows) # size THEN <<"inconsistent">> ELSE InOrder(rows),
                SubSeq(RedisList, 1, Min({n, Len(RedisList)})))

\* LTRIM key n -1.
Ltrim(n) ==
    LET doc == ListOf("queue") IN
    /\ Command
    /\ IF n >= Length(doc) THEN Drop("queue")
       ELSE /\ items' = Kept("queue") \ (OwnRows("queue", doc)
                                           \ RowsAt("queue", doc, doc.head + n, doc.tail))
            /\ Save("queue", [doc EXCEPT !.head = @ + n])
    /\ RedisPut("queue", SubSeq(RedisList, n + 1, Len(RedisList)), RedisDate)
    /\ Both("OK", "OK")

Lpop ==
    LET doc  == ListOf("queue")
        rows == RowsAt("queue", doc, doc.head, doc.head)
    IN  /\ Command
        /\ IF Length(doc) = 0 THEN items' = Kept("queue") /\ Save("queue", Loaded("queue"))
           ELSE IF Length(doc) = 1 THEN Drop("queue")
           ELSE items' = Kept("queue") \ rows /\ Save("queue", [doc EXCEPT !.head = @ + 1])
        /\ IF RedisList = <<>> THEN UNCHANGED redis ELSE RedisPut("queue", Tail(RedisList), RedisDate)
        /\ Both(IF Length(doc) > 0 /\ rows = {} THEN <<"inconsistent">> ELSE InOrder(rows),
                SubSeq(RedisList, 1, Min({1, Len(RedisList)})))

----------------------------------------------------------------------------
(* Time, and the TTL index *)

Clock == /\ now < MaxNow /\ now' = now + 1
         /\ UNCHANGED <<redis, docs, items, answers, commands>>

PurgeDocument(k) ==
    /\ docs[k] # None /\ Overdue(docs[k].date) /\ Save(k, None)
    /\ UNCHANGED <<now, redis, items, answers, commands>>
PurgeItem ==
    \E i \in items : /\ Overdue(i.date) /\ items' = items \ {i}
                     /\ UNCHANGED <<now, redis, docs, answers, commands>>

StoreInit ==
    /\ now = 0 /\ redis = [k \in Keys |-> None] /\ docs = [k \in Keys |-> None]
    /\ items = {} /\ answers = [mongo |-> "OK", redis |-> "OK"] /\ commands = 0

StoreNext ==
    \/ SetNx(0) \/ Get \/ Incr \/ Lpop \/ Clock \/ PurgeItem
    \/ \E k \in Keys : Del(k) \/ Expire(k) \/ TtlOf(k) \/ PurgeDocument(k)
    \/ \E value \in {"x", "y"} : Rpush(value)
    \/ \E n \in 1..2 : Lrange(n) \/ Ltrim(n)

StoreSpec == StoreInit /\ [][StoreNext]_storeVars

----------------------------------------------------------------------------
(* Properties *)

\* redis/mongo.ts: MongoDB answers every command as Redis would, and holds the
\* same: a list whose document the TTL index took before its items, or after
\* some of them, is as gone as one whose date has passed, a list begun again
\* under the same key shows nothing of the old one, and an item never goes
\* before its list.
StoreAgrees ==
    /\ answers.mongo = answers.redis
    /\ Loaded("lock") = RedisGet("lock")
    /\ LET rows == OwnRows("queue", ListOf("queue")) IN
       /\ InOrder(rows) = RedisList
       /\ Loaded("queue") # None =>
            Loaded("queue").date = RedisDate /\ Cardinality(rows) = Length(Loaded("queue"))
=============================================================================
