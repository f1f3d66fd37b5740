------------------------- MODULE DatabaseConnection -------------------------
(***************************************************************************)
(* How a container comes by its database (src/lib/db/index.ts getDb and     *)
(* usageLogs, src/lib/db/mongo.ts connectMongo): one connection attempt     *)
(* that everybody who asks meanwhile waits for, a pause after a failure,    *)
(* and one attempt at the indexes of a month's usage collection.            *)
(*                                                                         *)
(* MongoDB is external: every request of it succeeds or fails.  Those who   *)
(* wait for one promise learn of its end in one turn of the event loop,     *)
(* before any other answer arrives; between the check of the pause and the  *)
(* use of the connection lies the import of the driver.                     *)
(***************************************************************************)
EXTENDS Naturals, FiniteSets

CONSTANTS
    Seekers,      \* requests that want the database
    MaxAttempts,  \* bound: connection attempts
    MaxBuilds,    \* bound: attempts at the usage indexes
    MaxSeconds    \* bound: the clock

ASSUME ConnectionAssumption ==
    MaxAttempts \in Nat /\ MaxBuilds \in Nat /\ MaxSeconds \in Nat

VARIABLES
    second,     \* the clock, from 1
    failedAt,   \* mongoFailedAt: 0 while the last attempt did not fail
    attempt,    \* __fbapiMongoConnecting: the attempt in progress, and how far it is
    tried,      \* attempts so far
    published,  \* __fbapiMongo: the attempt whose client is in use
    open,       \* attempts whose client is connected
    identity,   \* collections MongoDB has the unique indexes of, in ensureIndexes' order
    seeker,     \* where each request is, and the promise it awaits
    months,     \* ensuredUsageBuckets: the promise of the month's indexes
    builds,     \* state of each such promise
    usageIndexed  \* MongoDB has the month's indexes

connectionVars == <<second, failedAt, attempt, tried, published, open, identity,
                    seeker, months, builds, usageIndexed>>

Nobody == 0             \* no attempt, no promise
Collections == 2        \* two of the catalogue's
Pause == 2              \* 3 s in the code
NoAttempt == [stage |-> "none", id |-> Nobody]
Away == [at |-> "away", awaits |-> Nobody]

ConnectionInit ==
    /\ second = 1 /\ failedAt = 0
    /\ attempt = NoAttempt /\ tried = 0
    /\ published = Nobody /\ open = {} /\ identity = 0
    /\ seeker = [c \in Seekers |-> Away]
    /\ months = Nobody /\ builds = [b \in 1..MaxBuilds |-> "none"] /\ usageIndexed = FALSE

Becomes(c, where, promise) == seeker' = [seeker EXCEPT ![c] = [at |-> where, awaits |-> promise]]
\* Everybody who waits for the connection goes the same way.
AllBecome(where) ==
    seeker' = [c \in Seekers |-> IF seeker[c].at = "waiting" THEN [Away EXCEPT !.at = where]
                                 ELSE seeker[c]]

(* getDb up to its await: refused within the pause after a failure. *)
GetDb(c) ==
    /\ seeker[c].at = "away"
    /\ failedAt # 0 => second - failedAt >= Pause
    /\ Becomes(c, "importing", Nobody)
    /\ UNCHANGED <<second, failedAt, attempt, tried, published, open, identity,
                    months, builds, usageIndexed>>

(* connectMongo: the client in use, else the attempt in progress, else a new one. *)
Connect(c) ==
    /\ seeker[c].at = "importing"
    /\ IF published # Nobody
       THEN Becomes(c, "connected", Nobody) /\ failedAt' = 0 /\ UNCHANGED <<attempt, tried>>
       ELSE /\ Becomes(c, "waiting", Nobody) /\ UNCHANGED failedAt
            /\ \/ attempt.stage # "none" /\ UNCHANGED <<attempt, tried>>
               \/ /\ attempt.stage = "none" /\ tried < MaxAttempts
                  /\ tried' = tried + 1
                  /\ attempt' = [stage |-> "connecting", id |-> tried + 1]
    /\ UNCHANGED <<second, published, open, identity, months, builds, usageIndexed>>

(* client.connect() *)
Connected ==
    /\ attempt.stage = "connecting"
    /\ attempt' = [attempt EXCEPT !.stage = "indexing"]
    /\ open' = open \cup {attempt.id}
    /\ UNCHANGED <<second, failedAt, tried, published, identity, seeker,
                    months, builds, usageIndexed>>

(* ensureIndexes: collection after collection. *)
Index ==
    /\ attempt.stage = "indexing" /\ identity < Collections
    /\ identity' = identity + 1
    /\ UNCHANGED <<second, failedAt, attempt, tried, published, open, seeker,
                    months, builds, usageIndexed>>

\* A slip: the client is published as soon as it is connected.
BadReady == attempt.stage = "indexing"
Ready == attempt.stage = "indexing" /\ identity = Collections

Publish ==
    /\ Ready
    /\ published' = attempt.id /\ attempt' = NoAttempt
    /\ failedAt' = 0 /\ AllBecome("connected")
    /\ UNCHANGED <<second, tried, open, identity, months, builds, usageIndexed>>

(* The connection or an index failed: the client is closed, and then the     *)
(* attempt is over for everybody who waits.                                  *)
Break ==
    /\ attempt.stage \in {"connecting", "indexing"}
    /\ attempt' = [attempt EXCEPT !.stage = "closing"]
    /\ UNCHANGED <<second, failedAt, tried, published, open, identity, seeker,
                    months, builds, usageIndexed>>

GiveUp ==
    /\ attempt.stage = "closing"
    /\ open' = open \ {attempt.id} /\ attempt' = NoAttempt
    /\ failedAt' = second /\ AllBecome("away")
    /\ UNCHANGED <<second, tried, published, identity, months, builds, usageIndexed>>

(* usageLogs: the month's promise, or a new one. *)
AskMonth(c) ==
    /\ seeker[c].at = "connected"
    /\ \/ months # Nobody /\ Becomes(c, "ensuring", months) /\ UNCHANGED <<months, builds>>
       \/ /\ months = Nobody
          /\ \E b \in 1..MaxBuilds :
               /\ builds[b] = "none" /\ \A earlier \in 1..(b - 1) : builds[earlier] # "none"
               /\ months' = b /\ builds' = [builds EXCEPT ![b] = "building"]
               /\ Becomes(c, "ensuring", b)
    /\ UNCHANGED <<second, failedAt, attempt, tried, published, open, identity, usageIndexed>>

(* createIndexes on the month's collection. *)
Build(b) ==
    /\ builds[b] = "building"
    /\ \/ builds' = [builds EXCEPT ![b] = "built"] /\ usageIndexed' = TRUE
       \/ builds' = [builds EXCEPT ![b] = "failed"] /\ UNCHANGED usageIndexed
    /\ UNCHANGED <<second, failedAt, attempt, tried, published, open, identity, seeker, months>>

\* A slip: whoever learns of a failure forgets the promise there is by now.
BadForget(promise) == Nobody
Forget(promise) == IF months = promise THEN Nobody ELSE months

(* The collection is handed out once its indexes exist; a failed promise is  *)
(* forgotten by the first who learns of it.                                  *)
Resume(c) ==
    /\ seeker[c].at = "ensuring"
    /\ LET promise == seeker[c].awaits IN
       \/ builds[promise] = "built" /\ Becomes(c, "serving", Nobody) /\ UNCHANGED months
       \/ /\ builds[promise] = "failed"
          /\ seeker' = [seeker EXCEPT ![c] = Away] /\ months' = Forget(promise)
    /\ UNCHANGED <<second, failedAt, attempt, tried, published, open, identity,
                    builds, usageIndexed>>

(* The request is through with the database. *)
Depart(c) ==
    /\ seeker[c].at \in {"connected", "serving"}
    /\ seeker' = [seeker EXCEPT ![c] = Away]
    /\ UNCHANGED <<second, failedAt, attempt, tried, published, open, identity,
                    months, builds, usageIndexed>>

Wait ==
    /\ second < MaxSeconds /\ second' = second + 1
    /\ UNCHANGED <<failedAt, attempt, tried, published, open, identity, seeker,
                    months, builds, usageIndexed>>

ConnectionNext ==
    \/ \E c \in Seekers : GetDb(c) \/ Connect(c) \/ AskMonth(c) \/ Resume(c) \/ Depart(c)
    \/ Connected \/ Index \/ Publish \/ Break \/ GiveUp
    \/ \E b \in 1..MaxBuilds : Build(b)
    \/ Wait

ConnectionSpec == ConnectionInit /\ [][ConnectionNext]_connectionVars

(***************************************************************************)
(* Properties                                                               *)
(***************************************************************************)
(* db/indexes.ts: the unique indexes enforce what billing relies on, so      *)
(* nobody writes before they exist ("never silently skip uniqueness          *)
(* enforcement").  db/mongo.ts: a container has at most one client open,     *)
(* also after attempts that failed midway, and once it has one, a failure    *)
(* of the past refuses nobody.  A month's indexes are built by one at a time.*)
DatabaseIsReady ==
    /\ \A c \in Seekers :
         /\ seeker[c].at \in {"connected", "ensuring", "serving"} => identity = Collections
         /\ seeker[c].at = "serving" => usageIndexed
    /\ open \subseteq {attempt.id, published} \ {Nobody}
    /\ published # Nobody => open = {published} /\ failedAt = 0
    /\ Cardinality({b \in 1..MaxBuilds : builds[b] = "building"}) <= 1
=============================================================================
