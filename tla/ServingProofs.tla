--------------------------- MODULE ServingProofs ----------------------------
(***************************************************************************)
(* Proofs about the components a request is served by: the check of its    *)
(* key, the reading of its body, the choice of its channels, what is sent  *)
(* upstream, the call and the metering of what the provider reports.       *)
(***************************************************************************)
EXTENDS KeyAccess, ChannelRouting, Exchanges, ProviderRequest, Metering,
        SumLemmas, FiniteSetTheorems, SequenceTheorems, TLAPS

(***************************************************************************)
(* KeyAccess.  Proof that a key admitted was good at some moment of its    *)
(* call, for any number of callers, rotations and console writes.          *)
(*                                                                         *)
(* The cache plays no part in it: nothing is said of `entry`.  A caller    *)
(* that has read one row of the recheck carries what it read, and the      *)
(* history `lived` has it, because every step of anybody looks at the rows *)
(* as they are then.                                                       *)
(***************************************************************************)

Places == {"idle", "lookup", "token", "owner soon", "owner never", "refuse",
           "fill soon", "fill never", "recheck", "token good", "owner good",
           "bad", "admitted"}
Claims == [key : Keys, at : Places]
Lives == [key : BOOLEAN, owner : BOOLEAN]

KeyRead == {"token good", "admitted"}
OwnerRead == {"owner good", "admitted"}

\* What a caller found good in its recheck was good in its call.
Lived(r) ==
    /\ caller[r].at \in KeyRead => lived[r].key
    /\ caller[r].at \in OwnerRead => lived[r].owner

AccessInv ==
    /\ caller \in [Callers -> Claims]
    /\ lived \in [Callers -> Lives]
    /\ \A r \in Callers : Lived(r)

\* What a step does to a caller: it gets past a read only if what is read is
\* good now.
Proceeds(r) ==
    /\ caller'[r].at \in KeyRead =>
          Good(token', caller'[r].key, late') \/ caller[r].at \in KeyRead
    /\ caller'[r].at \in OwnerRead =>
          owner' = "enabled" \/ caller[r].at \in OwnerRead

-----------------------------------------------------------------------------
LEMMA WatchKeeps ==
    ASSUME AccessInv, Watch, caller' \in [Callers -> Claims],
           \A r \in Callers : Proceeds(r)
    PROVE  AccessInv'
<1>1. lived' \in [Callers -> Lives]
  BY DEF Watch, Lives, AccessInv, Good, Expired
<1>2. ASSUME NEW r \in Callers PROVE Lived(r)'
  <2>1. CASE caller'[r].at = "idle"
    BY <2>1 DEF Lived, KeyRead, OwnerRead
  <2>2. CASE caller'[r].at # "idle"
    <3>1. /\ lived'[r].key = (lived[r].key \/ Good(token', caller'[r].key, late'))
          /\ lived'[r].owner = (lived[r].owner \/ owner' = "enabled")
      BY <2>2 DEF Watch
    <3>2. Proceeds(r) /\ Lived(r)
      BY DEF AccessInv
    <3> QED BY <3>1, <3>2 DEF Proceeds, Lived
  <2> QED BY <2>1, <2>2
<1> QED BY <1>1, <1>2 DEF AccessInv

LEMMA CallersStayThemselves ==
    ASSUME AccessInv, UNCHANGED caller
    PROVE  caller' \in [Callers -> Claims] /\ \A r \in Callers : Proceeds(r)
BY DEF AccessInv, Proceeds

\* A step of one caller to a place, and out.
LEMMA CallerMoves ==
    ASSUME AccessInv, NEW r \in Callers, NEW place \in Places, Moves(r, place),
           place \in KeyRead => Good(token', caller[r].key, late') \/ caller[r].at \in KeyRead,
           place \in OwnerRead => owner' = "enabled" \/ caller[r].at \in OwnerRead
    PROVE  caller' \in [Callers -> Claims] /\ \A s \in Callers : Proceeds(s)
<1>1. caller' = [caller EXCEPT ![r] = [key |-> caller[r].key, at |-> place]]
  <2>1. caller[r] \in Claims
    BY DEF AccessInv
  <2>2. [caller[r] EXCEPT !.at = place] = [key |-> caller[r].key, at |-> place]
    BY <2>1 DEF Claims
  <2>3. caller' = [caller EXCEPT ![r] = [caller[r] EXCEPT !.at = place]]
    BY DEF Moves
  <2> QED BY <2>2, <2>3
<1>2. caller' \in [Callers -> Claims]
  BY <1>1 DEF AccessInv, Claims
<1>3. caller'[r] = [key |-> caller[r].key, at |-> place] /\ \A s \in Callers \ {r} : caller'[s] = caller[s]
  BY <1>1 DEF AccessInv
<1> QED BY <1>2, <1>3 DEF Proceeds

LEMMA CallerLeaves ==
    ASSUME AccessInv, NEW r \in Callers, Rejected(r)
    PROVE  caller' \in [Callers -> Claims] /\ \A s \in Callers : Proceeds(s)
<1>1. 0 \in Keys
  BY AccessAssumption DEF Keys
<1>2. caller' \in [Callers -> Claims]
  BY <1>1 DEF Rejected, AccessInv, Claims, Places
<1>3. caller'[r].at = "idle" /\ \A s \in Callers \ {r} : caller'[s] = caller[s]
  BY DEF Rejected, AccessInv
<1> QED BY <1>2, <1>3 DEF Proceeds, KeyRead, OwnerRead

-----------------------------------------------------------------------------
LEMMA PresentIsSafe == ASSUME AccessInv, NEW r \in Callers, Present(r) PROVE AccessInv'
<1>1. PICK k \in Keys : caller' = [caller EXCEPT ![r] = [at |-> "lookup", key |-> k]]
  BY DEF Present
<1>2. caller' \in [Callers -> Claims]
  BY <1>1 DEF AccessInv, Claims, Places
<1>3. caller'[r].at = "lookup" /\ \A s \in Callers \ {r} : caller'[s] = caller[s]
  BY <1>1 DEF AccessInv
<1>4. \A s \in Callers : Proceeds(s)
  BY <1>3 DEF Proceeds, KeyRead, OwnerRead
<1>5. Watch
  BY DEF Present
<1> QED BY <1>2, <1>4, <1>5, WatchKeeps

\* loadIdentity's steps end nowhere near the recheck's.
LEMMA LoadingIsSafe ==
    ASSUME AccessInv, NEW r \in Callers,
           LookUp(r) \/ ReadToken(r) \/ ReadOwner(r) \/ Fill(r) \/ FillMiss(r) \/ Leave(r)
    PROVE  AccessInv'
<1>1. Watch
  BY DEF LookUp, ReadToken, ReadOwner, Fill, FillMiss, Leave
<1>2. \/ Rejected(r)
      \/ \E place \in Places \ (KeyRead \cup OwnerRead) : Moves(r, place)
  <2>1. CASE LookUp(r)
    BY <2>1 DEF LookUp, Places, KeyRead, OwnerRead
  <2>2. CASE ReadToken(r)
    BY <2>2 DEF ReadToken, Places, KeyRead, OwnerRead
  <2>3. CASE ReadOwner(r)
    BY <2>3 DEF ReadOwner, Places, KeyRead, OwnerRead
  <2>4. CASE Fill(r)
    BY <2>4 DEF Fill, Places, KeyRead, OwnerRead
  <2>5. CASE FillMiss(r) \/ Leave(r)
    BY <2>5 DEF FillMiss, Leave
  <2> QED BY <2>1, <2>2, <2>3, <2>4, <2>5
<1>3. CASE Rejected(r)
  BY <1>1, <1>3, CallerLeaves, WatchKeeps
<1>4. CASE \E place \in Places \ (KeyRead \cup OwnerRead) : Moves(r, place)
  <2>1. PICK place \in Places \ (KeyRead \cup OwnerRead) : Moves(r, place)
    BY <1>4
  <2>2. caller' \in [Callers -> Claims] /\ \A s \in Callers : Proceeds(s)
    BY <2>1, CallerMoves
  <2> QED BY <1>1, <2>2, WatchKeeps
<1> QED BY <1>2, <1>3, <1>4

\* The recheck: what is read is good when it is read, and the other row's word
\* is on the history.
LEMMA RecheckIsSafe ==
    ASSUME AccessInv, NEW r \in Callers, RecheckToken(r) \/ RecheckOwner(r)
    PROVE  AccessInv'
<1>1. Watch /\ UNCHANGED <<token, owner, late>>
  BY DEF RecheckToken, RecheckOwner, rows
<1>2. \/ Rejected(r)
      \/ Moves(r, "bad")
      \/ Moves(r, "token good") /\ StillGood(r)
      \/ Moves(r, "owner good") /\ owner = "enabled"
      \/ Moves(r, "admitted") /\ caller[r].at = "owner good" /\ StillGood(r)
      \/ Moves(r, "admitted") /\ caller[r].at = "token good" /\ owner = "enabled"
  BY DEF RecheckToken, RecheckOwner
<1>3. StillGood(r) => Good(token', caller[r].key, late')
  BY <1>1 DEF StillGood
<1>4. caller' \in [Callers -> Claims] /\ \A s \in Callers : Proceeds(s)
  <2>1. CASE Rejected(r)
    BY <2>1, CallerLeaves
  <2>2. CASE Moves(r, "bad")
    BY <2>2, CallerMoves DEF Places, KeyRead, OwnerRead
  <2>3. CASE Moves(r, "token good") /\ StillGood(r)
    BY <1>3, <2>3, CallerMoves DEF Places, KeyRead, OwnerRead
  <2>4. CASE Moves(r, "owner good") /\ owner = "enabled"
    BY <1>1, <2>4, CallerMoves DEF Places, KeyRead, OwnerRead
  <2>5. CASE Moves(r, "admitted") /\ caller[r].at = "owner good" /\ StillGood(r)
    BY <1>3, <2>5, CallerMoves DEF Places, KeyRead, OwnerRead
  <2>6. CASE Moves(r, "admitted") /\ caller[r].at = "token good" /\ owner = "enabled"
    BY <1>1, <2>6, CallerMoves DEF Places, KeyRead, OwnerRead
  <2> QED BY <1>2, <2>1, <2>2, <2>3, <2>4, <2>5, <2>6
<1> QED BY <1>1, <1>4, WatchKeeps

\* What the console, the cron and time do leaves the callers where they are.
LEMMA OthersAreSafe ==
    ASSUME AccessInv,
           \/ UpdateToken \/ RotateToken \/ UpdateUser \/ Invalidate
           \/ SweepReads \/ SweepDisables \/ DeadlinePasses
           \/ \E k \in Keys : EntryExpires(k)
    PROVE  AccessInv'
<1>1. Watch /\ UNCHANGED caller
  BY DEF UpdateToken, RotateToken, UpdateUser, Invalidate, SweepReads, SweepDisables,
         DeadlinePasses, EntryExpires
<1> QED BY <1>1, CallersStayThemselves, WatchKeeps

-----------------------------------------------------------------------------
LEMMA AccessInvariant == AccessInit /\ [][AccessNext]_accessVars => []AccessInv
<1>1. AccessInit => AccessInv
  <2>1. 0 \in Keys
    BY AccessAssumption DEF Keys
  <2>2. [key |-> FALSE, owner |-> FALSE] \in Lives
    BY DEF Lives
  <2>3. [at |-> "idle", key |-> 0] \in Claims
    BY <2>1 DEF Claims, Places
  <2> SUFFICES ASSUME AccessInit PROVE AccessInv
    OBVIOUS
  <2>4. caller \in [Callers -> Claims] /\ lived \in [Callers -> Lives]
    BY <2>2, <2>3 DEF AccessInit
  <2>5. \A r \in Callers : caller[r].at = "idle"
    BY DEF AccessInit
  <2> QED BY <2>4, <2>5 DEF AccessInv, Lived, KeyRead, OwnerRead
<1>2. AccessInv /\ [AccessNext]_accessVars => AccessInv'
  <2> SUFFICES ASSUME AccessInv, [AccessNext]_accessVars PROVE AccessInv'
    OBVIOUS
  <2>1. ASSUME NEW r \in Callers, Present(r) \/ CallStep(r) PROVE AccessInv'
    BY <2>1, PresentIsSafe, LoadingIsSafe, RecheckIsSafe DEF CallStep
  <2>2. CASE UNCHANGED accessVars
    BY <2>2 DEF accessVars, AccessInv, Lived
  <2> QED BY <2>1, <2>2, OthersAreSafe DEF AccessNext
<1> QED BY <1>1, <1>2, PTL

\* auth/authenticate.ts: "Cached data is a lookup hint, never a revocation/
\* authority decision": whatever the cache holds, a key admitted was enabled,
\* current and unexpired at a moment of its call, and its owner enabled.
THEOREM AdmittedWasAlwaysGood == AccessSpec => []AdmittedWasGood
<1>1. AccessInv => AdmittedWasGood
  BY DEF AccessInv, Lived, AdmittedWasGood, KeyRead, OwnerRead
<1> QED BY <1>1, AccessInvariant, PTL DEF AccessSpec

(***************************************************************************)
(* ChannelRouting.  Proof that a request is only served over channels that *)
(* served at some time since it came in, each attempt over another, for    *)
(* any channels, priorities, requests, thresholds and edits.               *)
(*                                                                         *)
(* The candidates a request is offered are of any age.  What protects it   *)
(* is the row read after the election; the invariant says that every       *)
(* channel whose row is enabled now is one the request may have seen       *)
(* serving, and that the pool it elects from holds no channel it tried.    *)
(***************************************************************************)

Steps == {"idle", "select", "verify", "key", "attempt", "disable", "again"}
Elected == {"key", "attempt", "disable", "again"}
Results == {"none", "fatal", "retryable"}
Routings == [at : Steps, attempt : Nat, tried : SUBSET Channels, pool : SUBSET Channels,
           channel : Channels \cup {NoChannel}, result : Results, served : SUBSET Channels]

\* How far a route is, and what it stands on; Now is the channels that serve.
Sound(rt, now) ==
    /\ rt \in Routings
    /\ IsFiniteSet(rt.tried) /\ Cardinality(rt.tried) = rt.attempt
    /\ rt.pool \cap rt.tried = {}
    /\ rt.at # "idle" => now \subseteq rt.served
    /\ rt.at \in Elected => rt.channel \in rt.served \ rt.tried
    /\ rt.at \notin Elected => rt.channel = NoChannel

Serving == {c \in Channels : Serves(c)}

RoutingInv ==
    /\ channelRow \in [Channels -> Rows]
    /\ route \in [Requests -> Routings]
    /\ \A r \in Requests : Sound(route[r], Serving)

-----------------------------------------------------------------------------
(* Routes.                                                                 *)

\* Updates of a route, field by field.
Route(place, rt, pool, channel, result, served) ==
    [at |-> place, attempt |-> rt.attempt, tried |-> rt.tried, pool |-> pool,
     channel |-> channel, result |-> result, served |-> served]

LEMMA OneField ==
    ASSUME NEW rt \in Routings, NEW v
    PROVE  /\ [rt EXCEPT !.at = v] = Route(v, rt, rt.pool, rt.channel, rt.result, rt.served)
           /\ [rt EXCEPT !.pool = v] = Route(rt.at, rt, v, rt.channel, rt.result, rt.served)
           /\ [rt EXCEPT !.channel = v] = Route(rt.at, rt, rt.pool, v, rt.result, rt.served)
           /\ [rt EXCEPT !.result = v] = Route(rt.at, rt, rt.pool, rt.channel, v, rt.served)
           /\ [rt EXCEPT !.served = v] = Route(rt.at, rt, rt.pool, rt.channel, rt.result, v)
BY DEF Routings, Route

LEMMA Placed ==
    ASSUME NEW rt \in Routings, NEW place \in Steps, NEW v
    PROVE  [rt EXCEPT !.at = place, !.pool = v] =
               Route(place, rt, v, rt.channel, rt.result, rt.served)
<1> DEFINE there == [rt EXCEPT !.at = place]
<1>1. there = Route(place, rt, rt.pool, rt.channel, rt.result, rt.served)
  BY OneField
<1>2. there \in Routings
  BY <1>1 DEF Routings, Route
<1>3. [rt EXCEPT !.at = place, !.pool = v] = [there EXCEPT !.pool = v]
  OBVIOUS
<1>4. [there EXCEPT !.pool = v] =
          Route(there.at, there, v, there.channel, there.result, there.served)
  BY <1>2, OneField
<1> HIDE DEF there
<1> QED BY <1>1, <1>3, <1>4 DEF Route

LEMMA Begun ==
    ASSUME NEW rt \in Routings, NEW place \in Steps, NEW v
    PROVE  [rt EXCEPT !.at = place, !.served = v] =
               Route(place, rt, rt.pool, rt.channel, rt.result, v)
<1> DEFINE there == [rt EXCEPT !.at = place]
<1>1. there = Route(place, rt, rt.pool, rt.channel, rt.result, rt.served)
  BY OneField
<1>2. there \in Routings
  BY <1>1 DEF Routings, Route
<1>3. [rt EXCEPT !.at = place, !.served = v] = [there EXCEPT !.served = v]
  OBVIOUS
<1>4. [there EXCEPT !.served = v] =
          Route(there.at, there, there.pool, there.channel, there.result, v)
  BY <1>2, OneField
<1> HIDE DEF there
<1> QED BY <1>1, <1>3, <1>4 DEF Route

LEMMA Judged ==
    ASSUME NEW rt \in Routings, NEW place, NEW result \in Results
    PROVE  [rt EXCEPT !.result = result, !.at = place] =
               Route(place, rt, rt.pool, rt.channel, result, rt.served)
<1> DEFINE known == [rt EXCEPT !.result = result]
<1>1. known = Route(rt.at, rt, rt.pool, rt.channel, result, rt.served)
  BY OneField
<1>2. known \in Routings
  BY <1>1 DEF Routings, Route
<1>3. [rt EXCEPT !.result = result, !.at = place] = [known EXCEPT !.at = place]
  OBVIOUS
<1>4. [known EXCEPT !.at = place] = Route(place, known, known.pool, known.channel, known.result, known.served)
  BY <1>2, OneField
<1> HIDE DEF known
<1> QED BY <1>1, <1>3, <1>4 DEF Route

LEMMA Chosen ==
    ASSUME NEW rt \in Routings, NEW place \in Steps, NEW c
    PROVE  [rt EXCEPT !.at = place, !.pool = {}, !.channel = c] =
               Route(place, rt, {}, c, rt.result, rt.served)
<1> DEFINE there == [rt EXCEPT !.at = place, !.pool = {}]
<1>1. there = Route(place, rt, {}, rt.channel, rt.result, rt.served)
  BY Placed
<1>2. there \in Routings
  BY <1>1 DEF Routings, Route
<1>3. [rt EXCEPT !.at = place, !.pool = {}, !.channel = c] = [there EXCEPT !.channel = c]
  OBVIOUS
<1>4. [there EXCEPT !.channel = c] = Route(there.at, there, there.pool, c, there.result, there.served)
  BY <1>2, OneField
<1> HIDE DEF there
<1> QED BY <1>1, <1>3, <1>4 DEF Route

LEMMA NewIsSound == ASSUME NEW now PROVE Sound(NewRoute, now) /\ NewRoute.at = "idle"
BY FS_EmptySet DEF NewRoute, Sound, Routings, Steps, Results, Elected

\* One attempt more, over a channel not tried before.
LEMMA ExcludedIsSound ==
    ASSUME NEW rt, NEW now, Sound(rt, now), rt.at \in Elected
    PROVE  Sound(Exclude(rt), now)
<1>1. CASE rt.attempt + 1 = MaxAttempts
  BY <1>1, NewIsSound DEF Exclude
<1>2. CASE rt.attempt + 1 # MaxAttempts
  <2> DEFINE more == rt.tried \cup {rt.channel}
             next == [at |-> "select", attempt |-> rt.attempt + 1, tried |-> more, pool |-> {},
                      channel |-> NoChannel, result |-> "none", served |-> rt.served]
  <2>1. Exclude(rt) = next
    BY <1>2 DEF Exclude, NewRoute
  <2>2. IsFiniteSet(rt.tried) /\ rt.channel \notin rt.tried
    BY DEF Sound
  <2>3. IsFiniteSet(more) /\ Cardinality(more) = rt.attempt + 1
    BY <2>2, FS_AddElement DEF Sound
  <2>4. next \in Routings
    BY DEF Sound, Routings, Steps, Results
  <2>5. now \subseteq rt.served
    BY DEF Sound, Elected
  <2> HIDE DEF more
  <2> QED BY <2>1, <2>3, <2>4, <2>5 DEF Sound, Elected
<1> QED BY <1>1, <1>2

\* A route changes, the rows stay.
LEMMA OneRouteMoves ==
    ASSUME RoutingInv, UNCHANGED channelRow, NEW r \in Requests, NEW rt,
           route' = [route EXCEPT ![r] = rt], Sound(rt, Serving)
    PROVE  RoutingInv'
<1>1. Serving' = Serving
  BY DEF Serving, Serves
<1>2. rt \in Routings
  BY DEF Sound
<1>3. \A s \in Requests : route'[s] = IF s = r THEN rt ELSE route[s]
  BY DEF RoutingInv
<1>4. \A s \in Requests : Sound(route'[s], Serving)
  BY <1>3 DEF RoutingInv
<1>5. \A s \in Requests : Sound(route[s], Serving)'
  BY <1>1, <1>4 DEF Sound
<1> QED BY <1>2, <1>5 DEF RoutingInv

\* Rows change and routes do not: nothing begins to serve.
LEMMA RowsStopServing ==
    ASSUME RoutingInv, UNCHANGED route, channelRow' \in [Channels -> Rows],
           Serving' \subseteq Serving
    PROVE  RoutingInv'
<1>1. \A r \in Requests : Sound(route[r], Serving)'
  BY DEF RoutingInv, Sound
<1> QED BY <1>1 DEF RoutingInv

-----------------------------------------------------------------------------
(* The steps.                                                              *)

LEMMA ElectIsSound == ASSUME RoutingInv, NEW r \in Requests, Elect(r) PROVE RoutingInv'
<1> UNCHANGED channelRow
  BY DEF Elect, channelRows
<1>0. route \in [Requests -> Routings] /\ Sound(route[r], Serving) /\ route[r].at = "select"
  BY DEF RoutingInv, Elect
<1>1. PICK offered \in SUBSET Channels :
        \/ Done(r)
        \/ route' = [route EXCEPT ![r].at = "verify",
                                  ![r].pool = (offered \ route[r].tried) \ open]
  BY DEF Elect
<1>2. CASE Done(r)
  BY <1>2, NewIsSound, OneRouteMoves DEF Done
<1>3. CASE route' = [route EXCEPT ![r].at = "verify",
                                  ![r].pool = (offered \ route[r].tried) \ open]
  <2> DEFINE pool == (offered \ route[r].tried) \ open
             rt == Route("verify", route[r], pool, route[r].channel, route[r].result,
                         route[r].served)
  <2> HIDE DEF pool
  <2>1. route' = [route EXCEPT ![r] = rt]
    <3>1. route' = [route EXCEPT ![r] = [route[r] EXCEPT !.at = "verify", !.pool = pool]]
      BY <1>3 DEF pool
    <3>2. route[r] \in Routings /\ "verify" \in Steps
      BY <1>0 DEF Steps
    <3>3. [route[r] EXCEPT !.at = "verify", !.pool = pool] = rt
      BY <3>2, Placed
    <3> QED BY <3>1, <3>3
  <2>2. Sound(rt, Serving)
    BY <1>0 DEF Sound, Routings, Route, Steps, Elected, pool
  <2> QED BY <2>1, <2>2, OneRouteMoves
<1> QED BY <1>1, <1>2, <1>3

\* The row read after the election decides: a channel that serves now is one the
\* request may have seen serving.
LEMMA VerifyIsSound == ASSUME RoutingInv, NEW r \in Requests, Verify(r) PROVE RoutingInv'
<1> UNCHANGED channelRow
  BY DEF Verify, channelRows
<1>0. route \in [Requests -> Routings] /\ Sound(route[r], Serving) /\ route[r].at = "verify"
  BY DEF RoutingInv, Verify
<1>1. PICK c \in route[r].pool :
        \/ /\ Serves(c)
           /\ route' = [route EXCEPT ![r].at = "key", ![r].pool = {}, ![r].channel = c]
        \/ Done(r)
        \/ route' = [route EXCEPT ![r].pool = @ \ {c}]
  BY DEF Verify, ElectFrom
<1>2. CASE Serves(c) /\ route' = [route EXCEPT ![r].at = "key", ![r].pool = {}, ![r].channel = c]
  <2> DEFINE rt == Route("key", route[r], {}, c, route[r].result, route[r].served)
  <2>1. route' = [route EXCEPT ![r] = rt]
    <3>1. route' = [route EXCEPT ![r] =
                       [route[r] EXCEPT !.at = "key", !.pool = {}, !.channel = c]]
      BY <1>2
    <3>2. route[r] \in Routings /\ "key" \in Steps
      BY <1>0 DEF Steps
    <3>3. [route[r] EXCEPT !.at = "key", !.pool = {}, !.channel = c] = rt
      BY <3>2, Chosen
    <3> QED BY <3>1, <3>3
  <2>2. c \in Channels /\ c \in Serving /\ c \notin route[r].tried
    BY <1>0, <1>2 DEF Sound, Routings, Serving
  <2>3. Sound(rt, Serving)
    BY <1>0, <2>2 DEF Sound, Routings, Route, Steps, Elected
  <2> QED BY <2>1, <2>3, OneRouteMoves
<1>3. CASE Done(r)
  BY <1>3, NewIsSound, OneRouteMoves DEF Done
<1>4. CASE route' = [route EXCEPT ![r].pool = @ \ {c}]
  <2> DEFINE pool == route[r].pool \ {c}
             rt == Route(route[r].at, route[r], pool, route[r].channel, route[r].result,
                         route[r].served)
  <2>1. route' = [route EXCEPT ![r] = rt]
    <3>1. route' = [route EXCEPT ![r] = [route[r] EXCEPT !.pool = pool]]
      BY <1>4
    <3>2. [route[r] EXCEPT !.pool = pool] = rt
      BY <1>0, OneField
    <3> QED BY <3>1, <3>2
  <2>2. Sound(rt, Serving)
    BY <1>0 DEF Sound, Routings, Route, Steps, Elected
  <2> QED BY <2>1, <2>2, OneRouteMoves
<1> QED BY <1>1, <1>2, <1>3, <1>4

LEMMA StartIsSound == ASSUME RoutingInv, NEW r \in Requests, Start(r) PROVE RoutingInv'
<1> UNCHANGED channelRow
  BY DEF Start, channelRows
<1> DEFINE rt == Route("select", NewRoute, {}, NoChannel, "none", Serving)
<1>1. route' = [route EXCEPT ![r] = rt]
  <2>1. NewRoute \in Routings /\ "select" \in Steps
    BY NewIsSound DEF Sound, Steps
  <2>2. [NewRoute EXCEPT !.at = "select", !.served = Serving] =
            Route("select", NewRoute, NewRoute.pool, NewRoute.channel, NewRoute.result, Serving)
    BY <2>1, Begun
  <2>3. NewRoute.pool = {} /\ NewRoute.channel = NoChannel /\ NewRoute.result = "none"
    BY DEF NewRoute
  <2>4. route' = [route EXCEPT ![r] = [NewRoute EXCEPT !.at = "select", !.served = Serving]]
    BY DEF Start, Serving, Serves
  <2> QED BY <2>2, <2>3, <2>4
<1>2. Sound(rt, Serving)
  BY FS_EmptySet DEF Sound, Routings, Route, NewRoute, Steps, Results, Elected, Serving
<1> HIDE DEF rt
<1> QED BY <1>1, <1>2, OneRouteMoves

\* A step inside an attempt changes where the route is and how it went.
LEMMA WithinAttempt ==
    ASSUME RoutingInv, NEW r \in Requests, route[r].at \in Elected,
           NEW place \in Elected, NEW result \in Results
    PROVE  Sound(Route(place, route[r], route[r].pool, route[r].channel, result,
                       route[r].served), Serving)
<1>1. Sound(route[r], Serving)
  BY DEF RoutingInv
<1> QED BY <1>1 DEF Sound, Routings, Route, Steps, Elected

LEMMA PickKeyIsSound == ASSUME RoutingInv, NEW r \in Requests, PickKey(r) PROVE RoutingInv'
<1> UNCHANGED channelRow
  BY DEF PickKey, channelRows
<1>0. /\ route \in [Requests -> Routings] /\ Sound(route[r], Serving)
      /\ route[r].at = "key" /\ route[r].at \in Elected
  BY DEF RoutingInv, PickKey, Elected
<1> DEFINE rt == Route("attempt", route[r], route[r].pool, route[r].channel,
                       route[r].result, route[r].served)
<1>1. \/ route' = [route EXCEPT ![r] = rt]
      \/ route' = [route EXCEPT ![r] = Exclude(route[r])]
  <2>1. [route[r] EXCEPT !.at = "attempt"] = rt
    BY <1>0, OneField
  <2> QED BY <2>1 DEF PickKey
<1>2. Sound(rt, Serving)
  BY <1>0, WithinAttempt DEF Elected, Routings
<1>3. Sound(Exclude(route[r]), Serving)
  BY <1>0, ExcludedIsSound
<1> HIDE DEF rt
<1> QED BY <1>1, <1>2, <1>3, OneRouteMoves

LEMMA AttemptIsSound == ASSUME RoutingInv, NEW r \in Requests, Attempt(r) PROVE RoutingInv'
<1> UNCHANGED channelRow
  BY DEF Attempt, channelRows
<1>0. /\ route \in [Requests -> Routings]
      /\ route[r].at = "attempt" /\ route[r].at \in Elected
  BY DEF RoutingInv, Attempt, Elected
<1> DEFINE rt(result, place) ==
             Route(place, route[r], route[r].pool, route[r].channel, result, route[r].served)
<1>1. \/ Done(r)
      \/ \E result \in {"fatal", "retryable"}, place \in {"disable", "again"} :
            route' = [route EXCEPT ![r].result = result, ![r].at = place]
  BY DEF Attempt
<1>2. CASE Done(r)
  BY <1>2, NewIsSound, OneRouteMoves DEF Done
<1>3. CASE \E result \in {"fatal", "retryable"}, place \in {"disable", "again"} :
              route' = [route EXCEPT ![r].result = result, ![r].at = place]
  <2>1. PICK result \in {"fatal", "retryable"}, place \in {"disable", "again"} :
              route' = [route EXCEPT ![r].result = result, ![r].at = place]
    BY <1>3
  <2>2. route' = [route EXCEPT ![r] = rt(result, place)]
    <3>1. route' = [route EXCEPT ![r] = [route[r] EXCEPT !.result = result, !.at = place]]
      BY <2>1
    <3>2. result \in Results /\ route[r] \in Routings
      BY <1>0 DEF Results
    <3>3. [route[r] EXCEPT !.result = result, !.at = place] = rt(result, place)
      BY <3>2, Judged
    <3> QED BY <3>1, <3>3
  <2>3. Sound(rt(result, place), Serving)
    BY <1>0, WithinAttempt DEF Elected, Results
  <2> HIDE DEF rt
  <2> QED BY <2>2, <2>3, OneRouteMoves
<1> QED BY <1>1, <1>2, <1>3

LEMMA DisableIsSound ==
    ASSUME RoutingInv, NEW r \in Requests, AutoDisableChannel(r) PROVE RoutingInv'
<1>0. /\ route \in [Requests -> Routings] /\ Sound(route[r], Serving)
      /\ route[r].at = "disable" /\ route[r].at \in Elected
  BY DEF RoutingInv, AutoDisableChannel, Elected
<1> DEFINE rt == Route("again", route[r], route[r].pool, route[r].channel,
                       route[r].result, route[r].served)
<1>1. route' = [route EXCEPT ![r] = rt]
  <2>1. [route[r] EXCEPT !.at = "again"] = rt
    BY <1>0, OneField
  <2> QED BY <2>1 DEF AutoDisableChannel, Move
<1>2. Sound(rt, Serving)
  BY <1>0, WithinAttempt DEF Elected, Routings
<1>3. channelRow' \in [Channels -> Rows] /\ Serving' \subseteq Serving
  BY DEF AutoDisableChannel, Disabled, RoutingInv, Rows, Serving, Serves
<1> HIDE DEF rt
<1>4. \A s \in Requests : route'[s] = IF s = r THEN rt ELSE route[s]
  BY <1>1 DEF RoutingInv
<1>5. \A s \in Requests : Sound(route'[s], Serving)
  BY <1>2, <1>4 DEF RoutingInv
<1>6. \A s \in Requests : Sound(route[s], Serving)'
  BY <1>3, <1>5 DEF Sound
<1>7. route' \in [Requests -> Routings]
  BY <1>1, <1>2 DEF RoutingInv, Sound
<1> QED BY <1>3, <1>6, <1>7 DEF RoutingInv

LEMMA AgainIsSound == ASSUME RoutingInv, NEW r \in Requests, TryAgain(r) PROVE RoutingInv'
<1> UNCHANGED channelRow
  BY DEF TryAgain, channelRows
<1>0. Sound(route[r], Serving) /\ route[r].at \in Elected
  BY DEF RoutingInv, TryAgain, Elected
<1>1. \/ route' = [route EXCEPT ![r] = Exclude(route[r])]
      \/ Done(r)
  BY DEF TryAgain, RoutingInv
<1>2. Sound(Exclude(route[r]), Serving)
  BY <1>0, ExcludedIsSound
<1> QED BY <1>1, <1>2, NewIsSound, OneRouteMoves DEF Done

\* The console may make a channel serve; the requests under way may then have
\* seen it.
LEMMA EditIsSound == ASSUME RoutingInv, EditChannel PROVE RoutingInv'
<1>1. channelRow' \in [Channels -> Rows]
  BY DEF EditChannel, RoutingInv, Rows
<1>2. route' = Witnessed
  BY DEF EditChannel
<1>3. Serving' = {c \in Channels : channelRow'[c] = "enabled"}
  BY DEF Serving, Serves
<1>4. ASSUME NEW r \in Requests
      PROVE  route'[r] \in Routings /\ Sound(route[r], Serving)'
  <2>0. Sound(route[r], Serving) /\ route[r] \in Routings
    BY DEF RoutingInv
  <2>1. CASE route[r].at = "idle"
    <3>1. route'[r] = route[r]
      BY <1>2, <2>1 DEF Witnessed
    <3> QED BY <2>0, <2>1, <3>1 DEF Sound
  <2>2. CASE route[r].at # "idle"
    <3> DEFINE rt == Route(route[r].at, route[r], route[r].pool, route[r].channel,
                           route[r].result, route[r].served \cup Serving')
    <3>1. route'[r] = rt
      <4>1. route'[r] = [route[r] EXCEPT !.served = @ \cup {c \in Channels : channelRow'[c] = "enabled"}]
        BY <1>2, <2>2 DEF Witnessed
      <4> QED BY <1>3, <2>0, <4>1, OneField
    <3>2. Serving' \subseteq Channels
      BY <1>3
    <3>3. rt \in Routings
      BY <2>0, <3>2 DEF Routings, Route
    <3>4. Sound(rt, Serving')
      BY <2>0, <3>3 DEF Sound, Route
    <3> HIDE DEF rt
    <3> QED BY <3>1, <3>3, <3>4 DEF Sound
  <2> QED BY <2>1, <2>2
<1>5. route' \in [Requests -> Routings]
  BY <1>2, <1>4 DEF Witnessed
<1> QED BY <1>1, <1>4, <1>5 DEF RoutingInv

\* Everything else leaves the routes alone and makes no channel serve.
LEMMA OthersAreSound ==
    ASSUME RoutingInv,
           \/ DeleteKeys \/ DropKeys \/ InsertKeys \/ InsertKeysFails
           \/ Probe \/ CooldownEnds \/ HealthExpires
    PROVE  RoutingInv'
<1>1. UNCHANGED route
  BY DEF DeleteKeys, DropKeys, InsertKeys, InsertKeysFails, Probe, CooldownEnds, HealthExpires
<1>2. UNCHANGED channelRow \/ \E c \in Channels : channelRow' = Disabled(c)
  BY DEF DeleteKeys, DropKeys, InsertKeys, InsertKeysFails, Probe, CooldownEnds, HealthExpires,
         channelRows
<1>3. channelRow' \in [Channels -> Rows] /\ Serving' \subseteq Serving
  BY <1>2 DEF Disabled, RoutingInv, Rows, Serving, Serves
<1> QED BY <1>1, <1>3, RowsStopServing

-----------------------------------------------------------------------------
LEMMA RoutingInvariant == RoutingSpec => []RoutingInv
<1>1. RoutingInit => RoutingInv
  <2> SUFFICES ASSUME RoutingInit PROVE RoutingInv
    OBVIOUS
  <2>1. channelRow \in [Channels -> Rows] /\ \A r \in Requests : route[r] = NewRoute
    BY DEF RoutingInit, Rows
  <2>2. NewRoute \in Routings /\ Sound(NewRoute, Serving)
    BY NewIsSound DEF Sound
  <2>3. route \in [Requests -> Routings]
    BY <2>2 DEF RoutingInit
  <2> QED BY <2>1, <2>2, <2>3 DEF RoutingInv
<1>2. RoutingInv /\ [RoutingNext]_routingVars => RoutingInv'
  <2> SUFFICES ASSUME RoutingInv, [RoutingNext]_routingVars PROVE RoutingInv'
    OBVIOUS
  <2>1. ASSUME NEW r \in Requests, Start(r) \/ RouteStep(r) PROVE RoutingInv'
    BY <2>1, StartIsSound, ElectIsSound, VerifyIsSound, PickKeyIsSound, AttemptIsSound,
       DisableIsSound, AgainIsSound DEF RouteStep
  <2>2. CASE UNCHANGED routingVars
    BY <2>2, RowsStopServing DEF routingVars, RoutingInv, Serving, Serves
  <2> QED BY <2>1, <2>2, EditIsSound, OthersAreSound DEF RoutingNext
<1> QED BY <1>1, <1>2, PTL DEF RoutingSpec

\* routing/index.ts, routing/retry.ts: for any channels, requests, edits and age
\* of the candidates, an elected channel served since the request came in, and
\* no attempt repeats a channel.
THEOREM RoutingAlwaysSound == RoutingSpec => []RoutingIsSound
<1>1. RoutingInv => RoutingIsSound
  <2> SUFFICES ASSUME RoutingInv, NEW r \in Requests
               PROVE  /\ route[r].at \in {"key", "attempt"} => route[r].channel \in route[r].served
                      /\ route[r].channel \notin route[r].tried
                      /\ Cardinality(route[r].tried) = route[r].attempt
    BY DEF RoutingIsSound, OnlyServingChannels, RetriesMoveOn
  <2>1. Sound(route[r], Serving)
    BY DEF RoutingInv
  <2>2. NoChannel \notin route[r].tried
    BY <2>1, RoutingAssumption DEF Sound, Routings, NoChannel
  <2> QED BY <2>1, <2>2 DEF Sound, Elected
<1> QED BY <1>1, RoutingInvariant, PTL

(***************************************************************************)
(* UpstreamCall.  A call is at a hop, or between two; what it holds is     *)
(* that hop's, and what it connects to was found public when the hop       *)
(* began.                                                                  *)
(***************************************************************************)

CallTypeOK ==
    /\ stage \in {"validate", "connect", "body", "returned", "thrown"}
    /\ hop \in Nat /\ passed \in Nat
    /\ payload \in {"none", "bytes", "stream"}

HopHolds ==
    /\ held = IF stage \in {"connect", "body"} THEN {hop} ELSE {}
    /\ headerTimer => stage = "connect"
    /\ reading => stage = "body"
    /\ stage \in {"connect", "body"} => pinned = "public"

HopsAreCounted ==
    /\ stage = "validate" => hop <= MaxRedirects
    /\ stage = "validate" /\ payload = "stream" => hop = 0

CallInv == CallTypeOK /\ HopHolds /\ HopsAreCounted /\ CallsStayInBounds

LEMMA CallInvStep == CallInv /\ [CallNext]_callVars => CallInv'
<1> SUFFICES ASSUME CallInv, [CallNext]_callVars PROVE CallInv'
  OBVIOUS
<1>0. MaxRedirects \in Nat /\ MaxBytes \in Nat
  BY CallAssumption
<1> USE <1>0 DEF CallInv, CallTypeOK, HopHolds, HopsAreCounted, CallsStayInBounds
<1>1. CASE Refuse
  BY <1>1 DEF Refuse, Throw
<1>2. CASE Begin
  BY <1>2 DEF Begin
<1>3. CASE VerdictExpires \/ HostMoves \/ UNCHANGED callVars
  BY <1>3 DEF VerdictExpires, HostMoves, callVars
<1>4. CASE ClientLeaves \/ TimeRunsOut \/ HeadersTimeOut
  BY <1>4 DEF ClientLeaves, TimeRunsOut, HeadersTimeOut, Unchanged
<1>5. CASE FetchFails \/ RefuseRedirect
  BY <1>5 DEF FetchFails, RefuseRedirect, Cleanup, Throw, Unchanged
<1>6. CASE HeadersOnly \/ HeadersAndBody
  BY <1>6 DEF HeadersOnly, HeadersAndBody, Cleanup, Unchanged
<1>7. CASE FollowRedirect
  BY <1>7 DEF FollowRedirect, LeaveHop, Cleanup, Replayed, Unchanged
<1>8. CASE Pull
  BY <1>8 DEF Pull, Unchanged
<1>9. CASE ChunkPasses
  BY <1>9 DEF ChunkPasses, Fits, Unchanged
<1>10. CASE BodyEnds \/ BodyFails \/ ReaderCancels
  BY <1>10 DEF BodyEnds, BodyFails, ReaderCancels, Cleanup, Throw, Unchanged
<1> QED BY <1>1, <1>2, <1>3, <1>4, <1>5, <1>6, <1>7, <1>8, <1>9, <1>10 DEF CallNext

\* Whichever way a call goes, it gives back what it held, keeps its bounds and
\* reaches validated addresses only (upstreamFetch).
THEOREM CallsAlwaysReleased == CallSpec => []CallsAreReleased
<1>1. CallInit => CallInv
  BY CallAssumption DEF CallInit, CallInv, CallTypeOK, HopHolds, HopsAreCounted, CallsStayInBounds
<1>2. CallInv => CallsAreReleased
  BY DEF CallInv, CallTypeOK, HopHolds, CallsAreReleased, NothingIsHeldLonger
<1> QED BY <1>1, <1>2, CallInvStep, PTL DEF CallSpec

(***************************************************************************)
(* ProviderRequest.  A header of the request is the client's only if it is *)
(* on the list that is forwarded, the channel's only if it is not the      *)
(* gateway's own, and a credential is the channel's key whatever both      *)
(* asked for.  The same is shown of the answer's headers, of the address   *)
(* and of the body asked for.                                              *)
(***************************************************************************)

\* buildUpstreamHeaders: who the value of each header is from.
LEMMA HeaderOrigins ==
    ASSUME NEW theirs, NEW channel, NEW auth, NEW contentType,
           NEW h, h = UpstreamHeaders(theirs, channel, auth, contentType),
           DOMAIN auth \cap {"content-type", "user-agent"} = {}
    PROVE  /\ DOMAIN h \subseteq {"content-type", "user-agent", "accept"} \cup DOMAIN auth
                 \cup (channel \ NeverForwardUpstream) \cup (DefaultForwardList \ NeverForwardUpstream)
           /\ {"content-type", "user-agent", "accept"} \subseteq DOMAIN h
           /\ h["content-type"] = contentType
           /\ h["user-agent"] = "gateway"
           /\ DOMAIN auth \subseteq DOMAIN h
           /\ \A n \in DOMAIN auth : h[n] = auth[n]
           /\ \A n \in DOMAIN h \ (DOMAIN auth \cup {"content-type", "user-agent"}) :
                 \/ h[n] = "channel"
                 \/ h[n] = "client" /\ n \in DefaultForwardList
                 \/ h[n] = "application/json"
<1> USE DEF UpstreamHeaders
<1>1. /\ DOMAIN h \subseteq {"content-type", "user-agent", "accept"} \cup DOMAIN auth
                 \cup (channel \ NeverForwardUpstream) \cup (DefaultForwardList \ NeverForwardUpstream)
      /\ {"content-type", "user-agent", "accept"} \subseteq DOMAIN h
      /\ DOMAIN auth \subseteq DOMAIN h
  OBVIOUS
<1>2. h["content-type"] = contentType /\ h["user-agent"] = "gateway"
  OBVIOUS
<1>3. \A n \in DOMAIN auth : h[n] = auth[n]
  OBVIOUS
<1>4. \A n \in DOMAIN h \ (DOMAIN auth \cup {"content-type", "user-agent"}) :
                 \/ h[n] = "channel"
                 \/ h[n] = "client" /\ n \in DefaultForwardList
                 \/ h[n] = "application/json"
  OBVIOUS
<1> QED BY <1>1, <1>2, <1>3, <1>4

-----------------------------------------------------------------------------
\* The header that a type of channel reads its credential from.
Reads(type) ==
    CASE type = "anthropic" -> "x-api-key"
      [] type = "gemini" -> "x-goog-api-key"
      [] type = "azure" -> "api-key"
      [] type = "openai" -> "authorization"

\* What the headers of a call to such a channel are like.
HeadersFit(h, type) ==
    /\ Reads(type) \in DOMAIN h /\ h[Reads(type)] = "secret"
    /\ \A n \in DOMAIN h : h[n] = "secret" <=> n \in Credentials
    /\ type = "anthropic" => "anthropic-version" \in DOMAIN h /\ h["anthropic-version"] = "gateway"
    /\ \A n \in DOMAIN h : h[n] = "client" => n \in DefaultForwardList
    /\ DOMAIN h \cap (HopByHop \cup Platform) = {}
    /\ "accept" \in DOMAIN h

\* providerAuthHeaders: one credential, where it is read.
LEMMA OneCredential ==
    ASSUME NEW type \in Types, NEW auth, auth = ProviderAuthHeaders(type)
    PROVE  /\ Reads(type) \in DOMAIN auth /\ Reads(type) \in Credentials
           /\ \A n \in DOMAIN auth : auth[n] = IF n = Reads(type) THEN "secret" ELSE "gateway"
           /\ DOMAIN auth \subseteq {Reads(type), "anthropic-version"}
           /\ type = "anthropic" => "anthropic-version" \in DOMAIN auth
<1> USE DEF ProviderAuthHeaders, DialectFor, OpenaiLike, Reads, Credentials
<1>1. CASE type = "anthropic"
  BY <1>1
<1>2. CASE type = "gemini"
  BY <1>2
<1>3. CASE type = "azure"
  BY <1>3
<1>4. CASE type = "openai"
  BY <1>4
<1> QED BY <1>1, <1>2, <1>3, <1>4 DEF Types

LEMMA ForwardedHeadersFit ==
    ASSUME NEW type \in Types, NEW theirs, NEW channel,
           NEW contentType, contentType \notin {"secret", "client"},
           NEW h, h = UpstreamHeaders(theirs, channel, ProviderAuthHeaders(type), contentType)
    PROVE  HeadersFit(h, type)
<1> DEFINE auth == ProviderAuthHeaders(type)
<1>1. /\ Reads(type) \in DOMAIN auth /\ Reads(type) \in Credentials
      /\ \A n \in DOMAIN auth : auth[n] = IF n = Reads(type) THEN "secret" ELSE "gateway"
      /\ DOMAIN auth \subseteq {Reads(type), "anthropic-version"}
      /\ type = "anthropic" => "anthropic-version" \in DOMAIN auth
  BY OneCredential
<1>2. h = UpstreamHeaders(theirs, channel, auth, contentType)
  OBVIOUS
<1> HIDE DEF auth
<1>3. DOMAIN auth \cap {"content-type", "user-agent"} = {}
  BY <1>1 DEF Credentials
<1>4. /\ DOMAIN h \subseteq {"content-type", "user-agent", "accept"} \cup DOMAIN auth
            \cup (channel \ NeverForwardUpstream) \cup (DefaultForwardList \ NeverForwardUpstream)
      /\ {"content-type", "user-agent", "accept"} \subseteq DOMAIN h
      /\ h["content-type"] = contentType
      /\ h["user-agent"] = "gateway"
      /\ DOMAIN auth \subseteq DOMAIN h
      /\ \A n \in DOMAIN auth : h[n] = auth[n]
      /\ \A n \in DOMAIN h \ (DOMAIN auth \cup {"content-type", "user-agent"}) :
            \/ h[n] = "channel"
            \/ h[n] = "client" /\ n \in DefaultForwardList
            \/ h[n] = "application/json"
  BY <1>2, <1>3, HeaderOrigins
<1>5. Reads(type) \in DOMAIN h /\ h[Reads(type)] = "secret"
  BY <1>1, <1>4
<1>6. ASSUME NEW n \in DOMAIN h PROVE h[n] = "secret" <=> n \in Credentials
  <2>1. CASE n \in DOMAIN auth
    BY <2>1, <1>1, <1>4 DEF Credentials
  <2>2. CASE n \notin DOMAIN auth
    <3>1. h[n] # "secret"
      BY <2>2, <1>4
    <3>2. n \notin Credentials
      BY <2>2, <1>4 DEF Credentials, NeverForwardUpstream
    <3> QED BY <3>1, <3>2
  <2> QED BY <2>1, <2>2
<1>7. type = "anthropic" => "anthropic-version" \in DOMAIN h /\ h["anthropic-version"] = "gateway"
  BY <1>1, <1>4 DEF Reads
<1>8. ASSUME NEW n \in DOMAIN h, h[n] = "client" PROVE n \in DefaultForwardList
  BY <1>1, <1>4, <1>8
<1>9. DOMAIN h \cap (HopByHop \cup Platform) = {}
  <2>1. (HopByHop \cup Platform) \cap {"content-type", "user-agent", "accept", "anthropic-version"} = {}
    BY DEF HopByHop, Platform
  <2>2. (HopByHop \cup Platform) \cap Credentials = {}
    BY DEF HopByHop, Platform, Credentials
  <2> QED BY <2>1, <2>2, <1>1, <1>4 DEF NeverForwardUpstream
<1> QED BY <1>4, <1>5, <1>6, <1>7, <1>8, <1>9 DEF HeadersFit

\* A stream's accept header is the gateway's.
LEMMA AcceptStream ==
    ASSUME NEW h, NEW type \in Types, HeadersFit(h, type)
    PROVE  /\ HeadersFit([h EXCEPT !["accept"] = "text/event-stream"], type)
           /\ [h EXCEPT !["accept"] = "text/event-stream"]["accept"] = "text/event-stream"
<1> DEFINE g == [h EXCEPT !["accept"] = "text/event-stream"]
<1>1. /\ DOMAIN g = DOMAIN h
      /\ \A n \in DOMAIN h : n # "accept" => g[n] = h[n]
      /\ g["accept"] = "text/event-stream"
  BY DEF HeadersFit
<1>2. Reads(type) # "accept"
  BY DEF Reads, Types
<1>3. "accept" \notin Credentials
  BY DEF Credentials
<1> HIDE DEF g
<1>4. Reads(type) \in DOMAIN g /\ g[Reads(type)] = "secret"
  BY <1>1, <1>2 DEF HeadersFit
<1>5. \A n \in DOMAIN g : g[n] = "secret" <=> n \in Credentials
  BY <1>1, <1>3 DEF HeadersFit
<1>6. type = "anthropic" => "anthropic-version" \in DOMAIN g /\ g["anthropic-version"] = "gateway"
  BY <1>1 DEF HeadersFit
<1>7. \A n \in DOMAIN g : g[n] = "client" => n \in DefaultForwardList
  BY <1>1 DEF HeadersFit
<1> QED BY <1>1, <1>4, <1>5, <1>6, <1>7 DEF HeadersFit, g

-----------------------------------------------------------------------------
\* Whose surface a type of channel has.
Surface(type) == IF type = "azure" THEN "azure" ELSE DialectFor(type)

\* What was sent for a call is what its route makes of it.
SentFor(m) == IF m.route.relayed THEN RelayedCall(m) ELSE VerbatimCall(m)

LEMMA SurfaceOfUrl ==
    ASSUME NEW channel, NEW endpoint, NEW stream, channel.type \in Types
    PROVE  UpstreamUrlFor(channel, endpoint, stream).surface = Surface(channel.type)
<1> USE DEF UpstreamUrlFor, Surface, DialectFor, OpenaiLike, Types
<1>1. CASE channel.type = "azure"
  BY <1>1
<1>2. CASE channel.type = "gemini"
  BY <1>2
<1>3. CASE channel.type = "anthropic"
  BY <1>3
<1>4. CASE channel.type = "openai"
  BY <1>4
<1> QED BY <1>1, <1>2, <1>3, <1>4

LEMMA SentFits ==
    ASSUME NEW m \in ClientCalls
    PROVE  /\ HeadersFit(SentFor(m).headers, m.channel.type)
           /\ SentFor(m).url.surface = Surface(m.channel.type)
           /\ m.route.relayed /\ m.route.stream =>
                SentFor(m).headers["accept"] = "text/event-stream"
<1> DEFINE type == m.channel.type
           auth == ProviderAuthHeaders(type)
           json == UpstreamHeaders(m.client, m.channel.headers, auth, "application/json")
           own  == UpstreamHeaders(m.client, m.channel.headers, auth, "the client's")
           events == [json EXCEPT !["accept"] = "text/event-stream"]
<1>1. type \in Types
  BY DEF ClientCalls
<1>2. HeadersFit(json, type) /\ HeadersFit(own, type)
  BY <1>1, ForwardedHeadersFit
<1>3. HeadersFit(events, type) /\ events["accept"] = "text/event-stream"
  BY <1>1, <1>2, AcceptStream
<1>4. CASE m.route.relayed
  <2>1. /\ SentFor(m).headers = IF m.route.stream THEN events ELSE json
        /\ SentFor(m).url = UpstreamUrlFor(m.channel, m.route.endpoint, m.route.stream)
    BY <1>4 DEF SentFor, RelayedCall
  <2>2. UpstreamUrlFor(m.channel, m.route.endpoint, m.route.stream).surface = Surface(type)
    BY <1>1, SurfaceOfUrl
  <2> HIDE DEF events, json, type
  <2>3. HeadersFit(SentFor(m).headers, type)
    BY <2>1, <1>2, <1>3
  <2>4. m.route.stream => SentFor(m).headers["accept"] = "text/event-stream"
    BY <2>1, <1>3
  <2> QED BY <2>1, <2>2, <2>3, <2>4 DEF type
<1>5. CASE ~m.route.relayed
  <2>1. /\ SentFor(m).headers = own
        /\ SentFor(m).url = UpstreamUrlFor(m.channel, m.route.endpoint, FALSE)
    BY <1>5 DEF SentFor, VerbatimCall
  <2>2. UpstreamUrlFor(m.channel, m.route.endpoint, FALSE).surface = Surface(type)
    BY <1>1, SurfaceOfUrl
  <2> HIDE DEF own, type
  <2>3. HeadersFit(SentFor(m).headers, type)
    BY <2>1, <1>2
  <2> QED BY <2>1, <2>2, <2>3, <1>5 DEF type
<1> QED BY <1>4, <1>5

LEMMA ChatUrl ==
    ASSUME NEW channel, NEW stream, NEW url, url = UpstreamUrlFor(channel, "chat", stream)
    PROVE  /\ channel.type = "azure" => url.surface = "azure" /\ url.asks = "chat"
           /\ channel.type = "gemini" =>
                url.surface = "gemini" /\ url.asks = GeminiMethod("chat", stream)
           /\ channel.type = "anthropic" => url.surface = "anthropic" /\ url.asks = "messages"
           /\ channel.type = "openai" => url.surface = "openai" /\ url.asks = "chat"
<1> USE DEF UpstreamUrlFor, DialectFor, OpenaiLike
<1>1. CASE channel.type = "azure"
  BY <1>1 DEF AzureSuffix
<1>2. CASE channel.type = "gemini"
  BY <1>2
<1>3. CASE channel.type = "anthropic"
  BY <1>3
<1>4. CASE channel.type = "openai"
  BY <1>4 DEF OpenaiSuffix
<1> QED BY <1>1, <1>2, <1>3, <1>4

LEMMA Wires ==
    ASSUME NEW type
    PROVE  /\ type = "azure" => DialectFor(type) = "openai"
           /\ type = "gemini" => DialectFor(type) = "gemini"
           /\ type = "anthropic" => DialectFor(type) = "anthropic"
           /\ type = "openai" => DialectFor(type) = "openai"
BY DEF DialectFor, OpenaiLike

\* A chat that is relayed: where it goes and what flags it has.
LEMMA ChatFits ==
    ASSUME NEW m \in ClientCalls, m.route.relayed, m.route.endpoint = "chat",
           NEW s, s = RelayedCall(m)
    PROVE  /\ s.url.surface = s.body.in \/ (s.url.surface = "azure" /\ s.body.in = "openai")
           /\ s.url.asks \in {"chat", "messages", "generateContent", "streamGenerateContent"}
           /\ ProviderStreams(s) => m.route.stream
           /\ m.route.stream /\ m.route.client # "gemini" => ProviderStreams(s)
           /\ m.route.stream /\ m.route.client = "openai" /\ s.body.in = "openai" => s.body.usage
<1> DEFINE type == m.channel.type
           body == TransformRequest(NormalizeFor(m.route, m.asksUsage), DialectFor(type))
<1>1. type \in Types
  BY DEF ClientCalls
<1>2. /\ s.url = UpstreamUrlFor(m.channel, "chat", m.route.stream)
      /\ s.body = body
  BY DEF RelayedCall
<1>3. /\ body.in = DialectFor(type)
      /\ body.stream <=> DialectFor(type) # "gemini" /\ m.route.client # "gemini" /\ m.route.stream
      /\ body.usage <=> /\ DialectFor(type) = "openai" /\ m.route.client = "openai"
                        /\ m.asksUsage \/ m.route.stream
  BY DEF TransformRequest, NormalizeFor
<1> HIDE DEF body
<1>4. ASSUME s.url.surface # "gemini", DialectFor(type) # "gemini"
      PROVE  /\ ProviderStreams(s) <=> m.route.client # "gemini" /\ m.route.stream
             /\ s.body.in = "openai" /\ m.route.stream /\ m.route.client = "openai" =>
                  s.body.usage
  <2>1. s.body.stream <=> m.route.client # "gemini" /\ m.route.stream
    BY <1>2, <1>3, <1>4
  <2>2. ProviderStreams(s) <=> s.body.stream
    BY <1>4 DEF ProviderStreams
  <2>3. s.body.in = "openai" /\ m.route.stream /\ m.route.client = "openai" => s.body.usage
    BY <1>2, <1>3
  <2> QED BY <2>1, <2>2, <2>3
<1>5. CASE type = "azure"
  <2>1. DialectFor(type) = "openai" /\ s.body.in = "openai"
    BY <1>2, <1>3, <1>5, Wires
  <2>2. s.url.surface = "azure" /\ s.url.asks = "chat"
    BY <1>2, <1>5, ChatUrl
  <2> QED BY <2>1, <2>2, <1>4
<1>6. CASE type = "gemini"
  <2>1. DialectFor(type) = "gemini" /\ s.body.in = "gemini"
    BY <1>2, <1>3, <1>6, Wires
  <2>2. s.url.surface = "gemini" /\ s.url.asks = GeminiMethod("chat", m.route.stream)
    BY <2>1, <1>2, <1>6, ChatUrl
  <2>3. CASE m.route.stream
    <3>1. s.url.asks = "streamGenerateContent"
      BY <2>2, <2>3 DEF GeminiMethod
    <3> QED BY <2>1, <2>2, <2>3, <3>1 DEF ProviderStreams
  <2>4. CASE ~m.route.stream
    <3>1. s.url.asks = "generateContent"
      BY <2>2, <2>4 DEF GeminiMethod
    <3> QED BY <2>1, <2>2, <2>4, <3>1 DEF ProviderStreams
  <2> QED BY <2>3, <2>4
<1>7. CASE type = "anthropic"
  <2>1. DialectFor(type) = "anthropic" /\ s.body.in = "anthropic"
    BY <1>2, <1>3, <1>7, Wires
  <2>2. s.url.surface = "anthropic" /\ s.url.asks = "messages"
    BY <2>1, <1>2, <1>7, ChatUrl
  <2> QED BY <2>1, <2>2, <1>4
<1>8. CASE type = "openai"
  <2>1. DialectFor(type) = "openai" /\ s.body.in = "openai"
    BY <1>2, <1>3, <1>8, Wires
  <2>2. s.url.surface = "openai" /\ s.url.asks = "chat"
    BY <2>1, <1>2, <1>8, ChatUrl
  <2> QED BY <2>1, <2>2, <1>4
<1> QED BY <1>1, <1>5, <1>6, <1>7, <1>8 DEF Types

LEMMA AnswerFits ==
    ASSUME NEW upstream, NEW h, h = DownstreamHeaders(upstream)
    PROVE  /\ h["x-request-id"] = "gateway"
           /\ {n \in DOMAIN h : h[n] = "provider"} \subseteq PassthroughDownstream
           /\ "retry-after" \in DOMAIN upstream /\ upstream["retry-after"] =>
                "retry-after" \in DOMAIN h
<1>1. "retry-after" \in PassthroughDownstream \ NeverForwardDownstream
  BY DEF PassthroughDownstream, NeverForwardDownstream, HopByHop
<1> QED BY <1>1 DEF DownstreamHeaders

-----------------------------------------------------------------------------
RequestInv ==
    /\ errand \in {"call", "answer"}
    /\ errand = "call" => material \in ClientCalls
    /\ \/ sent = Unsent
       \/ sent = IF errand = "call" THEN SentFor(material) ELSE DownstreamHeaders(material)

LEMMA RequestInvHolds == RequestSpec => []RequestInv
<1>1. RequestInit => RequestInv
  BY RequestAssumption DEF RequestInit, RequestInv
<1>2. RequestInv /\ [RequestNext]_requestVars => RequestInv'
  BY DEF RequestInv, RequestNext, CallProvider, AnswerClient, SentFor, requestVars
<1> QED BY <1>1, <1>2, PTL DEF RequestSpec

LEMMA CredentialFits ==
    ASSUME RequestInv, Called
    PROVE  CredentialIsTheChannels
<1> DEFINE type == material.channel.type
           h == sent.headers
<1>1. material \in ClientCalls /\ sent = SentFor(material)
  BY DEF RequestInv, Called
<1>2. HeadersFit(h, type) /\ sent.url.surface = Surface(type)
  BY <1>1, SentFits
<1>3. type \in Types
  BY <1>1 DEF ClientCalls
<1>4. Reads(type) = CASE sent.url.surface = "anthropic" -> "x-api-key"
                       [] sent.url.surface = "gemini" -> "x-goog-api-key"
                       [] sent.url.surface = "azure" -> "api-key"
                       [] OTHER -> "authorization"
  BY <1>2, <1>3 DEF Types, Reads, Surface, DialectFor, OpenaiLike
<1>5. sent.url.surface = "anthropic" => type = "anthropic"
  BY <1>2, <1>3 DEF Types, Surface, DialectFor, OpenaiLike
<1> HIDE DEF h, type
<1>6. {n \in DOMAIN h : h[n] = "secret"} = DOMAIN h \cap Credentials
  BY <1>2 DEF HeadersFit
<1>7. {n \in DOMAIN h : h[n] = "client"} \subseteq DefaultForwardList
  BY <1>2 DEF HeadersFit
<1>8. h[Reads(type)] = "secret" /\ DOMAIN h \cap (HopByHop \cup Platform) = {}
  BY <1>2 DEF HeadersFit
<1>9. sent.url.surface = "anthropic" => h["anthropic-version"] = "gateway"
  BY <1>2, <1>5 DEF HeadersFit
<1> QED BY <1>4, <1>6, <1>7, <1>8, <1>9 DEF CredentialIsTheChannels, h

LEMMA CallsAlwaysFit ==
    ASSUME RequestInv
    PROVE  CallsFit
<1> SUFFICES ASSUME Called, material.route.relayed, material.route.endpoint = "chat"
             PROVE  CallsFit
  BY DEF CallsFit
<1>1. material \in ClientCalls /\ sent = SentFor(material) /\ sent = RelayedCall(material)
  BY DEF RequestInv, Called, SentFor
<1>2. material.route.stream => sent.headers["accept"] = "text/event-stream"
  BY <1>1, SentFits
<1> QED BY <1>1, <1>2, ChatFits DEF CallsFit, Streamed

\* What leaves the gateway for a provider (lib/http/headers.ts,
\* lib/transform/index.ts) carries the channel's credential and nothing the
\* client may not set, and fits the surface it is sent to; what comes back
\* carries the gateway's request id, whatever headers anybody sent.
THEOREM ForwardingStaysSound == RequestSpec => []ForwardingIsSound
<1>1. RequestInv => ForwardingIsSound
  <2> SUFFICES ASSUME RequestInv PROVE ForwardingIsSound
    OBVIOUS
  <2>1. CredentialIsTheChannels
    BY CredentialFits DEF CredentialIsTheChannels
  <2>2. CallsFit
    BY CallsAlwaysFit
  <2>3. AnswersAreOurs
    BY AnswerFits DEF RequestInv, AnswersAreOurs
  <2> QED BY <2>1, <2>2, <2>3 DEF ForwardingIsSound
<1> QED BY <1>1, RequestInvHolds, PTL

(***************************************************************************)
(* RequestBody.  The nodes behind the walk, those on its stack and the     *)
(* children of the entry it is at are all different, so that what it       *)
(* counts is really in the tree; and every way that is too deep passes a   *)
(* node of the stack at its depth, so that a walk that is through has      *)
(* missed none.                                                            *)
(***************************************************************************)

\* A set of naturals adds up chunk by chunk.
LEMMA BytesOfNone == BytesOf(<<>>) = 0
<1>1. DOMAIN <<>> = {}
  OBVIOUS
<1> QED BY <1>1, SumOfNone DEF BytesOf

LEMMA BytesOfMore ==
    ASSUME NEW s \in Seq(Nat), NEW x \in Nat
    PROVE  /\ BytesOf(Append(s, x)) = BytesOf(s) + x
           /\ BytesOf(s) \in Nat
<1> DEFINE t == Append(s, x)
           n == Len(s) + 1
<1>1. /\ Len(s) \in Nat /\ DOMAIN s = 1..Len(s)
      /\ DOMAIN t = 1..n /\ t[n] = x /\ \A i \in 1..Len(s) : t[i] = s[i]
      /\ \A i \in 1..Len(s) : s[i] \in Nat
  BY AppendProperties
<1> HIDE DEF t
<1>2. IsFiniteSet(1..n) /\ IsFiniteSet(1..Len(s))
  BY <1>1, FS_Interval
<1>3. (1..n) \ {n} = 1..Len(s)
  BY <1>1
<1>4. SameOn((1..n) \ {n}, s, t)
  BY <1>1, <1>3 DEF SameOn
<1>5. n \in 1..n /\ t[n] \in Nat
  BY <1>1
<1> DEFINE all == 1..n
<1>8. n \in all
  BY <1>5
<1>11. t[n] \in Nat
  BY <1>5
<1>12. IsFiniteSet(all \ {n}) /\ SameOn(all \ {n}, s, t)
  BY <1>2, <1>3, <1>4
<1> HIDE DEF n, all
<1>6. SumFunctionOnSet(t, all) = SumFunctionOnSet(s, all \ {n}) + t[n]
  BY <1>8, <1>11, <1>12, SumGrows
<1>7. SumFunctionOnSet(s, 1..Len(s)) \in Nat
  BY <1>1, <1>2, SumType
<1>9. BytesOf(t) = SumFunctionOnSet(t, all) /\ BytesOf(s) = SumFunctionOnSet(s, all \ {n})
  BY <1>1, <1>3 DEF BytesOf, all
<1>10. BytesOf(s) \in Nat
  BY <1>1, <1>7 DEF BytesOf
<1> QED BY <1>1, <1>6, <1>9, <1>10 DEF t, n

-----------------------------------------------------------------------------
\* SetToSeq lists a finite set, each element once.
LEMMA Listing ==
    ASSUME NEW K, IsFiniteSet(K), NEW f, f = SetToSeq(K)
    PROVE  /\ f \in [1..Cardinality(K) -> K]
           /\ \A i, j \in 1..Cardinality(K) : f[i] = f[j] => i = j
           /\ \A x \in K : \E i \in 1..Cardinality(K) : f[i] = x
<1> DEFINE n == Cardinality(K)
<1>1. n \in Nat /\ ExistsBijection(1..n, K)
  BY FS_CardinalityType
<1>2. PICK g \in Bijection(1..n, K) : TRUE
  BY <1>1 DEF ExistsBijection
<1>3. g \in [1..n -> K] /\ IsInjective(g)
  BY <1>2 DEF Bijection, Injection, IsInjective
<1>4. f \in [1..n -> K] /\ IsInjective(f)
  BY <1>3 DEF SetToSeq
<1>5. f \in Injection(1..n, K)
  BY <1>4 DEF IsInjective, Injection
<1>6. Cardinality(1..n) = n /\ IsFiniteSet(1..n)
  BY <1>1, FS_Interval
<1>7. f \in Surjection(1..n, K)
  BY <1>5, <1>6, FS_Injection
<1> QED BY <1>4, <1>5, <1>7 DEF Injection, Surjection, IsInjective

-----------------------------------------------------------------------------
\* A parsed value has finitely many nodes, the root among them.
Tree(t) == IsFiniteSet(t.nodes) /\ 1 \in t.nodes

Entries(t) == [node : t.nodes, depth : Nat \ {0}]
Nodes(st) == {st[i].node : i \in DOMAIN st}

\* The walk has been at the nodes of S and has those of its stack before it.
Visits(t, st, S) ==
    /\ S \subseteq t.nodes /\ S \cap Nodes(st) = {}
    /\ \A i, j \in DOMAIN st : st[i].node = st[j].node => i = j
    /\ \A n \in (S \cup Nodes(st)) \ {1} : t.parent[n] \in S

\* An entry lies as deep as it says,
Reached(t, st) ==
    \A i \in DOMAIN st :
        \E way \in Ways(t, st[i].depth) : way[st[i].depth] = st[i].node
\* and whatever lies too deep is still to come.
Covers(t, st) ==
    \A way \in Ways(t, MaxJsonDepth + 1) :
        \E i \in DOMAIN st, k \in 1..(MaxJsonDepth + 1) :
            st[i].node = way[k] /\ st[i].depth = k

\* The stack after an entry was taken from its end and its children pushed.
Pushed(t, st, next) ==
    LET e == st[Len(st)]
        kids == ChildrenOf(t, e.node)
        m == Len(st) - 1
    IN  /\ next \in Seq(Entries(t))
        /\ Len(next) = m + Cardinality(kids)
        /\ \A i \in 1..m : next[i] = st[i]
        /\ \A i \in 1..Cardinality(kids) :
              next[m + i].node \in kids /\ next[m + i].depth = e.depth + 1
        /\ \A i, j \in 1..Cardinality(kids) : next[m + i].node = next[m + j].node => i = j
        /\ \A x \in kids : \E i \in 1..Cardinality(kids) : next[m + i].node = x

\* The n entries list each of the children once, at that depth.
ListsChildren(more, n, kids, depth) ==
    /\ \A i \in 1..n : more[i].node \in kids /\ more[i].depth = depth
    /\ \A i, j \in 1..n : more[i].node = more[j].node => i = j
    /\ \A x \in kids : \E i \in 1..n : more[i].node = x

LEMMA PushedIsConcat ==
    ASSUME NEW t, NEW st \in Seq(Entries(t)), NEW m \in Nat, NEW n \in Nat, m = Len(st) - 1,
           NEW rest \in Seq(Entries(t)), Len(rest) = m, \A i \in 1..m : rest[i] = st[i],
           NEW e, e = st[Len(st)],
           NEW kids, kids = ChildrenOf(t, e.node), n = Cardinality(kids),
           NEW more \in Seq(Entries(t)), Len(more) = n,
           ListsChildren(more, n, kids, e.depth + 1)
    PROVE  Pushed(t, st, rest \o more)
<1> DEFINE E == Entries(t)
           next == rest \o more
<1>1. rest \in Seq(E) /\ more \in Seq(E)
  OBVIOUS
<1> HIDE DEF E
<1>2. /\ next \in Seq(E) /\ Len(next) = m + n
      /\ \A i \in 1..(m + n) : next[i] = IF i <= m THEN rest[i] ELSE more[i - m]
  BY <1>1, ConcatProperties
<1> HIDE DEF next
<1>3. ASSUME NEW i \in 1..m PROVE next[i] = st[i]
  BY <1>2, i \in 1..(m + n) /\ i <= m
<1>4. ASSUME NEW i \in 1..n PROVE next[m + i] = more[i]
  <2>1. m + i \in 1..(m + n) /\ ~(m + i <= m) /\ (m + i) - m = i
    OBVIOUS
  <2> QED BY <1>2, <2>1
<1>5. \A i \in 1..n : next[m + i].node \in kids /\ next[m + i].depth = e.depth + 1
  BY <1>4 DEF ListsChildren
<1>6. \A i, j \in 1..n : next[m + i].node = next[m + j].node => i = j
  BY <1>4 DEF ListsChildren
<1>7. ASSUME NEW x \in kids PROVE \E i \in 1..n : next[m + i].node = x
  <2>1. PICK i \in 1..n : more[i].node = x
    BY DEF ListsChildren
  <2>2. next[m + i].node = x
    BY <2>1, <1>4
  <2> QED BY <2>2
<1> QED BY <1>2, <1>3, <1>5, <1>6, <1>7 DEF Pushed, E, next

LEMMA PushedByWalk ==
    ASSUME NEW t, Tree(t), NEW st \in Seq(Entries(t)), st # <<>>,
           NEW kids, kids = ChildrenOf(t, Last(st).node)
    PROVE  Pushed(t, st,
               Front(st) \o [i \in 1..Cardinality(kids) |->
                   [node |-> SetToSeq(kids)[i], depth |-> Last(st).depth + 1]])
<1> DEFINE e == st[Len(st)]
           f == SetToSeq(kids)
           n == Cardinality(kids)
           more == [i \in 1..n |-> [node |-> f[i], depth |-> e.depth + 1]]
           rest == SubSeq(st, 1, Len(st) - 1)
<1>1. Len(st) \in Nat \ {0} /\ \A i \in 1..Len(st) : st[i] \in Entries(t)
  BY EmptySeq
<1>2. e \in Entries(t)
  BY <1>1
<1>3. /\ rest \in Seq(Entries(t)) /\ Len(rest) = Len(st) - 1
      /\ \A i \in 1..(Len(st) - 1) : rest[i] = st[i]
  <2>1. \A i \in 1..(Len(st) - 1) : st[i] \in Entries(t)
    BY <1>1
  <2>2. 1 \in Int /\ Len(st) - 1 \in Int
    BY <1>1
  <2>3. /\ SubSeq(st, 1, Len(st) - 1) \in Seq(Entries(t))
        /\ Len(SubSeq(st, 1, Len(st) - 1)) = IF 1 <= Len(st) - 1 THEN (Len(st) - 1) - 1 + 1 ELSE 0
        /\ \A i \in 1..((Len(st) - 1) - 1 + 1) : SubSeq(st, 1, Len(st) - 1)[i] = st[1 + i - 1]
    BY <2>1, <2>2, SubSeqProperties
  <2>4. (Len(st) - 1) - 1 + 1 = Len(st) - 1 /\ \A i \in 1..(Len(st) - 1) : 1 + i - 1 = i
    BY <1>1
  <2> QED BY <1>1, <2>3, <2>4
<1>4. kids \subseteq t.nodes /\ IsFiniteSet(kids)
  <2>1. kids \subseteq t.nodes
    BY DEF ChildrenOf
  <2> QED BY <2>1, FS_Subset DEF Tree
<1>5. /\ f \in [1..n -> kids]
      /\ \A i, j \in 1..n : f[i] = f[j] => i = j
      /\ \A x \in kids : \E i \in 1..n : f[i] = x
  BY <1>4, Listing
<1>6. n \in Nat
  BY <1>4, FS_CardinalityType
<1> HIDE DEF f, n, rest, e
<1>7. /\ more \in Seq(Entries(t)) /\ Len(more) = n
      /\ \A i \in 1..n : more[i].node = f[i] /\ more[i].depth = e.depth + 1
  BY <1>2, <1>4, <1>5, <1>6 DEF Entries
<1>8. Front(st) \o [i \in 1..Cardinality(kids) |->
          [node |-> SetToSeq(kids)[i], depth |-> Last(st).depth + 1]] = rest \o more
  BY DEF Front, Last, rest, f, n, e, more
<1>9. kids = ChildrenOf(t, e.node)
  BY DEF e, Last
<1> HIDE DEF more
<1> DEFINE m == Len(st) - 1
<1>10. /\ m \in Nat /\ Len(rest) = m /\ rest \in Seq(Entries(t))
       /\ \A i \in 1..m : rest[i] = st[i]
  BY <1>1, <1>3
<1>11. ListsChildren(more, n, kids, e.depth + 1)
  <2>1. \A i \in 1..n : more[i].node = f[i] /\ more[i].depth = e.depth + 1
    BY <1>7
  <2>2. ASSUME NEW i \in 1..n PROVE more[i].node \in kids
    BY <2>1, <1>5
  <2>3. ASSUME NEW i \in 1..n, NEW j \in 1..n, more[i].node = more[j].node PROVE i = j
    BY <2>1, <2>3, <1>5
  <2>4. ASSUME NEW x \in kids PROVE \E i \in 1..n : more[i].node = x
    BY <2>1, <1>5
  <2> QED BY <2>1, <2>2, <2>3, <2>4 DEF ListsChildren
<1>12. n = Cardinality(kids) /\ m = Len(st) - 1 /\ e = st[Len(st)]
  BY DEF n, e
<1> HIDE DEF m
<1>13. Pushed(t, st, rest \o more)
  BY <1>6, <1>7, <1>9, <1>10, <1>11, <1>12, PushedIsConcat
<1> QED BY <1>8, <1>13

\* A position of the stack after a step is an old one or that of a child.
Positions(t, st, next, m, e, kids) ==
    /\ m \in Nat /\ Cardinality(kids) \in Nat /\ DOMAIN st = 1..(m + 1) /\ e = st[m + 1]
    /\ IsFiniteSet(kids) /\ kids \subseteq t.nodes /\ e \in Entries(t)
    /\ DOMAIN next = 1..(m + Cardinality(kids))
    /\ \A i \in DOMAIN next :
          \/ i \in 1..m /\ next[i] = st[i]
          \/ \E k \in 1..Cardinality(kids) :
               /\ i = m + k /\ next[i].node \in kids /\ next[i].depth = e.depth + 1
    /\ \A i \in 1..m : i \in DOMAIN next /\ next[i] = st[i]
    /\ \A x \in kids : \E i \in DOMAIN next : next[i].node = x /\ next[i].depth = e.depth + 1

LEMMA PushedPositions ==
    ASSUME NEW t, Tree(t), NEW st \in Seq(Entries(t)), st # <<>>,
           NEW next, Pushed(t, st, next),
           NEW m, m = Len(st) - 1, NEW e, e = st[Len(st)],
           NEW kids, kids = ChildrenOf(t, e.node)
    PROVE  Positions(t, st, next, m, e, kids)
<1> DEFINE n == Cardinality(kids)
<1>1. Len(st) \in Nat \ {0} /\ DOMAIN st = 1..Len(st) /\ \A i \in 1..Len(st) : st[i] \in Entries(t)
  BY EmptySeq
<1>2. kids \subseteq t.nodes
  BY DEF ChildrenOf
<1>3. IsFiniteSet(kids) /\ n \in Nat
  BY <1>2, FS_Subset, FS_CardinalityType DEF Tree
<1> HIDE DEF n
<1>4. m \in Nat /\ Len(st) = m + 1 /\ e \in Entries(t)
  BY <1>1
<1>5. /\ next \in Seq(Entries(t)) /\ Len(next) = m + n
      /\ \A i \in 1..m : next[i] = st[i]
      /\ \A k \in 1..n : next[m + k].node \in kids /\ next[m + k].depth = e.depth + 1
      /\ \A x \in kids : \E k \in 1..n : next[m + k].node = x
  BY DEF Pushed, n
<1>6. DOMAIN next = 1..(m + n)
  BY <1>5
<1>7. ASSUME NEW i \in 1..(m + n)
      PROVE  \/ i \in 1..m /\ next[i] = st[i]
             \/ \E k \in 1..n : i = m + k /\ next[i].node \in kids /\ next[i].depth = e.depth + 1
  <2>1. CASE i <= m
    BY <1>4, <1>5, <2>1
  <2>2. CASE ~(i <= m)
    <3>1. i - m \in 1..n /\ i = m + (i - m)
      BY <1>3, <1>4, <2>2
    <3>2. next[m + (i - m)].node \in kids /\ next[m + (i - m)].depth = e.depth + 1
      BY <3>1, <1>5
    <3> QED BY <3>1, <3>2
  <2> QED BY <2>1, <2>2
<1>8. ASSUME NEW i \in 1..m PROVE i \in 1..(m + n)
  BY <1>3, <1>4
<1>9. ASSUME NEW x \in kids
      PROVE  \E i \in DOMAIN next : next[i].node = x /\ next[i].depth = e.depth + 1
  <2>1. PICK k \in 1..n : next[m + k].node = x
    BY <1>5
  <2>2. m + k \in 1..(m + n)
    BY <1>3, <1>4
  <2> QED BY <2>1, <2>2, <1>5, <1>6
<1> QED BY <1>1, <1>2, <1>3, <1>4, <1>5, <1>6, <1>7, <1>8, <1>9 DEF n, Positions

\* The walk goes on past its last entry, to children it has not seen.
GoesOn(t, st, next, S, e, kids) ==
    /\ Visits(t, next, S \cup {e.node}) /\ e.node \notin S
    /\ kids \cap (S \cup Nodes(st)) = {}

LEMMA WalkVisits ==
    ASSUME NEW t, Tree(t), NEW st \in Seq(Entries(t)), st # <<>>,
           NEW next, Pushed(t, st, next), NEW S, Visits(t, st, S),
           NEW e, e = st[Len(st)], NEW kids, kids = ChildrenOf(t, e.node)
    PROVE  GoesOn(t, st, next, S, e, kids)
<1> DEFINE m == Len(st) - 1
           n == Cardinality(kids)
           T == S \cup {e.node}
<1>0. m = Len(st) - 1 /\ n = Cardinality(kids)
  OBVIOUS
<1> HIDE DEF m, n
<1>1. /\ m \in Nat /\ n \in Nat /\ DOMAIN st = 1..(m + 1) /\ e = st[m + 1]
      /\ kids \subseteq t.nodes /\ e \in Entries(t)
      /\ DOMAIN next = 1..(m + n)
      /\ \A i \in DOMAIN next :
            \/ i \in 1..m /\ next[i] = st[i]
            \/ \E k \in 1..n :
                 i = m + k /\ next[i].node \in kids /\ next[i].depth = e.depth + 1
  <2>1. Positions(t, st, next, m, e, kids)
    BY <1>0, PushedPositions
  <2> QED BY <2>1, <1>0 DEF Positions
<1>2. /\ S \subseteq t.nodes /\ S \cap Nodes(st) = {}
      /\ \A i, j \in 1..(m + 1) : st[i].node = st[j].node => i = j
      /\ \A x \in (S \cup Nodes(st)) \ {1} : t.parent[x] \in S
  BY <1>1 DEF Visits
<1>3. \A k1, k2 \in 1..n : next[m + k1].node = next[m + k2].node => k1 = k2
  BY <1>0 DEF Pushed
<1>4. \A x \in kids : x # 1 /\ t.parent[x] = e.node
  BY DEF ChildrenOf
<1>5. m + 1 \in 1..(m + 1) /\ \A i \in 1..m : i \in 1..(m + 1) /\ i # m + 1
  BY <1>1
<1>6. e.node \in Nodes(st) /\ e.node \in t.nodes /\ \A i \in 1..m : st[i].node \in Nodes(st)
  BY <1>1, <1>5 DEF Nodes, Entries
<1>7. e.node \notin S
  BY <1>2, <1>6
<1>8. ASSUME NEW x \in kids PROVE x \notin S \cup Nodes(st)
  BY <1>2, <1>4, <1>7
<1>9. ASSUME NEW i \in 1..m PROVE st[i].node \notin T
  BY <1>1, <1>2, <1>5, <1>6
<1>10. ASSUME NEW x \in Nodes(next) PROVE x \notin T /\ (x \in kids \/ x \in Nodes(st))
  <2>1. PICK i \in DOMAIN next : x = next[i].node
    BY DEF Nodes
  <2>2. CASE i \in 1..m /\ next[i] = st[i]
    BY <2>1, <2>2, <1>6, <1>9
  <2>3. CASE next[i].node \in kids
    BY <2>1, <2>3, <1>6, <1>8
  <2> QED BY <2>2, <2>3, <1>1
<1>11. ASSUME NEW i \in DOMAIN next, NEW j \in DOMAIN next, next[i].node = next[j].node
       PROVE  i = j
  <2>1. CASE i \in 1..m /\ next[i] = st[i] /\ j \in 1..m /\ next[j] = st[j]
    BY <2>1, <1>2, <1>5, <1>11
  <2>2. CASE i \in 1..m /\ next[i] = st[i] /\ next[j].node \in kids
    BY <2>2, <1>6, <1>8, <1>11
  <2>3. CASE j \in 1..m /\ next[j] = st[j] /\ next[i].node \in kids
    BY <2>3, <1>6, <1>8, <1>11
  <2>4. ASSUME NEW k1 \in 1..n, NEW k2 \in 1..n, i = m + k1, j = m + k2
        PROVE  i = j
    BY <2>4, <1>3, <1>11
  <2> QED BY <2>1, <2>2, <2>3, <2>4, <1>1
<1>12. ASSUME NEW x \in (T \cup Nodes(next)) \ {1} PROVE t.parent[x] \in T
  <2>1. CASE x \in kids
    BY <2>1, <1>4
  <2>2. CASE x \in S \cup Nodes(st)
    BY <2>2, <1>2
  <2> QED BY <2>1, <2>2, <1>6, <1>10
<1>13. Visits(t, next, T)
  BY <1>2, <1>6, <1>10, <1>11, <1>12 DEF Visits
<1> QED BY <1>7, <1>8, <1>13 DEF GoesOn

\* The nodes walked, those of the stack and the children of its last entry are
\* all different.
LEMMA WorkIsThere ==
    ASSUME NEW t, Tree(t), NEW st \in Seq(Entries(t)), NEW S, Visits(t, st, S),
           NEW kids, kids \subseteq t.nodes, kids \cap (S \cup Nodes(st)) = {}
    PROVE  /\ Cardinality(S) \in Nat /\ Cardinality(kids) \in Nat
           /\ Cardinality(S) + Len(st) + Cardinality(kids) <= Cardinality(t.nodes)
<1> DEFINE n == Len(st)
           f == [i \in 1..n |-> st[i].node]
<1>1. n \in Nat /\ DOMAIN st = 1..n /\ \A i \in 1..n : st[i] \in Entries(t)
  OBVIOUS
<1>2. f \in Bijection(1..n, Nodes(st))
  BY <1>1 DEF Bijection, Injection, Surjection, IsInjective, Nodes, Visits
<1>3. IsFiniteSet(Nodes(st)) /\ Cardinality(Nodes(st)) = n
  <2>1. ExistsBijection(1..n, Nodes(st))
    BY <1>2 DEF ExistsBijection
  <2> HIDE DEF f, n
  <2>2. IsFiniteSet(1..n) /\ Cardinality(1..n) = n
    <3>1. 1 \in Int /\ n \in Int
      BY <1>1
    <3>2. IsFiniteSet(1..n) /\ Cardinality(1..n) = IF 1 > n THEN 0 ELSE n - 1 + 1
      BY <3>1, FS_Interval
    <3> QED BY <3>2, <1>1
  <2>3. IsFiniteSet(Nodes(st)) /\ Cardinality(Nodes(st)) = Cardinality(1..n)
    BY <2>1, <2>2, FS_Bijection
  <2> QED BY <2>2, <2>3
<1>4. Nodes(st) \subseteq t.nodes
  BY <1>1 DEF Nodes, Entries
<1>5. S \subseteq t.nodes /\ S \cap Nodes(st) = {}
  BY DEF Visits
<1>6. IsFiniteSet(S) /\ IsFiniteSet(kids) /\ IsFiniteSet(t.nodes)
  BY <1>5, FS_Subset DEF Tree
<1>7. Cardinality(S) \in Nat /\ Cardinality(kids) \in Nat /\ Cardinality({}) = 0
  BY <1>6, FS_CardinalityType, FS_EmptySet
<1> DEFINE A == S \cup Nodes(st)
           B == A \cup kids
<1>8. IsFiniteSet(A) /\ Cardinality(A) = Cardinality(S) + n
  <2>1. Cardinality(A) = Cardinality(S) + Cardinality(Nodes(st)) - Cardinality(S \cap Nodes(st))
    BY <1>3, <1>6, FS_Union
  <2>2. IsFiniteSet(A)
    BY <1>3, <1>6, FS_Union
  <2>3. Cardinality(S \cap Nodes(st)) = 0
    BY <1>5, <1>7
  <2> HIDE DEF A, n
  <2> QED BY <2>1, <2>2, <2>3, <1>1, <1>3, <1>7
<1>9. IsFiniteSet(B) /\ Cardinality(B) = Cardinality(A) + Cardinality(kids)
  <2>1. A \cap kids = {}
    OBVIOUS
  <2> HIDE DEF A
  <2>2. /\ Cardinality(B) = Cardinality(A) + Cardinality(kids) - Cardinality(A \cap kids)
        /\ IsFiniteSet(B)
    BY <1>6, <1>8, FS_Union
  <2>3. Cardinality(A \cap kids) = 0 /\ Cardinality(A) \in Nat
    BY <2>1, <1>7, <1>8, FS_CardinalityType
  <2> HIDE DEF B
  <2> QED BY <2>2, <2>3, <1>7
<1>10. B \subseteq t.nodes
  BY <1>4, <1>5
<1> HIDE DEF A, B, n
<1>11. Cardinality(B) <= Cardinality(t.nodes)
  BY <1>6, <1>10, FS_Subset
<1>12. n \in Nat /\ Cardinality(t.nodes) \in Nat /\ Len(st) = n
  BY <1>1, <1>6, FS_CardinalityType DEF n
<1> QED BY <1>7, <1>8, <1>9, <1>11, <1>12

-----------------------------------------------------------------------------
\* A way grows by a child of its last node, and begins with a way.
LEMMA WayGrows ==
    ASSUME NEW t, NEW d \in Nat \ {0}, NEW way \in Ways(t, d), NEW x \in ChildrenOf(t, way[d])
    PROVE  \E longer \in Ways(t, d + 1) : longer[d + 1] = x
<1> DEFINE longer == [i \in 1..(d + 1) |-> IF i <= d THEN way[i] ELSE x]
<1>1. way \in [1..d -> t.nodes] /\ way[1] = 1
      /\ \A i \in 1..(d - 1) : way[i + 1] \in ChildrenOf(t, way[i])
  BY DEF Ways
<1>2. x \in t.nodes
  BY DEF ChildrenOf
<1>3. longer \in [1..(d + 1) -> t.nodes]
  BY <1>1, <1>2
<1>4. /\ \A i \in 1..d : longer[i] = way[i]
      /\ longer[d + 1] = x
  OBVIOUS
<1> HIDE DEF longer
<1>5. longer[1] = 1
  BY <1>1, <1>4
<1>6. ASSUME NEW i \in 1..d PROVE longer[i + 1] \in ChildrenOf(t, longer[i])
  <2>1. CASE i = d
    BY <1>4, <2>1
  <2>2. CASE i # d
    <3>1. i \in 1..(d - 1) /\ i + 1 \in 1..d
      BY <2>2
    <3> QED BY <3>1, <1>1, <1>4
  <2> QED BY <2>1, <2>2
<1>7. (d + 1) - 1 = d
  OBVIOUS
<1>8. longer \in Ways(t, d + 1)
  BY <1>3, <1>5, <1>6, <1>7 DEF Ways
<1> QED BY <1>4, <1>8

LEMMA WayBegins ==
    ASSUME NEW t, NEW d \in Nat \ {0}, NEW way \in Ways(t, d), NEW k \in 1..d
    PROVE  Ways(t, k) # {}
<1> DEFINE start == [i \in 1..k |-> way[i]]
<1>1. way \in [1..d -> t.nodes] /\ way[1] = 1
      /\ \A i \in 1..(d - 1) : way[i + 1] \in ChildrenOf(t, way[i])
  BY DEF Ways
<1>2. start \in [1..k -> t.nodes] /\ \A i \in 1..k : start[i] = way[i]
  BY <1>1
<1> HIDE DEF start
<1>3. start[1] = 1
  BY <1>1, <1>2
<1>4. ASSUME NEW i \in 1..(k - 1) PROVE start[i + 1] \in ChildrenOf(t, start[i])
  <2>1. i \in 1..k /\ i + 1 \in 1..k /\ i \in 1..(d - 1)
    OBVIOUS
  <2> QED BY <2>1, <1>1, <1>2
<1>5. start \in Ways(t, k)
  BY <1>2, <1>3, <1>4 DEF Ways
<1> QED BY <1>5

LEMMA WalkReaches ==
    ASSUME NEW t, Tree(t), NEW st \in Seq(Entries(t)), st # <<>>,
           NEW next, Pushed(t, st, next), Reached(t, st)
    PROVE  Reached(t, next)
<1> DEFINE m == Len(st) - 1
           e == st[Len(st)]
           kids == ChildrenOf(t, e.node)
<1>1. Positions(t, st, next, m, e, kids) /\ kids = ChildrenOf(t, e.node)
  <2>1. m = Len(st) - 1 /\ e = st[Len(st)] /\ kids = ChildrenOf(t, e.node)
    OBVIOUS
  <2> HIDE DEF m, e, kids
  <2> QED BY <2>1, PushedPositions
<1> HIDE DEF m, e, kids
<1>2. e.depth \in Nat \ {0}
  BY <1>1 DEF Positions, Entries
<1>3. PICK way \in Ways(t, e.depth) : way[e.depth] = e.node
  <2>1. m + 1 \in DOMAIN st /\ e = st[m + 1]
    BY <1>1 DEF Positions
  <2> QED BY <2>1 DEF Reached
<1>4. ASSUME NEW i \in DOMAIN next
      PROVE  \E w \in Ways(t, next[i].depth) : w[next[i].depth] = next[i].node
  <2>1. CASE i \in 1..m /\ next[i] = st[i]
    <3>1. i \in DOMAIN st
      BY <2>1, <1>1 DEF Positions
    <3> QED BY <2>1, <3>1 DEF Reached
  <2>2. CASE next[i].node \in kids /\ next[i].depth = e.depth + 1
    <3> DEFINE d == e.depth
               x == next[i].node
    <3>1. d \in Nat \ {0} /\ way \in Ways(t, d) /\ x \in ChildrenOf(t, way[d])
      BY <2>2, <1>1, <1>2, <1>3
    <3> HIDE DEF d, x
    <3>2. \E longer \in Ways(t, d + 1) : longer[d + 1] = x
      BY <3>1, WayGrows
    <3> USE DEF d, x
    <3> QED BY <3>2, <2>2
  <2> QED BY <2>1, <2>2, <1>1 DEF Positions
<1> QED BY <1>4 DEF Reached

LEMMA WalkCovers ==
    ASSUME NEW t, Tree(t), NEW st \in Seq(Entries(t)), st # <<>>,
           NEW next, Pushed(t, st, next), Covers(t, st), st[Len(st)].depth <= MaxJsonDepth
    PROVE  Covers(t, next)
<1> DEFINE m == Len(st) - 1
           e == st[Len(st)]
           kids == ChildrenOf(t, e.node)
<1>1. /\ Positions(t, st, next, m, e, kids) /\ kids = ChildrenOf(t, e.node)
      /\ e.depth <= MaxJsonDepth
  <2>1. m = Len(st) - 1 /\ e = st[Len(st)] /\ kids = ChildrenOf(t, e.node)
    OBVIOUS
  <2>2. e.depth <= MaxJsonDepth
    OBVIOUS
  <2> HIDE DEF m, e, kids
  <2> QED BY <2>1, <2>2, PushedPositions
<1> HIDE DEF m, e, kids
<1> DEFINE D == MaxJsonDepth
<1>2. D \in Nat
  BY BodyAssumption
<1>3. ASSUME NEW way \in Ways(t, D + 1)
      PROVE  \E i \in DOMAIN next, k \in 1..(D + 1) : next[i].node = way[k] /\ next[i].depth = k
  <2>1. PICK i \in DOMAIN st, k \in 1..(D + 1) : st[i].node = way[k] /\ st[i].depth = k
    BY DEF Covers
  <2>2. m \in Nat /\ i \in 1..(m + 1) /\ e = st[m + 1]
    BY <2>1, <1>1 DEF Positions
  <2>3. CASE i \in 1..m
    <3>1. i \in DOMAIN next /\ next[i] = st[i]
      BY <2>3, <1>1 DEF Positions
    <3> QED BY <3>1, <2>1
  <2>4. CASE i = m + 1
    <3>1. e.node = way[k] /\ e.depth = k /\ k \in 1..D
      BY <2>1, <2>2, <2>4, <1>1, <1>2
    <3>2. \A j \in 1..((D + 1) - 1) : way[j + 1] \in ChildrenOf(t, way[j])
      BY DEF Ways
    <3>3. (D + 1) - 1 = D /\ k + 1 \in 1..(D + 1)
      BY <3>1, <1>2
    <3>4. way[k + 1] \in kids
      BY <3>1, <3>2, <3>3, <1>1
    <3>5. \E j \in DOMAIN next : next[j].node = way[k + 1] /\ next[j].depth = k + 1
      BY <3>1, <3>4, <1>1 DEF Positions
    <3> QED BY <3>3, <3>5
  <2> QED BY <2>2, <2>3, <2>4
<1> QED BY <1>3 DEF Covers, D

\* A walk begins at the root,
LEMMA WalkBegins ==
    ASSUME NEW t, Tree(t), NEW st, st = <<[node |-> 1, depth |-> 1]>>
    PROVE  /\ st \in Seq(Entries(t)) /\ Len(st) = 1
           /\ Visits(t, st, {}) /\ Reached(t, st) /\ Covers(t, st)
<1>1. Len(st) = 1 /\ DOMAIN st = 1..1 /\ st[1].node = 1 /\ st[1].depth = 1
  OBVIOUS
<1>2. st \in Seq(Entries(t))
  BY DEF Entries, Tree
<1>3. Nodes(st) = {1}
  BY <1>1 DEF Nodes
<1>4. Visits(t, st, {})
  BY <1>1, <1>3 DEF Visits
<1>5. Reached(t, st)
  <2>1. [i \in 1..1 |-> 1] \in Ways(t, 1)
    BY DEF Ways, Tree
  <2> QED BY <1>1, <2>1 DEF Reached
<1>6. Covers(t, st)
  <2>1. ASSUME NEW way \in Ways(t, MaxJsonDepth + 1)
        PROVE  1 \in 1..(MaxJsonDepth + 1) /\ way[1] = 1
    BY BodyAssumption DEF Ways
  <2> QED BY <1>1, <2>1 DEF Covers
<1> QED BY <1>1, <1>2, <1>4, <1>5, <1>6

\* and one that is through has seen nothing too deep.
LEMMA WalkEnds ==
    ASSUME NEW t, Covers(t, <<>>)
    PROVE  ~TooDeep(t)
BY DEF Covers, TooDeep

\* The copy is a part of the tree, whole from the root on.
Values == [nodes : SUBSET Nat, parent : [2..(MaxJsonNodes + 1) -> 1..MaxJsonNodes],
            dropped : SUBSET Nat]

LEMMA CopyIsSound ==
    ASSUME NEW t \in Values, ~TooDeep(t)
    PROVE  LET copy == Sanitized(t)
           IN  /\ ~TooDeep(copy)
               /\ \A n \in copy.nodes \ {1} : n \notin copy.dropped /\ copy.parent[n] \in copy.nodes
<1> DEFINE kept == UNION {some \in SUBSET (t.nodes \ t.dropped) :
                            \A n \in some \ {1} : t.parent[n] \in some}
           copy == Sanitized(t)
<1>1. copy.nodes = kept /\ copy.parent = t.parent /\ copy.dropped = t.dropped
  BY DEF Sanitized, Values
<1>2. kept \subseteq t.nodes /\ kept \cap t.dropped = {}
  OBVIOUS
<1>3. \A n \in kept \ {1} : t.parent[n] \in kept
  OBVIOUS
<1> HIDE DEF kept, copy
<1>4. \A n : ChildrenOf(copy, n) \subseteq ChildrenOf(t, n)
  BY <1>1, <1>2 DEF ChildrenOf
<1>5. ASSUME NEW way \in Ways(copy, MaxJsonDepth + 1) PROVE way \in Ways(t, MaxJsonDepth + 1)
  <2>1. way \in [1..(MaxJsonDepth + 1) -> kept]
    BY <1>1 DEF Ways
  <2>2. way \in [1..(MaxJsonDepth + 1) -> t.nodes]
    BY <2>1, <1>2
  <2> QED BY <2>2, <1>4 DEF Ways
<1>6. ~TooDeep(copy)
  BY <1>5 DEF TooDeep
<1> QED BY <1>1, <1>2, <1>3, <1>6 DEF copy

-----------------------------------------------------------------------------
(* The invariant *)

ReadPhases == {"reading", "walking", "read", "refused"}

\* While the body is read, what is kept is what was taken, within the cap.
ReadingInv ==
    /\ source.arrived \in Seq(Nat) /\ source.taken \in Seq(Nat)
    /\ DOMAIN source = {"arrived", "taken", "state"}
    /\ buffered \in 0..MaxBody /\ phase \in ReadPhases
    /\ deadline \in {NoError, "timeout", "gone"}
    /\ phase = "reading" => buffered = BytesOf(source.taken) /\ why = NoError /\ walked = 0
    /\ phase # "reading" => guards = Free
    /\ phase \in {"walking", "read"} =>
         /\ source.state = "ended" /\ source.arrived = <<>>
         /\ buffered = BytesOf(source.taken) /\ why = NoError
    /\ why = "bytes" => BytesOf(source.taken) > MaxBody

\* While it is walked, the stack and the nodes behind it are of the tree, each
\* once, and all that is not behind it is still below the stack.
WalkingInv ==
    phase = "walking" =>
        /\ value \in Values /\ Tree(value)
        /\ stack \in Seq(Entries(value)) /\ walked \in Nat
        /\ walked + Len(stack) <= MaxJsonNodes
        /\ \E S \in SUBSET value.nodes : Visits(value, stack, S) /\ Cardinality(S) = walked
        /\ Reached(value, stack) /\ Covers(value, stack)

\* How it ended is true of the tree.
EndInv ==
    /\ phase = "read" => walked <= MaxJsonNodes /\ ~TooDeep(value)
    /\ phase = "read" => \A n \in value.nodes \ {1} :
                            n \notin value.dropped /\ value.parent[n] \in value.nodes
    /\ why = "nodes" => Cardinality(value.nodes) > MaxJsonNodes
    /\ why = "depth" => TooDeep(value)

BodyInv == ReadingInv /\ WalkingInv /\ EndInv

LEMMA ParsedIsTree == \A t \in ParsedValues : t \in Values /\ Tree(t)
<1> SUFFICES ASSUME NEW t \in ParsedValues PROVE t \in Values /\ Tree(t)
  OBVIOUS
<1>1. PICK n \in 1..(MaxJsonNodes + 1), p \in [2..(MaxJsonNodes + 1) -> 1..MaxJsonNodes],
           d \in SUBSET (2..(MaxJsonNodes + 1)) :
        t = [nodes |-> 1..n, parent |-> p, dropped |-> d]
  BY DEF ParsedValues, Trees
<1>2. n \in Nat /\ 1 \in 1..n /\ 1..n \in SUBSET Nat /\ d \in SUBSET Nat
  BY BodyAssumption
<1>3. IsFiniteSet(1..n)
  BY <1>2, FS_Interval
<1>4. t \in Values
  BY <1>1, <1>2 DEF Values
<1>5. Tree(t)
  BY <1>1, <1>2, <1>3 DEF Tree
<1> QED BY <1>4, <1>5

LEMMA ReadBegins == ReadInit => BodyInv
<1> SUFFICES ASSUME ReadInit PROVE BodyInv
  OBVIOUS
<1>1. ReadingInv
  BY BodyAssumption, BytesOfNone DEF ReadInit, ReadingInv, ReadPhases
<1>2. WalkingInv
  BY DEF ReadInit, WalkingInv
<1>3. EndInv
  BY BodyAssumption DEF ReadInit, EndInv
<1> QED BY <1>1, <1>2, <1>3 DEF BodyInv

\* Whatever leaves the tree, the phase and the walk alone keeps their parts.
LEMMA WalkUntouched ==
    ASSUME WalkingInv, EndInv, UNCHANGED <<value, stack, walked, phase, why>>
    PROVE  WalkingInv' /\ EndInv'
BY DEF WalkingInv, EndInv

\* So does a refusal while the body is read, for a reason that is not the tree's.
LEMMA RefusedReading ==
    ASSUME phase' = "refused", why' \notin {"nodes", "depth"}
    PROVE  WalkingInv' /\ EndInv'
BY DEF WalkingInv, EndInv

LEMMA SourceSendsKeeps ==
    ASSUME BodyInv, SourceSends PROVE BodyInv'
<1>1. /\ source'.arrived \in Seq(Nat) /\ source'.taken = source.taken
      /\ DOMAIN source' = {"arrived", "taken", "state"}
  <2>1. \A size \in Sizes : Append(source.arrived, size) \in Seq(Nat)
    BY DEF BodyInv, ReadingInv, Sizes
  <2> QED BY <2>1 DEF BodyInv, ReadingInv, SourceSends
<1>4. phase = "reading" /\ UNCHANGED <<deadline, guards, buffered, phase, why, walked>>
  BY DEF SourceSends, Unparsed
<1>5. ReadingInv
  BY DEF BodyInv
<1>2. ReadingInv'
  BY <1>1, <1>4, <1>5, BodyAssumption DEF ReadingInv
<1>3. WalkingInv' /\ EndInv'
  BY WalkUntouched DEF BodyInv, SourceSends, Unparsed
<1> QED BY <1>2, <1>3 DEF BodyInv

LEMMA DeadlineKeeps ==
    ASSUME BodyInv, NEW reason \in {"timeout", "gone"}, DeadlineSettles(reason)
    PROVE  BodyInv'
<1>1. /\ deadline' \in {"timeout", "gone"}
      /\ UNCHANGED <<source, guards, buffered, phase, why, walked>>
  BY DEF DeadlineSettles, Unparsed
<1>3. ReadingInv
  BY DEF BodyInv
<1>4. ReadingInv'
  BY <1>1, <1>3 DEF ReadingInv
<1>2. WalkingInv' /\ EndInv'
  BY WalkUntouched DEF BodyInv, DeadlineSettles, Unparsed
<1> QED BY <1>2, <1>4 DEF BodyInv

LEMMA TakeChunkKeeps ==
    ASSUME BodyInv, TakeChunk PROVE BodyInv'
<1> DEFINE size == Head(source.arrived)
           taken == Append(source.taken, size)
<1>1. size \in Nat /\ Tail(source.arrived) \in Seq(Nat) /\ taken \in Seq(Nat)
  BY DEF BodyInv, ReadingInv, TakeChunk
<1>2. /\ source'.arrived = Tail(source.arrived) /\ source'.taken = taken
      /\ source'.state = source.state /\ DOMAIN source' = {"arrived", "taken", "state"}
  BY DEF BodyInv, ReadingInv, TakeChunk
<1>3. BytesOf(taken) = buffered + size /\ phase = "reading" /\ why = NoError /\ walked = 0
  BY <1>1, BytesOfMore DEF BodyInv, ReadingInv, TakeChunk
<1>4. /\ deadline' = deadline /\ value' = value /\ stack' = stack /\ walked' = walked
      /\ \/ /\ buffered + size > MaxBody /\ phase' = "refused" /\ why' = "bytes"
            /\ guards' = Free /\ buffered' = buffered
         \/ /\ ~(buffered + size > MaxBody) /\ buffered' = buffered + size
            /\ phase' = phase /\ why' = why /\ guards' = guards
  BY DEF TakeChunk, Refused, Release, Unparsed
<1>5. buffered \in 0..MaxBody /\ MaxBody \in Nat /\ deadline \in {NoError, "timeout", "gone"}
  BY BodyAssumption DEF BodyInv, ReadingInv
<1> HIDE DEF size, taken
<1>6. CASE buffered + size > MaxBody
  <2>1. ReadingInv'
    BY <1>1, <1>2, <1>3, <1>4, <1>5, <1>6 DEF ReadingInv, ReadPhases
  <2> QED BY <2>1, <1>4, <1>6, RefusedReading DEF BodyInv
<1>7. CASE ~(buffered + size > MaxBody)
  <2>1. ReadingInv'
    BY <1>1, <1>2, <1>3, <1>4, <1>5, <1>7, BodyAssumption DEF ReadingInv, ReadPhases
  <2>2. UNCHANGED <<value, stack, walked, phase, why>>
    BY <1>4, <1>7
  <2> QED BY <2>1, <2>2, WalkUntouched DEF BodyInv
<1> QED BY <1>6, <1>7

LEMMA EndBodyKeeps ==
    ASSUME BodyInv, EndBody PROVE BodyInv'
<1>1. /\ phase = "reading" /\ source.arrived = <<>> /\ source.state = "ended"
      /\ guards' = Free /\ source' = source /\ deadline' = deadline /\ buffered' = buffered
  BY DEF EndBody, Release
<1>2. CASE phase' = "refused" /\ why' = "syntax" /\ Unparsed
  <2>1. ReadingInv'
    BY <1>1, <1>2 DEF BodyInv, ReadingInv, ReadPhases
  <2> QED BY <2>1, <1>2, RefusedReading DEF BodyInv
<1>3. CASE /\ value' \in ParsedValues /\ stack' = <<[node |-> 1, depth |-> 1]>>
           /\ phase' = "walking" /\ UNCHANGED <<why, walked>>
  <2>1. ReadingInv'
    BY <1>1, <1>3, BodyAssumption DEF BodyInv, ReadingInv, ReadPhases
  <2>2. value' \in Values /\ Tree(value')
    BY <1>3, ParsedIsTree
  <2>3. /\ stack' \in Seq(Entries(value')) /\ Len(stack') = 1
        /\ Visits(value', stack', {}) /\ Reached(value', stack') /\ Covers(value', stack')
    BY <1>3, <2>2, WalkBegins
  <2>4. walked' = 0 /\ why' = NoError
    BY <1>1, <1>3 DEF BodyInv, ReadingInv
  <2>5. {} \in SUBSET value'.nodes /\ Cardinality({}) = 0
    BY FS_EmptySet
  <2>6. WalkingInv'
    BY <2>2, <2>3, <2>4, <2>5, BodyAssumption DEF WalkingInv
  <2>7. EndInv'
    BY <2>4, <1>3, BodyAssumption DEF EndInv
  <2> QED BY <2>1, <2>6, <2>7 DEF BodyInv
<1> QED BY <1>2, <1>3 DEF EndBody

LEMMA BreakOffKeeps ==
    ASSUME BodyInv, BreakOff PROVE BodyInv'
<1>1. ReadingInv'
  BY DEF BodyInv, ReadingInv, BreakOff, Refused, Release, ReadPhases
<1> QED BY <1>1, RefusedReading DEF BodyInv, BreakOff, Refused

LEMMA GiveUpKeeps ==
    ASSUME BodyInv, GiveUp PROVE BodyInv'
<1>1. deadline \in {"timeout", "gone"}
  BY DEF BodyInv, ReadingInv, GiveUp
<1>2. ReadingInv'
  BY <1>1 DEF BodyInv, ReadingInv, GiveUp, Refused, Release, ReadPhases
<1> QED BY <1>1, <1>2, RefusedReading DEF BodyInv, GiveUp, Refused

LEMMA WalkKeeps ==
    ASSUME BodyInv, Walk PROVE BodyInv'
<1> DEFINE item == Last(stack)
           kids == ChildrenOf(value, item.node)
           next == Front(stack) \o [i \in 1..Cardinality(kids) |->
                       [node |-> SetToSeq(kids)[i], depth |-> item.depth + 1]]
           work == walked + 1 + Len(Front(stack)) + Cardinality(kids)
<1>1. /\ phase = "walking" /\ stack # <<>> /\ walked' = walked + 1
      /\ UNCHANGED <<source, deadline, guards, buffered, value>>
      /\ \/ /\ walked + 1 > MaxJsonNodes \/ work > MaxJsonNodes
            /\ phase' = "refused" /\ why' = "nodes" /\ stack' = stack
         \/ /\ item.depth > MaxJsonDepth
            /\ phase' = "refused" /\ why' = "depth" /\ stack' = stack
         \/ /\ ~(work > MaxJsonNodes) /\ ~(item.depth > MaxJsonDepth)
            /\ stack' = next /\ phase' = phase /\ why' = why
  BY DEF Walk, TooWide
<1>2. /\ value \in Values /\ Tree(value)
      /\ stack \in Seq(Entries(value)) /\ walked \in Nat
      /\ Reached(value, stack) /\ Covers(value, stack)
  BY <1>1 DEF BodyInv, WalkingInv
<1>3. PICK S \in SUBSET value.nodes : Visits(value, stack, S) /\ Cardinality(S) = walked
  BY <1>1 DEF BodyInv, WalkingInv
<1>4. Pushed(value, stack, next)
  BY <1>1, <1>2, PushedByWalk
<1>5. /\ Len(stack) \in Nat \ {0} /\ item = stack[Len(stack)] /\ Len(Front(stack)) = Len(stack) - 1
      /\ item.depth \in Nat /\ item \in Entries(value)
  <2>1. Len(stack) \in Nat \ {0} /\ \A i \in 1..Len(stack) : stack[i] \in Entries(value)
    BY <1>1, <1>2, EmptySeq
  <2>2. item = stack[Len(stack)] /\ item \in Entries(value)
    BY <2>1 DEF Last
  <2>3. 1 \in Int /\ Len(stack) - 1 \in Int /\ \A i \in 1..(Len(stack) - 1) : stack[i] \in Entries(value)
    BY <2>1
  <2>4. Len(SubSeq(stack, 1, Len(stack) - 1)) =
            IF 1 <= Len(stack) - 1 THEN (Len(stack) - 1) - 1 + 1 ELSE 0
    BY <2>3, SubSeqProperties
  <2>5. Len(Front(stack)) = Len(stack) - 1
    <3>1. Front(stack) = SubSeq(stack, 1, Len(stack) - 1)
      BY DEF Front
    <3>2. ASSUME NEW n \in Nat \ {0}
          PROVE  (IF 1 <= n - 1 THEN (n - 1) - 1 + 1 ELSE 0) = n - 1
      OBVIOUS
    <3>3. (IF 1 <= Len(stack) - 1 THEN (Len(stack) - 1) - 1 + 1 ELSE 0) = Len(stack) - 1
      BY <2>1, <3>2
    <3> QED BY <2>4, <3>1, <3>3
  <2>6. item.depth \in Nat
    BY <2>2 DEF Entries
  <2> QED BY <2>1, <2>2, <2>5, <2>6
<1>6. kids = ChildrenOf(value, item.node)
  OBVIOUS
<1> HIDE DEF item, kids, next
<1>7. /\ Visits(value, next, S \cup {item.node}) /\ item.node \notin S
      /\ kids \cap (S \cup Nodes(stack)) = {}
  <2>1. Tree(value) /\ stack \in Seq(Entries(value)) /\ stack # <<>>
    BY <1>1, <1>2
  <2>2. Pushed(value, stack, next) /\ Visits(value, stack, S)
    BY <1>3, <1>4
  <2>3. item = stack[Len(stack)]
    BY <1>5
  <2>4. GoesOn(value, stack, next, S, item, kids)
    BY <2>1, <2>2, <2>3, <1>6, WalkVisits
  <2> QED BY <2>4 DEF GoesOn
<1>8. kids \subseteq value.nodes
  BY <1>6 DEF ChildrenOf
<1>9. /\ Cardinality(S) \in Nat /\ Cardinality(kids) \in Nat
      /\ Cardinality(S) + Len(stack) + Cardinality(kids) <= Cardinality(value.nodes)
  BY <1>2, <1>3, <1>7, <1>8, WorkIsThere
<1>10. work = walked + Len(stack) + Cardinality(kids)
  BY <1>2, <1>5, <1>9
<1>11. Cardinality(value.nodes) \in Nat
  BY <1>2, FS_CardinalityType DEF Tree
<1>12. /\ MaxJsonNodes \in Nat /\ MaxJsonDepth \in Nat
       /\ NoError \notin {"bytes", "nodes", "depth"}
  BY BodyAssumption
<1> HIDE DEF work
<1>13. ReadingInv'
  BY <1>1, <1>12 DEF BodyInv, ReadingInv, ReadPhases
<1>14. CASE /\ walked + 1 > MaxJsonNodes \/ work > MaxJsonNodes
            /\ phase' = "refused" /\ why' = "nodes" /\ stack' = stack
  <2>1. Cardinality(value.nodes) > MaxJsonNodes
    BY <1>14, <1>2, <1>3, <1>5, <1>9, <1>10, <1>11, <1>12
  <2>2. WalkingInv' /\ EndInv'
    BY <2>1, <1>1, <1>14 DEF WalkingInv, EndInv
  <2> QED BY <2>2, <1>13 DEF BodyInv
<1>15. CASE /\ item.depth > MaxJsonDepth
            /\ phase' = "refused" /\ why' = "depth" /\ stack' = stack
  <2>1. Len(stack) \in DOMAIN stack
    BY <1>2, <1>5
  <2>2. PICK way \in Ways(value, item.depth) : way[item.depth] = item.node
    BY <2>1, <1>2, <1>5 DEF Reached
  <2> DEFINE d == item.depth
             k == MaxJsonDepth + 1
  <2>3. d \in Nat \ {0} /\ way \in Ways(value, d) /\ k \in 1..d
    BY <2>2, <1>5, <1>12, <1>15
  <2> HIDE DEF d, k
  <2>4. Ways(value, k) # {}
    BY <2>3, WayBegins
  <2>5. TooDeep(value)
    BY <2>4 DEF TooDeep, k
  <2>6. WalkingInv' /\ EndInv'
    BY <2>5, <1>1, <1>15 DEF WalkingInv, EndInv
  <2> QED BY <2>6, <1>13 DEF BodyInv
<1>16. CASE /\ ~(work > MaxJsonNodes) /\ ~(item.depth > MaxJsonDepth)
            /\ stack' = next /\ phase' = phase /\ why' = why
  <2>1. Reached(value, next)
    BY <1>1, <1>2, <1>4, WalkReaches
  <2>2. stack[Len(stack)].depth <= MaxJsonDepth
    BY <1>5, <1>12, <1>16
  <2>3. Covers(value, next)
    BY <2>2, <1>1, <1>2, <1>4, WalkCovers
  <2>4. next \in Seq(Entries(value)) /\ Len(next) = (Len(stack) - 1) + Cardinality(kids)
    BY <1>4, <1>5, <1>6 DEF Pushed
  <2>5. (walked + 1) + Len(next) <= MaxJsonNodes
    BY <2>4, <1>2, <1>5, <1>9, <1>10, <1>12, <1>16
  <2>6. Cardinality(S \cup {item.node}) = walked + 1
    <3>1. IsFiniteSet(S)
      BY <1>2, <1>3, FS_Subset DEF Tree
    <3> QED BY <3>1, <1>3, <1>7, FS_AddElement
  <2>7. S \cup {item.node} \in SUBSET value.nodes
    BY <1>3, <1>5 DEF Entries
  <2>8. WalkingInv'
    BY <2>1, <2>3, <2>4, <2>5, <2>6, <2>7, <1>1, <1>2, <1>7, <1>16 DEF WalkingInv
  <2>9. EndInv'
    BY <1>1, <1>12, <1>16 DEF EndInv, BodyInv, ReadingInv
  <2> QED BY <2>8, <2>9, <1>13 DEF BodyInv
<1> QED BY <1>1, <1>14, <1>15, <1>16

LEMMA CloneKeeps ==
    ASSUME BodyInv, Clone PROVE BodyInv'
<1>1. /\ phase = "walking" /\ stack = <<>> /\ value' = Sanitized(value) /\ phase' = "read"
      /\ UNCHANGED <<source, deadline, guards, buffered, why, stack, walked>>
  BY DEF Clone
<1>2. /\ value \in Values /\ Covers(value, <<>>) /\ walked \in Nat
      /\ walked + Len(<<>>) <= MaxJsonNodes
  BY <1>1 DEF BodyInv, WalkingInv
<1>3. ~TooDeep(value)
  BY <1>2, WalkEnds
<1>4. /\ ~TooDeep(value')
      /\ \A n \in value'.nodes \ {1} : n \notin value'.dropped /\ value'.parent[n] \in value'.nodes
  BY <1>1, <1>2, <1>3, CopyIsSound
<1>5. ReadingInv'
  BY <1>1 DEF BodyInv, ReadingInv, ReadPhases
<1>6. why' = NoError
  BY <1>1 DEF BodyInv, ReadingInv
<1>7. walked' <= MaxJsonNodes
  BY <1>1, <1>2, BodyAssumption
<1>8. EndInv'
  BY <1>1, <1>4, <1>6, <1>7, BodyAssumption DEF EndInv
<1>9. WalkingInv'
  BY <1>1 DEF WalkingInv
<1> QED BY <1>5, <1>8, <1>9 DEF BodyInv

LEMMA ReadingStep == BodyInv /\ [ReadNext]_bodyVars => BodyInv'
<1> SUFFICES ASSUME BodyInv, [ReadNext]_bodyVars PROVE BodyInv'
  OBVIOUS
<1>1. CASE UNCHANGED bodyVars
  BY <1>1 DEF bodyVars, BodyInv, ReadingInv, WalkingInv, EndInv
<1> QED BY <1>1, SourceSendsKeeps, TakeChunkKeeps, EndBodyKeeps, BreakOffKeeps, GiveUpKeeps,
           WalkKeeps, CloneKeeps, DeadlineKeeps DEF ReadNext

LEMMA BodyInvBounds == BodyInv => BodyIsBounded
<1> SUFFICES ASSUME BodyInv PROVE BodyIsBounded
  OBVIOUS
<1>1. phase \in {"walking", "read"} => source.taken \o source.arrived = source.taken
  BY DEF BodyInv, ReadingInv
<1>2. buffered <= MaxBody
  BY BodyAssumption DEF BodyInv, ReadingInv
<1> QED BY <1>1, <1>2 DEF BodyInv, ReadingInv, WalkingInv, EndInv, BodyIsBounded

\* Whatever the order of chunks, deadline and caller, and whatever the tree: no
\* more than the cap is kept, a body that is read is all that was sent, a refusal
\* is a true one, and the reader lets go however it ends.
THEOREM BodyStaysBounded == ReadSpec => []BodyIsBounded
<1>1. ReadInit => BodyInv
  BY ReadBegins
<1>2. BodyInv /\ [ReadNext]_bodyVars => BodyInv'
  BY ReadingStep
<1>3. BodyInv => BodyIsBounded
  BY BodyInvBounds
<1> QED BY <1>1, <1>2, <1>3, PTL DEF ReadSpec

\* Both ends of a request together: an answer that is fetched (upstream/fetch.ts)
\* and a body that is read (util/json.ts) stay within their limits and give back
\* what they hold, whatever the order of chunks, deadlines and signals.
THEOREM ExchangesAlwaysBounded == CallSpec /\ ReadSpec => []ExchangesStayBounded
<1>1. CallsAreReleased /\ BodyIsBounded => ExchangesStayBounded
  BY DEF ExchangesStayBounded
<1> QED BY <1>1, CallsAlwaysReleased, BodyStaysBounded, PTL


(***************************************************************************)
(* Metering.  Whatever way an answer's tokens were counted, the canonical  *)
(* prompt is the sum of the kinds spent and no kind is said to be more     *)
(* than it was; so the base is what the named kinds leave, never a         *)
(* cut-off, and the price of a prompt with tokens of a priced kind is      *)
(* above zero.                                                             *)
(***************************************************************************)

Spendings == [UsageKinds -> Nat]
Shapes == {"openai", "anthropic", "gemini", "other"}
Usages == [prompt : Nat, completion : Nat, cached : Nat, write5m : Nat,
           write1h : Nat, image : Nat, audioIn : Nat, audioOut : Nat]
Cards == [model : Nat \ {0}, completion : Nat, audioIn : Nat, audioOut : Nat]
Pricings == [card : Cards, cached : Nat \ {0}, write5m : Nat \ {0},
             write1h : Nat \ {0}, image : Nat \ {0}]

PromptSum(s) ==
    s.fresh + s.read + s.write5m + s.write1h + s.image + s.audioIn
AnswerSum(s) == s.text + s.thought + s.audioOut
Taken(u) == u.cached + u.write5m + u.write1h + u.image + u.audioIn

\* What an answer of this shape can have spent.
FitsNumbers(shape, itemised, s) ==
    /\ s \in Spendings
    /\ \A k \in UsageKinds \ KindsOf(shape) : s[k] = 0
    /\ shape = "anthropic" \/ ~itemised
    /\ ~itemised => s.write1h = 0

\* The prompt and the answer are whole, and of the kinds nothing is made up.
TellsSpent(u, s, whole) ==
    /\ u \in Usages
    /\ u.prompt = PromptSum(s) /\ u.completion = AnswerSum(s) /\ u.cached = s.read
    /\ u.write5m <= s.write5m /\ u.write1h <= s.write1h
    /\ u.image <= s.image /\ u.audioIn <= s.audioIn
    /\ whole => /\ u.write5m = s.write5m /\ u.write1h = s.write1h
                /\ u.image = s.image /\ u.audioIn = s.audioIn

InReport ==
    \E shape \in Shapes, itemised \in BOOLEAN :
        /\ FitsNumbers(shape, itemised, spent)
        /\ streamed => shape # "other"
        /\ usage = Reported(shape, spent, itemised)
InTranslation ==
    \E thought \in Nat :
        usage = OpenAiUsage(PromptSum(spent), spent.read, AnswerSum(spent), thought)

MeteringInv ==
    /\ group \in Nat /\ spent \in Spendings /\ streamed \in BOOLEAN
    /\ metering = "reported" => InReport
    /\ metering = "translated" => streamed /\ InTranslation
    /\ metering \in {"normalised", "charged"} => TellsSpent(usage, spent, ~streamed)
    /\ metering = "charged" => charge = ComputeQuota(usage, DefaultPricingFor(model))

-----------------------------------------------------------------------------

LEMMA OneKindMore ==
    ASSUME NEW f, NEW S, IsFiniteSet(S), NEW x, x \notin S,
           f[x] \in Nat, \A y \in S : f[y] \in Nat
    PROVE  /\ IsFiniteSet(S \cup {x}) /\ \A y \in S \cup {x} : f[y] \in Nat
           /\ Total(f, S \cup {x}) = f[x] + Total(f, S)
<1>1. IsFiniteSet(S \cup {x})
  BY FS_AddElement
<1>2. (S \cup {x}) \ {x} = S /\ x \in S \cup {x} /\ \A y \in S \cup {x} : f[y] \in Nat
  OBVIOUS
<1>3. SumFunctionOnSet(f, S \cup {x})
        = f[x] + SumFunctionOnSet(f, (S \cup {x}) \ {x})
  BY <1>1, <1>2, SumSplits
<1> QED BY <1>1, <1>2, <1>3 DEF Total

LEMMA EveryKindIsSummed ==
    ASSUME NEW f, \A k \in PromptKinds : f[k] \in Nat
    PROVE  /\ Total(f, PromptKinds \ {"audioIn"})
                = f["fresh"] + f["read"] + f["write5m"] + f["write1h"] + f["image"]
           /\ Total(f, PromptKinds)
                = f["audioIn"] + Total(f, PromptKinds \ {"audioIn"})
<1> DEFINE S1 == {} \cup {"fresh"}
           S2 == S1 \cup {"read"}
           S3 == S2 \cup {"write5m"}
           S4 == S3 \cup {"write1h"}
           S5 == S4 \cup {"image"}
<1>1. S5 = PromptKinds \ {"audioIn"} /\ S5 \cup {"audioIn"} = PromptKinds
  BY DEF PromptKinds
<1>2. /\ f["fresh"] \in Nat /\ f["read"] \in Nat /\ f["write5m"] \in Nat
      /\ f["write1h"] \in Nat /\ f["image"] \in Nat /\ f["audioIn"] \in Nat
  BY DEF PromptKinds
<1>3. /\ "read" \notin S1 /\ "write5m" \notin S2 /\ "write1h" \notin S3
      /\ "image" \notin S4 /\ "audioIn" \notin S5
  OBVIOUS
<1>4. /\ IsFiniteSet(S1) /\ \A y \in S1 : f[y] \in Nat
      /\ Total(f, S1) = f["fresh"]
  <2>1. IsFiniteSet({}) /\ Total(f, {}) = 0
    BY FS_EmptySet, SumOfNone DEF Total
  <2>2. "fresh" \notin {} /\ \A y \in {} : f[y] \in Nat
    OBVIOUS
  <2>3. Total(f, S1) = f["fresh"] + Total(f, {})
    BY <2>1, <2>2, <1>2, OneKindMore
  <2> QED BY <2>1, <2>2, <2>3, <1>2, OneKindMore
<1> HIDE DEF S1
<1>5. /\ IsFiniteSet(S2) /\ \A y \in S2 : f[y] \in Nat
      /\ Total(f, S2) = f["read"] + Total(f, S1)
  BY <1>2, <1>3, <1>4, OneKindMore
<1> HIDE DEF S2
<1>6. /\ IsFiniteSet(S3) /\ \A y \in S3 : f[y] \in Nat
      /\ Total(f, S3) = f["write5m"] + Total(f, S2)
  BY <1>2, <1>3, <1>5, OneKindMore
<1> HIDE DEF S3
<1>7. /\ IsFiniteSet(S4) /\ \A y \in S4 : f[y] \in Nat
      /\ Total(f, S4) = f["write1h"] + Total(f, S3)
  BY <1>2, <1>3, <1>6, OneKindMore
<1> HIDE DEF S4
<1>8. /\ IsFiniteSet(S5) /\ \A y \in S5 : f[y] \in Nat
      /\ Total(f, S5) = f["image"] + Total(f, S4)
  BY <1>2, <1>3, <1>7, OneKindMore
<1> HIDE DEF S5
<1>9. Total(f, S5 \cup {"audioIn"}) = f["audioIn"] + Total(f, S5)
  BY <1>2, <1>3, <1>8, OneKindMore
<1>10. Total(f, S5)
         = f["fresh"] + f["read"] + f["write5m"] + f["write1h"] + f["image"]
  BY <1>2, <1>4, <1>5, <1>6, <1>7, <1>8
<1> QED BY <1>1, <1>9, <1>10

LEMMA AnswerIsSummed ==
    ASSUME NEW f, \A k \in AnswerKinds : f[k] \in Nat
    PROVE  Total(f, AnswerKinds) = f["text"] + f["thought"] + f["audioOut"]
<1> DEFINE S1 == {} \cup {"text"}
           S2 == S1 \cup {"thought"}
<1>1. S2 \cup {"audioOut"} = AnswerKinds
  BY DEF AnswerKinds
<1>2. f["text"] \in Nat /\ f["thought"] \in Nat /\ f["audioOut"] \in Nat
  BY DEF AnswerKinds
<1>3. "thought" \notin S1 /\ "audioOut" \notin S2
  OBVIOUS
<1>4. /\ IsFiniteSet(S1) /\ \A y \in S1 : f[y] \in Nat
      /\ Total(f, S1) = f["text"]
  <2>1. IsFiniteSet({}) /\ Total(f, {}) = 0
    BY FS_EmptySet, SumOfNone DEF Total
  <2>2. "text" \notin {} /\ \A y \in {} : f[y] \in Nat
    OBVIOUS
  <2>3. Total(f, S1) = f["text"] + Total(f, {})
    BY <2>1, <2>2, <1>2, OneKindMore
  <2> QED BY <2>1, <2>2, <2>3, <1>2, OneKindMore
<1> HIDE DEF S1
<1>5. /\ IsFiniteSet(S2) /\ \A y \in S2 : f[y] \in Nat
      /\ Total(f, S2) = f["thought"] + Total(f, S1)
  BY <1>2, <1>3, <1>4, OneKindMore
<1> HIDE DEF S2
<1>6. Total(f, S2 \cup {"audioOut"}) = f["audioOut"] + Total(f, S2)
  BY <1>2, <1>3, <1>5, OneKindMore
<1>7. Total(f, S2 \cup {"audioOut"}) = f["text"] + f["thought"] + f["audioOut"]
  BY <1>2, <1>4, <1>5, <1>6
<1> QED BY <1>1, <1>7

-----------------------------------------------------------------------------

\* Of the families that start a name one is the longest; and whatever the name,
\* the price it gets is a price.
LEMMA EveryNameIsPriced == \A name : DefaultPricingFor(name) \in Pricings
<1> SUFFICES ASSUME NEW name PROVE DefaultPricingFor(name) \in Pricings
  OBVIOUS
<1> DEFINE found == {f \in Families : IsPrefix(f, name)}
           longest == CHOOSE f \in found : \A g \in found : Len(g) <= Len(f)
<1>1. \A f \in Families : Catalog[f] \in Cards
  BY DEF Catalog, Cards, Card, Families
<1>2. ASSUME found # {} PROVE longest \in found
  <2>1. \A f \in Families : Len(f) \in 1..3
    BY DEF Families
  <2>2. \E f \in found : \A g \in found : Len(g) <= Len(f)
    <3>1. CASE \E f \in found : Len(f) = 3
      BY <3>1, <2>1
    <3>2. CASE ~(\E f \in found : Len(f) = 3) /\ \E f \in found : Len(f) = 2
      BY <3>2, <2>1
    <3>3. CASE \A f \in found : Len(f) # 3 /\ Len(f) # 2
      BY <3>3, <2>1, <1>2
    <3> QED BY <3>1, <3>2, <3>3
  <2> QED BY <2>2
<1>3. CardFor(name) \in Cards
  <2>1. CASE found = {}
    BY <2>1 DEF CardFor, FallbackCard, Card, Cards
  <2>2. CASE found # {}
    <3>1. longest \in Families
      BY <1>2, <2>2
    <3>2. CardFor(name) = Catalog[longest]
      BY <2>2 DEF CardFor
    <3> HIDE DEF longest
    <3> QED BY <3>1, <3>2, <1>1
  <2> QED BY <2>1, <2>2
<1>4. CacheReadRatioFor(name) \in Nat \ {0}
  BY DEF CacheReadRatioFor
<1> QED BY <1>3, <1>4 DEF DefaultPricingFor, Pricings

LEMMA ProductGrows ==
    ASSUME NEW a \in Nat, NEW b \in Nat
    PROVE  /\ a * b \in Nat
           /\ a > 0 /\ b > 0 => a * b > 0
OBVIOUS

LEMMA Between ==
    ASSUME NEW n \in Int, NEW low \in Int, NEW high \in Int, low <= n, n <= high
    PROVE  n \in low..high
OBVIOUS

\* To the nearest quota.
LEMMA ToTheNearest ==
    ASSUME NEW total \in Nat,
           NEW near, near = (2 * total + Whole) \div (2 * Whole)
    PROVE  /\ near \in Nat
           /\ 2 * (near * Whole - total) \in (-Whole + 1)..Whole
           /\ near < 1 => total < Whole
<1>1. Whole = 40000
  BY DEF Whole
<1>2. near \in Int
  BY <1>1
<1>3. near * 80000 <= 2 * total + 40000 /\ 2 * total + 40000 < near * 80000 + 80000
  BY <1>1
<1>4. near >= 0
  BY <1>2, <1>3
<1>5. near < 1 => total < Whole
  BY <1>1, <1>2, <1>3, <1>4
<1>6. /\ 2 * (near * Whole - total) \in Int
      /\ Whole \in Int /\ -Whole + 1 \in Int
      /\ 2 * (near * Whole - total) <= Whole
      /\ -Whole + 1 <= 2 * (near * Whole - total)
  BY <1>1, <1>2, <1>3
<1>7. 2 * (near * Whole - total) \in (-Whole + 1)..Whole
  BY <1>6, Between
<1> QED BY <1>2, <1>4, <1>5, <1>7

-----------------------------------------------------------------------------

LEMMA CountsAreNaturals ==
    ASSUME NEW s \in Spendings
    PROVE  /\ s.fresh \in Nat /\ s.read \in Nat /\ s.write5m \in Nat
           /\ s.write1h \in Nat /\ s.image \in Nat /\ s.audioIn \in Nat
           /\ s.text \in Nat /\ s.thought \in Nat /\ s.audioOut \in Nat
BY DEF Spendings, UsageKinds, PromptKinds, AnswerKinds

\* What a shape cannot report was not spent.
LEMMA OthersAreZero ==
    ASSUME NEW shape \in Shapes, NEW itemised \in BOOLEAN, NEW s, FitsNumbers(shape, itemised, s)
    PROVE  /\ shape = "openai" => s.write5m = 0 /\ s.write1h = 0
           /\ shape = "anthropic" => /\ s.image = 0 /\ s.audioIn = 0
                                     /\ s.thought = 0 /\ s.audioOut = 0
           /\ shape \in {"gemini", "other"} =>
                 /\ s.write5m = 0 /\ s.write1h = 0 /\ s.image = 0
                 /\ s.audioIn = 0 /\ s.audioOut = 0
           /\ shape = "other" => s.thought = 0
<1> USE DEF FitsNumbers, UsageKinds, PromptKinds, AnswerKinds
<1>1. CASE shape = "openai"
  <2>1. "write5m" \in UsageKinds \ KindsOf(shape) /\ "write1h" \in UsageKinds \ KindsOf(shape)
    BY <1>1 DEF KindsOf
  <2> QED BY <1>1, <2>1
<1>2. CASE shape = "anthropic"
  <2>1. \A k \in {"image", "audioIn", "thought", "audioOut"} :
            k \in UsageKinds \ KindsOf(shape)
    BY <1>2 DEF KindsOf
  <2> QED BY <1>2, <2>1
<1>3. CASE shape = "gemini"
  <2>1. \A k \in {"write5m", "write1h", "image", "audioIn", "audioOut"} :
            k \in UsageKinds \ KindsOf(shape)
    BY <1>3 DEF KindsOf
  <2> QED BY <1>3, <2>1
<1>4. CASE shape = "other"
  <2>1. \A k \in {"write5m", "write1h", "image", "audioIn", "audioOut", "thought"} :
            k \in UsageKinds \ KindsOf(shape)
    BY <1>4 DEF KindsOf
  <2> QED BY <1>4, <2>1
<1> QED BY <1>1, <1>2, <1>3, <1>4 DEF Shapes

LEMMA NormalIsUsage ==
    ASSUME NEW prompt \in Nat, NEW completion \in Nat, NEW cached \in Nat,
           NEW n, n = Normal(prompt, completion, cached)
    PROVE  /\ n \in Usages
           /\ n.prompt = prompt /\ n.completion = completion /\ n.cached = cached
           /\ n.write5m = 0 /\ n.write1h = 0 /\ n.image = 0 /\ n.audioIn = 0
BY DEF Normal, Usages

LEMMA OpenAiIsRead ==
    ASSUME NEW u, u.prompt \in Nat, u.completion \in Nat, u.cached \in Nat,
           u.image \in Nat, u.audioIn \in Nat, u.audioOut \in Nat,
           NEW m, m = FromOpenAi(u)
    PROVE  /\ m \in Usages
           /\ m.prompt = u.prompt /\ m.completion = u.completion /\ m.cached = u.cached
           /\ m.write5m = 0 /\ m.write1h = 0 /\ m.image = u.image /\ m.audioIn = u.audioIn
<1> DEFINE n == Normal(u.prompt, u.completion, u.cached)
<1>1. /\ n \in Usages
      /\ n.prompt = u.prompt /\ n.completion = u.completion /\ n.cached = u.cached
      /\ n.write5m = 0 /\ n.write1h = 0 /\ n.image = 0 /\ n.audioIn = 0
  BY DEF Normal, Usages
<1>2. m = [n EXCEPT !.image = u.image, !.audioIn = u.audioIn, !.audioOut = u.audioOut]
  BY DEF FromOpenAi
<1> HIDE DEF n
<1> QED BY <1>1, <1>2 DEF Usages

LEMMA TranslationTells ==
    ASSUME NEW s \in Spendings, NEW thought \in Nat, NEW u,
           u = OpenAiUsage(PromptSum(s), s.read, AnswerSum(s), thought)
    PROVE  u.shape = "openai" /\ TellsSpent(FromOpenAi(u), s, FALSE)
<1>1. PromptSum(s) \in Nat /\ AnswerSum(s) \in Nat
  BY CountsAreNaturals DEF PromptSum, AnswerSum
<1>2. /\ u.shape = "openai"
      /\ u.prompt = PromptSum(s) /\ u.cached = s.read /\ u.completion = AnswerSum(s)
      /\ u.image = 0 /\ u.audioIn = 0 /\ u.audioOut = 0
  BY DEF OpenAiUsage
<1> DEFINE m == FromOpenAi(u)
<1>3. /\ m \in Usages
      /\ m.prompt = u.prompt /\ m.completion = u.completion /\ m.cached = u.cached
      /\ m.write5m = 0 /\ m.write1h = 0 /\ m.image = 0 /\ m.audioIn = 0
  <2>1. /\ u.prompt \in Nat /\ u.completion \in Nat /\ u.cached \in Nat
        /\ u.image \in Nat /\ u.audioIn \in Nat /\ u.audioOut \in Nat
    BY <1>1, <1>2, CountsAreNaturals
  <2> QED BY <1>2, <2>1, OpenAiIsRead
<1> HIDE DEF m
<1>4. TellsSpent(m, s, FALSE)
  BY <1>2, <1>3, CountsAreNaturals DEF TellsSpent
<1> QED BY <1>2, <1>4 DEF m

\* A translator says in OpenAI's shape what the provider said in its own.
LEMMA ReportTranslates ==
    ASSUME NEW shape \in Shapes, NEW itemised \in BOOLEAN, NEW s, FitsNumbers(shape, itemised, s)
    PROVE  LET r == Reported(shape, s, itemised)
               Said(u) == \E thought \in Nat :
                            u = OpenAiUsage(PromptSum(s), s.read, AnswerSum(s), thought)
           IN  /\ r.shape = shape
               /\ shape = "openai" => Said(UsageFromOpenai(r))
               /\ shape = "anthropic" => Said(UsageFromAnthropic(r))
               /\ shape = "gemini" => Said(UsageFromGemini(r))
<1> DEFINE r == Reported(shape, s, itemised)
<1>0. s \in Spendings
  BY DEF FitsNumbers
<1>1. CASE shape = "openai"
  <2>1. /\ r.shape = "openai" /\ r.prompt = s.fresh + s.read + s.image + s.audioIn
        /\ r.cached = s.read /\ r.thought = s.thought
        /\ r.completion = s.text + s.thought + s.audioOut
    BY <1>1 DEF Reported
  <2> HIDE DEF r
  <2>2. r.prompt = PromptSum(s) /\ r.completion = AnswerSum(s)
    BY <1>0, <1>1, <2>1, OthersAreZero, CountsAreNaturals DEF PromptSum, AnswerSum
  <2>3. UsageFromOpenai(r)
          = OpenAiUsage(PromptSum(s), s.read, AnswerSum(s), s.thought)
    BY <2>1, <2>2 DEF UsageFromOpenai
  <2> QED BY <1>0, <1>1, <2>1, <2>3, CountsAreNaturals DEF r
<1>2. CASE shape = "anthropic"
  <2>1. /\ r.shape = "anthropic" /\ r.input = s.fresh /\ r.cached = s.read
        /\ r.creation = s.write5m + s.write1h /\ r.output = s.text
    BY <1>2 DEF Reported
  <2> HIDE DEF r
  <2>2. r.input + r.cached + r.creation = PromptSum(s) /\ r.output = AnswerSum(s)
    BY <1>0, <1>2, <2>1, OthersAreZero, CountsAreNaturals DEF PromptSum, AnswerSum
  <2>3. UsageFromAnthropic(r) = OpenAiUsage(PromptSum(s), s.read, AnswerSum(s), 0)
    BY <2>1, <2>2 DEF UsageFromAnthropic
  <2> QED BY <1>2, <2>1, <2>3 DEF r
<1>3. CASE shape = "gemini"
  <2>1. /\ r.shape = "gemini" /\ r.prompt = s.fresh + s.read /\ r.cached = s.read
        /\ r.thought = s.thought /\ r.candidates = s.text
    BY <1>3 DEF Reported
  <2> HIDE DEF r
  <2>2. r.prompt = PromptSum(s) /\ r.candidates + r.thought = AnswerSum(s)
    BY <1>0, <1>3, <2>1, OthersAreZero, CountsAreNaturals DEF PromptSum, AnswerSum
  <2>3. UsageFromGemini(r)
          = OpenAiUsage(PromptSum(s), s.read, AnswerSum(s), s.thought)
    BY <2>1, <2>2 DEF UsageFromGemini
  <2> QED BY <1>0, <1>3, <2>1, <2>3, CountsAreNaturals DEF r
<1>4. CASE shape = "other"
  BY <1>4 DEF Reported
<1> QED BY <1>1, <1>2, <1>3, <1>4 DEF Shapes

\* A buffered report is normalised to what was spent, kind by kind.
LEMMA ReportTells ==
    ASSUME NEW shape \in Shapes, NEW itemised \in BOOLEAN, NEW s, FitsNumbers(shape, itemised, s)
    PROVE  LET r == Reported(shape, s, itemised)
           IN  /\ shape = "openai" => TellsSpent(FromOpenAi(r), s, TRUE)
               /\ shape = "anthropic" => TellsSpent(FromAnthropic(r), s, TRUE)
               /\ shape = "gemini" => TellsSpent(FromGemini(r), s, TRUE)
               /\ shape = "other" =>
                    TellsSpent(FromUnknown(r, UsageSemanticFor(model)), s, TRUE)
<1> DEFINE r == Reported(shape, s, itemised)
<1>0. s \in Spendings
  BY DEF FitsNumbers
<1>1. CASE shape = "openai"
  <2>1. /\ r.prompt = s.fresh + s.read + s.image + s.audioIn
        /\ r.cached = s.read /\ r.completion = s.text + s.thought + s.audioOut
        /\ r.image = s.image /\ r.audioIn = s.audioIn /\ r.audioOut = s.audioOut
    BY <1>1 DEF Reported
  <2> HIDE DEF r
  <2>2. /\ r.prompt \in Nat /\ r.completion \in Nat /\ r.cached \in Nat
        /\ r.image \in Nat /\ r.audioIn \in Nat /\ r.audioOut \in Nat
    BY <1>0, <2>1, CountsAreNaturals
  <2> DEFINE m == FromOpenAi(r)
  <2>3. /\ m \in Usages
        /\ m.prompt = r.prompt /\ m.completion = r.completion /\ m.cached = r.cached
        /\ m.write5m = 0 /\ m.write1h = 0 /\ m.image = r.image /\ m.audioIn = r.audioIn
    BY <2>2, OpenAiIsRead
  <2> HIDE DEF m
  <2>4. TellsSpent(m, s, TRUE)
    BY <1>0, <1>1, <2>1, <2>3, CountsAreNaturals, OthersAreZero
       DEF TellsSpent, PromptSum, AnswerSum
  <2> QED BY <1>1, <2>4 DEF m, r
<1>2. CASE shape = "anthropic"
  <2>1. /\ r.input = s.fresh /\ r.cached = s.read /\ r.output = s.text
        /\ r.write5m = IF itemised THEN s.write5m ELSE 0
        /\ r.write1h = IF itemised THEN s.write1h ELSE 0
        /\ r.creation = s.write5m + s.write1h
    BY <1>2 DEF Reported
  <2> HIDE DEF r
  <2> DEFINE written == IF r.write5m + r.write1h > 0 THEN r.write5m ELSE r.creation
             n == Normal(r.input + r.cached + written + r.write1h, r.output, r.cached)
             m == FromAnthropic(r)
  <2>2. written = s.write5m /\ r.write1h = s.write1h
    <3>1. ~itemised => s.write1h = 0
      BY DEF FitsNumbers
    <3> QED BY <1>0, <2>1, <3>1, CountsAreNaturals
  <2>3. m = [n EXCEPT !.write5m = written, !.write1h = r.write1h]
    BY DEF FromAnthropic
  <2> HIDE DEF written
  <2>4. /\ r.input + r.cached + written + r.write1h \in Nat
        /\ r.output \in Nat /\ r.cached \in Nat
    BY <1>0, <2>1, <2>2, CountsAreNaturals
  <2>5. /\ n \in Usages
        /\ n.prompt = r.input + r.cached + written + r.write1h
        /\ n.completion = r.output /\ n.cached = r.cached
        /\ n.image = 0 /\ n.audioIn = 0
    BY <2>4, NormalIsUsage
  <2> HIDE DEF n, m
  <2>6. /\ m \in Usages
        /\ m.prompt = n.prompt /\ m.completion = n.completion /\ m.cached = n.cached
        /\ m.image = 0 /\ m.audioIn = 0
        /\ m.write5m = written /\ m.write1h = r.write1h
    <3>1. written \in Nat /\ r.write1h \in Nat
      BY <1>0, <2>2, CountsAreNaturals
    <3> QED BY <2>3, <2>5, <3>1 DEF Usages
  <2>7. TellsSpent(m, s, TRUE)
    BY <1>0, <1>2, <2>1, <2>2, <2>5, <2>6, CountsAreNaturals, OthersAreZero
       DEF TellsSpent, PromptSum, AnswerSum
  <2> QED BY <1>2, <2>7 DEF m, r
<1>3. CASE shape = "gemini"
  <2>1. /\ r.prompt = s.fresh + s.read /\ r.cached = s.read
        /\ r.thought = s.thought /\ r.candidates = s.text
    BY <1>3 DEF Reported
  <2> HIDE DEF r
  <2>2. r.prompt \in Nat /\ r.candidates + r.thought \in Nat /\ r.cached \in Nat
    BY <1>0, <2>1, CountsAreNaturals
  <2> DEFINE m == FromGemini(r)
  <2>3. /\ m \in Usages
        /\ m.prompt = r.prompt /\ m.completion = r.candidates + r.thought
        /\ m.cached = r.cached
        /\ m.write5m = 0 /\ m.write1h = 0 /\ m.image = 0 /\ m.audioIn = 0
    BY <2>2, NormalIsUsage DEF FromGemini
  <2> HIDE DEF m
  <2>4. TellsSpent(m, s, TRUE)
    BY <1>0, <1>3, <2>1, <2>3, CountsAreNaturals, OthersAreZero
       DEF TellsSpent, PromptSum, AnswerSum
  <2> QED BY <1>3, <2>4 DEF m, r
<1>4. CASE shape = "other"
  <2>1. /\ r.cached = s.read /\ r.completion = s.text
        /\ r.prompt = IF IsClaude(model) THEN s.fresh ELSE s.fresh + s.read
    BY <1>4 DEF Reported
  <2> HIDE DEF r
  <2> DEFINE m == FromUnknown(r, UsageSemanticFor(model))
             whole == IF UsageSemanticFor(model) = "exclusive"
                      THEN r.prompt + r.cached ELSE r.prompt
  <2>2. whole = s.fresh + s.read
    BY <1>0, <2>1, CountsAreNaturals DEF UsageSemanticFor
  <2>3. m = Normal(whole, r.completion, r.cached)
    BY DEF FromUnknown
  <2> HIDE DEF whole, m
  <2>4. whole \in Nat /\ r.completion \in Nat /\ r.cached \in Nat
    BY <1>0, <2>1, <2>2, CountsAreNaturals
  <2>5. /\ m \in Usages
        /\ m.prompt = whole /\ m.completion = r.completion /\ m.cached = r.cached
        /\ m.write5m = 0 /\ m.write1h = 0 /\ m.image = 0 /\ m.audioIn = 0
    BY <2>3, <2>4, NormalIsUsage
  <2>6. TellsSpent(m, s, TRUE)
    BY <1>0, <1>4, <2>1, <2>2, <2>5, CountsAreNaturals, OthersAreZero
       DEF TellsSpent, PromptSum, AnswerSum
  <2> QED BY <1>4, <2>6 DEF m, r
<1> QED BY <1>1, <1>2, <1>3, <1>4 DEF Shapes

-----------------------------------------------------------------------------

LEMMA MeteringBegins == MeteringInit => MeteringInv
<1> SUFFICES ASSUME MeteringInit PROVE MeteringInv
  OBVIOUS
<1>1. metering = "reported" /\ group \in Nat
  BY DEF MeteringInit
<1>2. PICK shape \in Shapes, itemised \in BOOLEAN :
        \E counts \in [KindsOf(shape) -> 0..MaxSpent] :
            /\ shape = "anthropic" \/ ~itemised
            /\ spent = [k \in UsageKinds |-> IF k \in KindsOf(shape) THEN counts[k] ELSE 0]
            /\ ~itemised => spent.write1h = 0
            /\ streamed \in IF shape = "other" THEN {FALSE} ELSE BOOLEAN
            /\ usage = Reported(shape, spent, itemised)
  BY DEF MeteringInit, Shapes
<1>3. PICK counts \in [KindsOf(shape) -> 0..MaxSpent] :
            /\ shape = "anthropic" \/ ~itemised
            /\ spent = [k \in UsageKinds |-> IF k \in KindsOf(shape) THEN counts[k] ELSE 0]
            /\ ~itemised => spent.write1h = 0
            /\ streamed \in IF shape = "other" THEN {FALSE} ELSE BOOLEAN
            /\ usage = Reported(shape, spent, itemised)
  BY <1>2
<1>4. spent \in Spendings /\ \A k \in UsageKinds \ KindsOf(shape) : spent[k] = 0
  <2>1. \A k \in KindsOf(shape) : counts[k] \in Nat
    OBVIOUS
  <2> QED BY <1>3, <2>1 DEF Spendings
<1>5. streamed \in BOOLEAN /\ (streamed => shape # "other")
  BY <1>3
<1>6. FitsNumbers(shape, itemised, spent)
  BY <1>3, <1>4 DEF FitsNumbers
<1>7. InReport
  BY <1>3, <1>5, <1>6 DEF InReport
<1> QED BY <1>1, <1>4, <1>5, <1>7 DEF MeteringInv

LEMMA TranslateKeeps == MeteringInv /\ TranslateUsage => MeteringInv'
<1> SUFFICES ASSUME MeteringInv, TranslateUsage PROVE MeteringInv'
  OBVIOUS
<1>1. /\ metering = "reported" /\ metering' = "translated" /\ streamed
      /\ spent' = spent /\ streamed' = streamed /\ group' = group
  BY DEF TranslateUsage
<1>2. PICK shape \in Shapes, itemised \in BOOLEAN :
        /\ FitsNumbers(shape, itemised, spent) /\ shape # "other"
        /\ usage = Reported(shape, spent, itemised)
  BY <1>1 DEF MeteringInv, InReport
<1>3. usage.shape = shape
  BY <1>2, ReportTranslates
<1>4. \/ shape = "openai" /\ usage' = UsageFromOpenai(usage)
      \/ shape = "anthropic" /\ usage' = UsageFromAnthropic(usage)
      \/ shape = "gemini" /\ usage' = UsageFromGemini(usage)
  BY <1>2, <1>3 DEF TranslateUsage, Shapes
<1>5. \E thought \in Nat :
        usage' = OpenAiUsage(PromptSum(spent), spent.read, AnswerSum(spent), thought)
  BY <1>2, <1>4, ReportTranslates
<1>6. InTranslation'
  BY <1>1, <1>5 DEF InTranslation
<1> QED BY <1>1, <1>6 DEF MeteringInv

LEMMA NormalizeKeeps == MeteringInv /\ Normalize => MeteringInv'
<1> SUFFICES ASSUME MeteringInv, Normalize PROVE MeteringInv'
  OBVIOUS
<1>1. /\ metering' = "normalised"
      /\ spent' = spent /\ streamed' = streamed /\ group' = group
  BY DEF Normalize
<1>2. TellsSpent(usage', spent, ~streamed)
  <2>1. CASE metering = "translated"
    <3>1. PICK thought \in Nat :
            usage = OpenAiUsage(PromptSum(spent), spent.read, AnswerSum(spent), thought)
      BY <2>1 DEF MeteringInv, InTranslation
    <3>2. spent \in Spendings /\ streamed
      BY <2>1 DEF MeteringInv
    <3>3. usage.shape = "openai" /\ TellsSpent(FromOpenAi(usage), spent, FALSE)
      BY <3>1, <3>2, TranslationTells
    <3>4. usage' = FromOpenAi(usage)
      BY <3>3 DEF Normalize
    <3> QED BY <3>2, <3>3, <3>4 DEF TellsSpent
  <2>2. CASE metering = "reported" /\ ~streamed
    <3>1. PICK shape \in Shapes, itemised \in BOOLEAN :
            /\ FitsNumbers(shape, itemised, spent)
            /\ usage = Reported(shape, spent, itemised)
      BY <2>2 DEF MeteringInv, InReport
    <3>2. usage.shape = shape
      BY <3>1, ReportTranslates
    <3>3. \/ shape = "openai" /\ usage' = FromOpenAi(usage)
          \/ shape = "anthropic" /\ usage' = FromAnthropic(usage)
          \/ shape = "gemini" /\ usage' = FromGemini(usage)
          \/ shape = "other" /\ usage' = FromUnknown(usage, UsageSemanticFor(model))
      BY <3>1, <3>2 DEF Normalize, Shapes
    <3>4. TellsSpent(usage', spent, TRUE)
      BY <3>1, <3>3, ReportTells
    <3> QED BY <2>2, <3>4 DEF TellsSpent
  <2> QED BY <2>1, <2>2 DEF Normalize
<1>3. TellsSpent(usage', spent', ~streamed')
  BY <1>1, <1>2
<1> QED BY <1>1, <1>3 DEF MeteringInv

LEMMA PricingKeeps == MeteringInv /\ Charge => MeteringInv'
<1> SUFFICES ASSUME MeteringInv, Charge PROVE MeteringInv'
  OBVIOUS
<1>1. /\ metering = "normalised" /\ metering' = "charged"
      /\ charge' = ComputeQuota(usage, DefaultPricingFor(model))
      /\ spent' = spent /\ streamed' = streamed /\ group' = group
      /\ usage' = usage /\ model' = model
  BY DEF Charge
<1>2. charge' = ComputeQuota(usage, DefaultPricingFor(model))'
  BY <1>1 DEF ComputeQuota, GroupRatio
<1>3. TellsSpent(usage', spent', ~streamed')
  BY <1>1 DEF MeteringInv
<1> QED BY <1>1, <1>2, <1>3 DEF MeteringInv

LEMMA MeteringStep == MeteringInv /\ [MeteringNext]_meteringVars => MeteringInv'
<1> SUFFICES ASSUME MeteringInv, [MeteringNext]_meteringVars PROVE MeteringInv'
  OBVIOUS
<1>1. CASE TranslateUsage
  BY <1>1, TranslateKeeps
<1>2. CASE Normalize
  BY <1>2, NormalizeKeeps
<1>3. CASE Charge
  BY <1>3, PricingKeeps
<1>4. CASE UNCHANGED meteringVars
  <2>1. /\ model' = model /\ group' = group /\ spent' = spent /\ streamed' = streamed
        /\ usage' = usage /\ charge' = charge /\ metering' = metering
    BY <1>4 DEF meteringVars
  <2>2. \A shape \in Shapes, itemised \in BOOLEAN :
            Reported(shape, spent, itemised)' = Reported(shape, spent, itemised)
    BY <2>1 DEF Reported
  <2>3. InReport => InReport'
    BY <2>1, <2>2 DEF InReport
  <2>4. InTranslation => InTranslation'
    BY <2>1 DEF InTranslation
  <2>5. ComputeQuota(usage, DefaultPricingFor(model))'
          = ComputeQuota(usage, DefaultPricingFor(model))
    BY <2>1 DEF ComputeQuota, GroupRatio
  <2> QED BY <2>1, <2>3, <2>4, <2>5 DEF MeteringInv
<1> QED BY <1>1, <1>2, <1>3, <1>4 DEF MeteringNext

\* The breakdown of a normalised usage: what is left of the prompt is its base,
\* the quota is its price to the nearest, and what has a price has one above zero.
LEMMA QuotaOfUsage ==
    ASSUME NEW u \in Usages, NEW p \in Pricings, group \in Nat, Taken(u) <= u.prompt
    PROVE  LET q == ComputeQuota(u, p)
           IN  /\ q.base = u.prompt - Taken(u)
               /\ q.total \in Nat /\ q.quota \in Nat
               /\ \/ 2 * (q.quota * Whole - q.total) \in (-Whole + 1)..Whole
                  \/ q.quota = 1 /\ q.total \in 1..Whole
               /\ u.prompt > u.audioIn => q.quota >= 1
<1> DEFINE taken == u.cached + u.write5m + u.write1h + u.image + u.audioIn
           base  == IF u.prompt > taken THEN u.prompt - taken ELSE 0
           units == 20 * base + p.cached * u.cached + p.write5m * u.write5m
                      + p.write1h * u.write1h + p.image * u.image
                      + 20 * p.card.completion * u.completion
           audio == 20 * (p.card.audioIn * u.audioIn + p.card.audioOut * u.audioOut)
           priced == units * p.card.model
           total == (units * p.card.model + audio) * GroupRatio
           near  == (2 * total + Whole) \div (2 * Whole)
           q == ComputeQuota(u, p)
<1>1. /\ u.prompt \in Nat /\ u.completion \in Nat /\ u.cached \in Nat
      /\ u.write5m \in Nat /\ u.write1h \in Nat /\ u.image \in Nat
      /\ u.audioIn \in Nat /\ u.audioOut \in Nat
  BY DEF Usages
<1>2. /\ p.cached \in Nat /\ p.cached > 0 /\ p.write5m \in Nat /\ p.write5m > 0
      /\ p.write1h \in Nat /\ p.write1h > 0 /\ p.image \in Nat /\ p.image > 0
      /\ p.card \in Cards
  BY DEF Pricings
<1>3. /\ p.card.model \in Nat /\ p.card.model > 0 /\ p.card.completion \in Nat
      /\ p.card.audioIn \in Nat /\ p.card.audioOut \in Nat
  BY <1>2 DEF Cards
<1>4. GroupRatio \in Nat /\ GroupRatio > 0
  BY DEF GroupRatio
<1>5. base \in Nat /\ base = u.prompt - taken
  BY <1>1 DEF Taken
<1>6. /\ q.base = base /\ q.total = total
      /\ q.quota = IF near < 1 /\ total > 0 THEN 1 ELSE near
  BY DEF ComputeQuota
<1> HIDE DEF q, base
<1>7. /\ p.cached * u.cached \in Nat /\ (u.cached > 0 => p.cached * u.cached > 0)
      /\ p.write5m * u.write5m \in Nat /\ (u.write5m > 0 => p.write5m * u.write5m > 0)
      /\ p.write1h * u.write1h \in Nat /\ (u.write1h > 0 => p.write1h * u.write1h > 0)
      /\ p.image * u.image \in Nat /\ (u.image > 0 => p.image * u.image > 0)
  BY <1>1, <1>2, ProductGrows
<1>8. 20 * p.card.completion * u.completion \in Nat /\ audio \in Nat
  <2>1. 20 * p.card.completion \in Nat
    BY <1>3
  <2>2. 20 * p.card.completion * u.completion \in Nat
    BY <1>1, <2>1, ProductGrows
  <2>3. p.card.audioIn * u.audioIn \in Nat /\ p.card.audioOut * u.audioOut \in Nat
    BY <1>1, <1>3, ProductGrows
  <2> QED BY <2>2, <2>3
<1>9. units \in Nat /\ (u.prompt > u.audioIn => units > 0)
  <2> DEFINE a == p.cached * u.cached
             b == p.write5m * u.write5m
             c == p.write1h * u.write1h
             d == p.image * u.image
             e == 20 * p.card.completion * u.completion
  <2>1. /\ a \in Nat /\ (u.cached > 0 => a > 0) /\ b \in Nat /\ (u.write5m > 0 => b > 0)
        /\ c \in Nat /\ (u.write1h > 0 => c > 0) /\ d \in Nat /\ (u.image > 0 => d > 0)
        /\ e \in Nat
    BY <1>7, <1>8
  <2> HIDE DEF a, b, c, d, e
  <2>2. 20 * base + a + b + c + d + e \in Nat
    BY <1>5, <2>1
  <2>3. ASSUME u.prompt > u.audioIn PROVE 20 * base + a + b + c + d + e > 0
    BY <1>1, <1>5, <2>1, <2>3
  <2> QED BY <2>2, <2>3 DEF a, b, c, d, e
<1> HIDE DEF units, audio
<1>10. total \in Nat /\ (units > 0 => total > 0)
  <2>1. priced \in Nat /\ (units > 0 => priced > 0)
    BY <1>3, <1>9, ProductGrows
  <2>2. priced + audio \in Nat /\ (units > 0 => priced + audio > 0)
    <3> HIDE DEF priced
    <3> QED BY <2>1, <1>8
  <2> QED BY <1>4, <2>2, ProductGrows
<1> HIDE DEF total
<1>11. /\ near \in Nat
       /\ 2 * (near * Whole - total) \in (-Whole + 1)..Whole
       /\ near < 1 => total < Whole
  BY <1>10, ToTheNearest
<1> HIDE DEF near
<1>12. q.base = u.prompt - Taken(u)
  BY <1>5, <1>6 DEF Taken
<1>13. CASE near < 1 /\ total > 0
  <2>1. q.quota = 1
    BY <1>6, <1>13
  <2>2. total \in 1..Whole
    <3>1. Whole \in Int
      BY DEF Whole
    <3>2. total \in Int /\ 1 \in Int /\ 1 <= total /\ total <= Whole
      BY <1>10, <1>11, <1>13, <3>1
    <3> QED BY <3>1, <3>2, Between
  <2> QED BY <1>6, <1>10, <1>12, <2>1, <2>2 DEF q
<1>14. CASE ~(near < 1 /\ total > 0)
  <2>1. q.quota = near /\ q.total = total
    BY <1>6, <1>14
  <2>2. u.prompt > u.audioIn => near >= 1
    BY <1>9, <1>10, <1>11, <1>14
  <2>3. 2 * (q.quota * Whole - q.total) \in (-Whole + 1)..Whole
    BY <2>1, <1>11
  <2> QED BY <1>10, <1>11, <1>12, <2>1, <2>2, <2>3 DEF q
<1> QED BY <1>13, <1>14

LEMMA ChargedIsExact == MeteringInv => MeteringIsExact
<1> SUFFICES ASSUME MeteringInv, metering = "charged" PROVE MeteringIsExact
  BY DEF MeteringIsExact, EveryTokenIsPriced, BufferedKindsArePriced, ChargeFollowsPrice
<1> DEFINE p == DefaultPricingFor(model)
<1>1. /\ spent \in Spendings /\ group \in Nat /\ TellsSpent(usage, spent, ~streamed)
      /\ charge = ComputeQuota(usage, p) /\ p \in Pricings
  BY EveryNameIsPriced DEF MeteringInv
<1> HIDE DEF p
<1>2. /\ usage \in Usages
      /\ usage.prompt \in Nat /\ usage.completion \in Nat /\ usage.cached \in Nat
      /\ usage.write5m \in Nat /\ usage.write1h \in Nat /\ usage.image \in Nat
      /\ usage.audioIn \in Nat
  BY <1>1 DEF TellsSpent, Usages
<1>3. /\ usage.prompt = PromptSum(spent) /\ usage.completion = AnswerSum(spent)
      /\ usage.cached = spent.read
      /\ usage.write5m <= spent.write5m /\ usage.write1h <= spent.write1h
      /\ usage.image <= spent.image /\ usage.audioIn <= spent.audioIn
  BY <1>1 DEF TellsSpent
<1>4. Taken(usage) <= usage.prompt
  BY <1>1, <1>2, <1>3, CountsAreNaturals DEF Taken, PromptSum
<1>5. /\ charge.base = usage.prompt - Taken(usage)
      /\ \/ 2 * (charge.quota * Whole - charge.total) \in (-Whole + 1)..Whole
         \/ charge.quota = 1 /\ charge.total \in 1..Whole
      /\ usage.prompt > usage.audioIn => charge.quota >= 1
  BY <1>1, <1>2, <1>4, QuotaOfUsage
<1>6. /\ charge.base \in Nat
      /\ charge.base = usage.prompt - (usage.cached + usage.write5m + usage.write1h
                                        + usage.image + usage.audioIn)
  BY <1>2, <1>4, <1>5 DEF Taken
<1>7. /\ Priced["fresh"] = charge.base /\ Priced["read"] = usage.cached
      /\ Priced["write5m"] = usage.write5m /\ Priced["write1h"] = usage.write1h
      /\ Priced["image"] = usage.image /\ Priced["audioIn"] = usage.audioIn
  BY DEF Priced
<1>8. \A k \in PromptKinds : Priced[k] \in Nat
  BY <1>2, <1>6, <1>7 DEF PromptKinds
<1>9. /\ \A k \in PromptKinds : spent[k] \in Nat
      /\ \A k \in AnswerKinds : spent[k] \in Nat
  BY <1>1 DEF Spendings, UsageKinds
<1>10. /\ Total(spent, PromptKinds \ {"audioIn"})
            = spent.fresh + spent.read + spent.write5m + spent.write1h + spent.image
       /\ Total(spent, PromptKinds)
            = spent.audioIn + Total(spent, PromptKinds \ {"audioIn"})
       /\ Total(spent, AnswerKinds) = AnswerSum(spent)
  BY <1>9, EveryKindIsSummed, AnswerIsSummed DEF AnswerSum
<1>11. EveryTokenIsPriced
  <2>1. Total(Priced, PromptKinds)
          = usage.audioIn + (charge.base + usage.cached + usage.write5m
                             + usage.write1h + usage.image)
    BY <1>7, <1>8, EveryKindIsSummed
  <2>2. Total(Priced, PromptKinds) = usage.prompt
    BY <1>2, <1>6, <2>1
  <2>3. Total(spent, PromptKinds) = PromptSum(spent)
    BY <1>1, <1>10, CountsAreNaturals DEF PromptSum
  <2> QED BY <1>3, <1>10, <2>2, <2>3 DEF EveryTokenIsPriced
<1>12. BufferedKindsArePriced
  <2> SUFFICES ASSUME ~streamed PROVE \A k \in PromptKinds : Priced[k] = spent[k]
    BY DEF BufferedKindsArePriced
  <2>1. /\ usage.write5m = spent.write5m /\ usage.write1h = spent.write1h
        /\ usage.image = spent.image /\ usage.audioIn = spent.audioIn
    BY <1>1 DEF TellsSpent
  <2>2. charge.base = spent.fresh
    BY <1>1, <1>3, <1>6, <2>1, CountsAreNaturals DEF PromptSum
  <2> QED BY <1>3, <1>7, <2>1, <2>2 DEF PromptKinds
<1>13. ChargeFollowsPrice
  <2>1. Total(spent, PromptKinds \ {"audioIn"}) > 0 => usage.prompt > usage.audioIn
    BY <1>1, <1>2, <1>3, <1>10, CountsAreNaturals DEF PromptSum
  <2> QED BY <1>5, <2>1 DEF ChargeFollowsPrice
<1> QED BY <1>11, <1>12, <1>13 DEF MeteringIsExact

\* However many tokens of each kind an answer spent, in whatever shape and on
\* whatever path they were reported: each is priced once, a buffered one at its
\* own rate, and the quota is the price to the nearest (computeQuota).
THEOREM MeteringStaysExact == MeteringSpec => []MeteringIsExact
<1> QED BY MeteringBegins, MeteringStep, ChargedIsExact, PTL DEF MeteringSpec
=============================================================================
