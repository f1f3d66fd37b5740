--------------------------- MODULE ChannelRouting ---------------------------
(***************************************************************************)
(* How a request gets a channel and a key: selectChannel of                *)
(* lib/routing/index.ts, election.ts, retry.ts, health.ts and keys.ts for  *)
(* one group and model, with the console edits of admin/store.ts and the   *)
(* probes of cron/jobs.ts that change channels underneath.                 *)
(*                                                                         *)
(* What candidatesFor offers may be of any age (AbilityTable says what it  *)
(* comes to): here it is any set of channels there have ever been.         *)
(***************************************************************************)
EXTENDS Integers, FiniteSets

CONSTANTS
    Channels,     \* channels of the deployment
    Priority,     \* [Channels -> Nat]
    Requests,     \* requests being routed
    MaxAttempts,  \* config.retryTimes + 1
    Threshold,    \* config.channelFailureThreshold
    AutoDisable,  \* config.channelAutoDisableFails, 0 to turn it off
    MaxEdits      \* bound: console edits

ASSUME RoutingAssumption ==
    /\ "none" \notin Channels
    /\ Priority \in [Channels -> Nat] /\ MaxAttempts \in Nat \ {0}
    /\ Threshold \in Nat \ {0} /\ AutoDisable \in Nat /\ MaxEdits \in Nat

VARIABLES
    channelRow,  \* the document: "enabled", "disabled", "auto" (disabled by the
                \* breaker), "revoked" (enabled, but not for this group) or "gone"
    keyed,      \* channels with an enabled key
    replacing,  \* channels whose keys are about to be inserted
    fails,      \* chhealth: failures in a row
    open,       \* chhealth: channels whose openUntil is ahead
    route,      \* per request: its progress through withChannelRetry
    edited      \* console edits so far

routingVars == <<channelRow, keyed, replacing, fails, open, route, edited>>
channelRows == <<channelRow, keyed, replacing, edited>>

NoChannel == "none"
Rows == {"enabled", "disabled", "auto", "revoked", "gone"}
Limit == IF AutoDisable > Threshold THEN AutoDisable ELSE Threshold

NewRoute == [at |-> "idle", attempt |-> 0, tried |-> {}, pool |-> {},
             channel |-> NoChannel, result |-> "none", served |-> {}]

Move(r, place) == route' = [route EXCEPT ![r].at = place]
\* Answered: 200, the upstream's error, or the 503 of noChannelAvailable.
Done(r) == route' = [route EXCEPT ![r] = NewRoute]

----------------------------------------------------------------------------
(* selectChannel *)

\* Channels of this request and channels with an open breaker are out.
Elect(r) ==
    /\ route[r].at = "select"
    /\ \E offered \in SUBSET Channels :
         LET healthy == (offered \ route[r].tried) \ open
         IN  IF healthy = {} THEN Done(r)
             ELSE route' = [route EXCEPT ![r].at = "verify", ![r].pool = healthy]
    /\ UNCHANGED <<channelRows, fails, open>>

\* tiersOf and electFrom: attempt n takes tier n of the pool, or its last.
\* The weighted draw and the conversation's pin choose inside the tier.
TierOf(pool, c) == Cardinality({Priority[d] : d \in {e \in pool : Priority[e] > Priority[c]}})
ElectFrom(pool, attempt) ==
    {c \in pool : \/ TierOf(pool, c) = attempt
                  \/ /\ TierOf(pool, c) < attempt
                     /\ \A d \in pool : TierOf(pool, d) <= TierOf(pool, c)}

\* A slip: the offer is believed.
BadServes(c) == TRUE

Serves(c) == channelRow[c] = "enabled"

\* The row of the elected channel decides, not the cache.
Verify(r) ==
    /\ route[r].at = "verify"
    /\ \E c \in ElectFrom(route[r].pool, route[r].attempt) :
         \/ /\ Serves(c)
            /\ route' = [route EXCEPT ![r].at = "key", ![r].pool = {}, ![r].channel = c]
         \/ /\ ~Serves(c)
            /\ IF route[r].pool = {c} THEN Done(r)
               ELSE route' = [route EXCEPT ![r].pool = @ \ {c}]
    /\ UNCHANGED <<channelRows, fails, open>>

----------------------------------------------------------------------------
(* withChannelRetry *)

Start(r) ==
    /\ route[r].at = "idle"
    /\ route' = [route EXCEPT ![r] = [NewRoute EXCEPT
          !.at = "select", !.served = {c \in Channels : channelRow[c] = "enabled"}]]
    /\ UNCHANGED <<channelRows, fails, open>>

\* A slip: only failed calls exclude a channel, a missing key does not.
BadExclude(rt) ==
    IF rt.attempt + 1 = MaxAttempts THEN NewRoute
    ELSE [NewRoute EXCEPT !.at = "select", !.attempt = rt.attempt + 1,
             !.served = rt.served,
             !.tried = rt.tried \cup IF rt.at = "key" THEN {} ELSE {rt.channel}]

\* A channel that failed, for lack of a usable key too, is not tried again.
Exclude(rt) ==
    IF rt.attempt + 1 = MaxAttempts THEN NewRoute
    ELSE [NewRoute EXCEPT !.at = "select", !.attempt = rt.attempt + 1,
                          !.served = rt.served, !.tried = rt.tried \cup {rt.channel}]

PickKey(r) ==
    /\ route[r].at = "key"
    /\ route' = [route EXCEPT ![r] = IF @.channel \in keyed THEN [@ EXCEPT !.at = "attempt"]
                                     ELSE Exclude(@)]
    /\ UNCHANGED <<channelRows, fails, open>>

\* The health script: a success clears the count, a failure adds to it and
\* trips the breaker from the threshold on.  Counts from the limit on are alike.
Counted(c) == IF fails[c] = Limit THEN fails[c] ELSE fails[c] + 1
Outcome(c, ok) ==
    /\ fails' = [fails EXCEPT ![c] = IF ok THEN 0 ELSE Counted(c)]
    /\ open' = IF ok THEN open \ {c}
               ELSE IF Counted(c) >= Threshold THEN open \cup {c} ELSE open
Disables(c) == AutoDisable > 0 /\ Counted(c) >= Limit

\* Served, failed for good, failed in a way another channel may mend, or
\* abandoned by the client, which says nothing about the channel.
Attempt(r) ==
    LET c == route[r].channel IN
    /\ route[r].at = "attempt"
    /\ \/ /\ Outcome(c, TRUE) /\ Done(r)
       \/ \E result \in {"fatal", "retryable"} :
            /\ Outcome(c, FALSE)
            /\ route' = [route EXCEPT ![r].result = result,
                            ![r].at = IF Disables(c) THEN "disable" ELSE "again"]
       \/ /\ Done(r) /\ UNCHANGED <<fails, open>>
    /\ UNCHANGED channelRows

\* The write is guarded by the status, not by the count that led to it.
Disabled(c) ==
    [channelRow EXCEPT ![c] = IF @ \in {"enabled", "revoked"} THEN "auto" ELSE @]

AutoDisableChannel(r) ==
    /\ route[r].at = "disable"
    /\ channelRow' = Disabled(route[r].channel)
    /\ Move(r, "again")
    /\ UNCHANGED <<keyed, replacing, fails, open, edited>>

\* Another channel, unless the failure is final, the attempts are used up or
\* the time budget is.
TryAgain(r) ==
    /\ route[r].at = "again"
    /\ \/ /\ route[r].result = "retryable"
          /\ route' = [route EXCEPT ![r] = Exclude(@)]
       \/ Done(r)
    /\ UNCHANGED <<channelRows, fails, open>>

----------------------------------------------------------------------------
(* Time, the console and the health cron *)

\* openUntil passes; the hash expires ten cooldowns after its last write.
CooldownEnds ==
    \E c \in open : open' = open \ {c} /\ UNCHANGED <<channelRows, fails, route>>
HealthExpires ==
    \E c \in Channels \ open :
        fails[c] > 0 /\ fails' = [fails EXCEPT ![c] = 0] /\ UNCHANGED <<channelRows, open, route>>

\* healthCheck: a probe counts like a request's attempt.
Probe ==
    /\ \E c \in {d \in Channels : channelRow[d] \in {"enabled", "revoked"}}, ok \in BOOLEAN :
         /\ Outcome(c, ok)
         /\ channelRow' = IF ~ok /\ Disables(c) THEN Disabled(c) ELSE channelRow
    /\ UNCHANGED <<keyed, replacing, route, edited>>

\* A request may have seen a channel serving if it served at any time since.
Witnessed == [r \in Requests |-> IF route[r].at = "idle" THEN route[r]
    ELSE [route[r] EXCEPT !.served = @ \cup {c \in Channels : channelRow'[c] = "enabled"}]]

\* createChannel, updateChannel and deleteChannel.  A new row has no keys yet, a
\* deleted one still has them.
EditChannel ==
    /\ edited < MaxEdits /\ edited' = edited + 1
    /\ \E c \in Channels, row \in Rows \ {"auto"} :
         /\ channelRow[c] # row
         /\ channelRow[c] = "gone" => row = "enabled" /\ c \notin replacing \cup keyed
         /\ channelRow' = [channelRow EXCEPT ![c] = row]
         /\ replacing' = IF channelRow[c] = "gone" THEN replacing \cup {c} ELSE replacing
    /\ route' = Witnessed
    /\ UNCHANGED <<keyed, fails, open>>
DeleteKeys ==
    /\ \E c \in keyed : channelRow[c] = "gone" /\ keyed' = keyed \ {c}
    /\ UNCHANGED <<channelRow, replacing, fails, open, route, edited>>

\* replaceChannelKeys deletes, then inserts, and may die in between.
DropKeys ==
    /\ edited < MaxEdits /\ edited' = edited + 1
    /\ \E c \in keyed :
         /\ channelRow[c] # "gone"
         /\ keyed' = keyed \ {c} /\ replacing' = replacing \cup {c}
    /\ UNCHANGED <<channelRow, fails, open, route>>
InsertKeys ==
    /\ \E c \in replacing : keyed' = keyed \cup {c} /\ replacing' = replacing \ {c}
    /\ UNCHANGED <<channelRow, fails, open, route, edited>>
InsertKeysFails ==
    /\ \E c \in replacing : replacing' = replacing \ {c}
    /\ UNCHANGED <<channelRow, keyed, fails, open, route, edited>>

----------------------------------------------------------------------------
RoutingInit ==
    /\ channelRow \in [Channels -> {"enabled", "disabled"}]
    /\ keyed = Channels /\ replacing = {}
    /\ fails = [c \in Channels |-> 0] /\ open = {}
    /\ route = [r \in Requests |-> NewRoute] /\ edited = 0

RouteStep(r) ==
    \/ Elect(r) \/ Verify(r) \/ PickKey(r) \/ Attempt(r)
    \/ AutoDisableChannel(r) \/ TryAgain(r)

RoutingNext ==
    \/ \E r \in Requests : Start(r) \/ RouteStep(r)
    \/ EditChannel \/ DeleteKeys \/ DropKeys \/ InsertKeys \/ InsertKeysFails
    \/ Probe \/ CooldownEnds \/ HealthExpires

RoutingSpec == RoutingInit /\ [][RoutingNext]_routingVars

----------------------------------------------------------------------------
(* Properties *)

RoutingTypeOK ==
    /\ channelRow \in [Channels -> Rows]
    /\ keyed \subseteq Channels /\ replacing \subseteq Channels
    /\ fails \in [Channels -> 0..Limit] /\ open \subseteq Channels
    /\ edited \in 0..MaxEdits
    /\ route \in [Requests ->
         [at : {"idle", "select", "verify", "key", "attempt", "disable", "again"},
          attempt : 0..MaxAttempts - 1, tried : SUBSET Channels, pool : SUBSET Channels,
          channel : Channels \cup {NoChannel}, served : SUBSET Channels,
          result : {"none", "fatal", "retryable"}]]

\* routing/index.ts: "nothing the cache says is trusted": a channel disabled,
\* deleted or taken from the group before a request came in is never used for
\* it, however old the list it was offered in.
OnlyServingChannels ==
    \A r \in Requests : route[r].at \in {"key", "attempt"} => route[r].channel \in route[r].served

\* routing/retry.ts: "A channel that fails is excluded from later attempts",
\* for lack of a key too, so each attempt is another channel's.
RetriesMoveOn ==
    \A r \in Requests :
        /\ route[r].channel \notin route[r].tried
        /\ Cardinality(route[r].tried) = route[r].attempt

RoutingIsSound == OnlyServingChannels /\ RetriesMoveOn

\* admin/store.ts: "Re-enabling a channel clears the breaker, otherwise the
\* operator's fix would appear to do nothing until the failure count decayed."
ReenablingClearsTheBreaker ==
    [][\A c \in Channels : channelRow[c] = "auto" /\ channelRow'[c] = "enabled"
          => fails'[c] = 0 /\ c \notin open']_routingVars
=============================================================================
