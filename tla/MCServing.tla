------------------------- MODULE MCServing -------------------------
(***************************************************************************)
(* One run over the components that look something up for a request and    *)
(* must settle on what the database says: a behaviour picks one of them    *)
(* and runs it by itself, under that component's own fairness.             *)
(***************************************************************************)
EXTENDS AbilityTable, ChannelRouting, KeyAccess, PriceCatalog, Exchanges,
        ProviderRequest, TLC

CONSTANTS c1, c2, r1, l1, op, cron

VARIABLE bench    \* the component this behaviour is about

benchVars == <<bench, abilityVars, routingVars, accessVars, catalogVars, callVars,
              requestVars, bodyVars>>

\* Everybody else stands in one initial state and takes no step.
Runs(who) == bench = who

AbilityIdle ==
    /\ serving = {} /\ abilities = {}
    /\ AbilityInit

RoutingIdle ==
    /\ channelRow = [c \in Channels |-> "enabled"]
    /\ RoutingInit

CallIdle ==
    /\ payload = "none" /\ address = "public"
    /\ CallInit

RequestIdle ==
    /\ errand = "answer" /\ material = <<>>
    /\ RequestInit

BenchInit ==
    /\ bench \in {"ability", "routing", "access", "catalog", "call", "request",
                  "body"}
    /\ IF Runs("ability") THEN AbilityInit ELSE AbilityIdle
    /\ IF Runs("routing") THEN RoutingInit ELSE RoutingIdle
    /\ AccessInit
    /\ CatalogInit
    /\ IF Runs("call") THEN CallInit ELSE CallIdle
    /\ IF Runs("request") THEN RequestInit ELSE RequestIdle
    /\ ReadInit

AbilitySteps ==
    /\ Runs("ability") /\ AbilityNext
    /\ UNCHANGED <<bench, routingVars, accessVars, catalogVars, callVars,
                    requestVars, bodyVars>>

RoutingSteps ==
    /\ Runs("routing") /\ RoutingNext
    /\ UNCHANGED <<bench, abilityVars, accessVars, catalogVars, callVars,
                    requestVars, bodyVars>>

AccessSteps ==
    /\ Runs("access") /\ AccessNext
    /\ UNCHANGED <<bench, abilityVars, routingVars, catalogVars, callVars,
                    requestVars, bodyVars>>

CatalogSteps ==
    /\ Runs("catalog") /\ CatalogNext
    /\ UNCHANGED <<bench, abilityVars, routingVars, accessVars, callVars,
                    requestVars, bodyVars>>

CallSteps ==
    /\ Runs("call") /\ CallNext
    /\ UNCHANGED <<bench, abilityVars, routingVars, accessVars, catalogVars,
                    requestVars, bodyVars>>

RequestSteps ==
    /\ Runs("request") /\ RequestNext
    /\ UNCHANGED <<bench, abilityVars, routingVars, accessVars, catalogVars,
                    callVars, bodyVars>>

ReadSteps ==
    /\ Runs("body") /\ ReadNext
    /\ UNCHANGED <<bench, abilityVars, routingVars, accessVars, catalogVars,
                    callVars, requestVars>>

BenchNext ==
    \/ AbilitySteps \/ RoutingSteps \/ AccessSteps \/ CatalogSteps
    \/ CallSteps \/ RequestSteps \/ ReadSteps

\* The fairness of each component, for the behaviours that run it.
BenchFairness ==
    /\ \A r \in Readers : WF_abilityVars(Runs("ability") /\ ReaderStep(r))
    /\ \A e \in Editors : WF_abilityVars(Runs("ability") /\ RebuildStep(e))
    /\ WF_abilityVars(Runs("ability") /\ CronRebuilds)
    /\ SF_abilityVars(Runs("ability") /\ ListingExpires)
    /\ \A r \in Callers : WF_accessVars(Runs("access") /\ CallStep(r))
    /\ WF_accessVars(Runs("access") /\ Invalidate)
    /\ WF_accessVars(Runs("access") /\ SweepDisables)
    /\ \A k \in Keys : SF_accessVars(Runs("access") /\ EntryExpires(k))
    /\ \A l \in Lookups : WF_catalogVars(Runs("catalog") /\ LookupStep(l))
    /\ WF_catalogVars(Runs("catalog") /\ DropPrice)
    /\ SF_catalogVars(Runs("catalog") /\ PriceExpires)
    /\ SF_catalogVars(Runs("catalog") /\ TableExpires)
    /\ WF_callVars(Runs("call") /\ (Refuse \/ Begin))
    /\ WF_callVars(Runs("call") /\ TimeRunsOut)
    /\ WF_callVars(Runs("call") /\ FetchFails)
    /\ WF_callVars(Runs("call") /\ Pull)
    /\ WF_callVars(Runs("call") /\ BodyFails)
    /\ WF_bodyVars(Runs("body") /\ DeadlineSettles("timeout"))
    /\ WF_bodyVars(Runs("body") /\ TakeChunk)
    /\ WF_bodyVars(Runs("body") /\ (EndBody \/ BreakOff \/ GiveUp))
    /\ WF_bodyVars(Runs("body") /\ (Walk \/ Clone))

ServingSpec == BenchInit /\ [][BenchNext]_benchVars /\ BenchFairness

\* Whatever was cached from a read before an edit, a failed read or a slow
\* reader gives way (routing/abilities.ts, auth/authenticate.ts,
\* pricing/index.ts, routing/mapping.ts), and an upstream call
\* (upstream/fetch.ts) and the reading of a body (util/json.ts) end.
CachesSettle ==
    /\ Runs("ability") => OfferedConverges
    /\ Runs("access") => GoodKeysAreTaken
    /\ Runs("catalog") => CatalogConverges
    /\ Runs("call") => CallEnds
    /\ Runs("body") => BodySettles

OneAbove == c1 :> 1 @@ c2 :> 0

\* Calls by every route with a channel that has headers of its own, and chats
\* of a client that has.
SmallCalls ==
    {[route |-> way, asksUsage |-> asksUsage, client |-> <<>>,
      channel |-> [type |-> type, deployed |-> deployed, headers |-> headers]] :
        way \in Routes, asksUsage \in BOOLEAN, type \in Types, deployed \in BOOLEAN,
        headers \in SUBSET ChannelMayHave}
    \cup {[route |-> [client |-> "openai", endpoint |-> "chat", stream |-> stream,
                       relayed |-> TRUE],
            asksUsage |-> FALSE, client |-> own,
            channel |-> [type |-> type, deployed |-> FALSE, headers |-> headers]] :
              own \in Sendings(ClientHeaders), type \in Types, stream \in BOOLEAN,
              headers \in SUBSET {"accept", "anthropic-version"}}
==============================================================================
