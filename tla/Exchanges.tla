------------------------------ MODULE Exchanges ------------------------------
(***************************************************************************)
(* What the gateway exchanges over sockets: the answers it fetches         *)
(* (upstream/fetch.ts) and the bodies it is sent (util/json.ts).           *)
(***************************************************************************)
EXTENDS UpstreamCall, RequestBody

\* What arrives over a socket, an answer (upstream/fetch.ts) or a request
\* (util/json.ts), is read within its limits, and whatever way the reading
\* ends its timer, listener and reader are given back.
ExchangesStayBounded == CallsAreReleased /\ BodyIsBounded
==============================================================================
