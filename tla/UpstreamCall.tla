---------------------------- MODULE UpstreamCall ----------------------------
(***************************************************************************)
(* One call of src/lib/upstream/fetch.ts: the target is validated, fetched *)
(* under timers, redirected a bounded number of times with a validation    *)
(* before each hop, and its body is handed over behind a guard that limits *)
(* its silence and its length.  The client may leave and every timer may   *)
(* run out between any two steps, and the name of the host may come to     *)
(* resolve to another address meanwhile.                                   *)
(*                                                                         *)
(* A hop holds three things until its cleanup: its total timer, its        *)
(* listener on the client's signal and the dispatcher that is pinned to    *)
(* the addresses validated for it.                                         *)
(***************************************************************************)
EXTENDS Naturals, FiniteSets

CONSTANTS
    MaxRedirects,   \* maxRedirects
    MaxBytes,       \* the cap of the body
    MaxMoves        \* bound: changes of the host's address

ASSUME CallAssumption ==
    MaxRedirects \in Nat /\ MaxBytes \in Nat \ {0} /\ MaxMoves \in Nat

VARIABLES
    stage,       \* "validate", "connect", "body", "returned" or "thrown"
    hop,         \* hops begun so far
    held,        \* the hops whose cleanup has not run
    headerTimer, \* the timer of the headers is armed
    aborted,     \* the signal of this hop's fetch
    client,      \* the caller's signal: "waiting" or "gone"
    payload,     \* what the next hop would send: "none", "bytes", "stream"
    pinned,      \* the address the dispatcher connects to
    address,     \* the address the host resolves to
    verdict,     \* the cached resolution, or "unknown"
    moves,
    reading,     \* the guard waits for a chunk
    passed,      \* units of the body that the reader was given
    reached      \* the addresses that were connected to

callVars == <<stage, hop, held, headerTimer, aborted, client, payload, pinned,
              address, verdict, moves, reading, passed, reached>>

Addresses == {"public", "private"}
Ended == stage \in {"returned", "thrown"}
Unchanged(fetch) == UNCHANGED <<address, verdict, moves>> /\ UNCHANGED fetch

CallInit ==
    /\ stage = "validate"
    /\ hop = 0
    /\ held = {}
    /\ headerTimer = FALSE /\ aborted = FALSE /\ reading = FALSE
    /\ client = "waiting"
    /\ payload \in {"none", "bytes", "stream"}
    /\ pinned = "unknown"
    /\ address \in Addresses
    /\ verdict = "unknown"
    /\ moves = 0 /\ passed = 0
    /\ reached = {}

\* cleanup of the hop: its timer, listener and dispatcher go.
Cleanup == held' = held \ {hop}

\* The error of a hop leaves upstreamFetch, or its body's guard.
Throw == stage' = "thrown" /\ headerTimer' = FALSE /\ reading' = FALSE

-----------------------------------------------------------------------------
\* assertUpstreamUrlAllowed: the address comes from the cached verdict or
\* from the resolver, which may fail; what is not public is refused.  Either
\* verdict is cached, unless the store is away.
Resolved == IF verdict = "unknown" THEN address ELSE verdict

Refuse ==
    /\ stage = "validate"
    /\ verdict' \in IF Resolved = "private" THEN {verdict, "private"} ELSE {verdict}
    /\ Throw
    /\ UNCHANGED <<hop, held, aborted, client, payload, pinned, address, moves,
                   passed, reached>>

\* The target passes: the hop takes its dispatcher, listener and timers.  A
\* client that left while the address was resolved aborts the hop at once.
Begin ==
    /\ stage = "validate"
    /\ Resolved = "public"
    /\ verdict' \in {verdict, "public"}
    /\ hop' = hop + 1
    /\ held' = held \cup {hop + 1}
    /\ pinned' = Resolved
    /\ aborted' = (client = "gone")
    /\ headerTimer' = TRUE
    /\ stage' = "connect"
    /\ UNCHANGED <<client, payload, address, moves, reading, passed, reached>>

\* A cached verdict runs out.
VerdictExpires ==
    /\ verdict # "unknown" /\ verdict' = "unknown"
    /\ UNCHANGED <<stage, hop, held, headerTimer, aborted, client, payload,
                   pinned, address, moves, reading, passed, reached>>

\* The host's owner moves its name to another address.
HostMoves ==
    /\ moves < MaxMoves
    /\ moves' = moves + 1
    /\ address' \in Addresses \ {address}
    /\ UNCHANGED <<stage, hop, held, headerTimer, aborted, client, payload,
                   pinned, verdict, reading, passed, reached>>

-----------------------------------------------------------------------------
\* The caller's signal and the timers abort the fetch of the hop that holds
\* them; nobody listens between two hops.
ClientLeaves ==
    /\ client = "waiting" /\ ~Ended
    /\ client' = "gone"
    /\ aborted' = (aborted \/ hop \in held)
    /\ Unchanged(<<stage, hop, held, headerTimer, payload, pinned, reading,
                   passed, reached>>)

TimeRunsOut ==
    /\ hop \in held /\ ~aborted
    /\ aborted' = TRUE
    /\ Unchanged(<<stage, hop, held, headerTimer, client, payload, pinned,
                   reading, passed, reached>>)

HeadersTimeOut ==
    /\ headerTimer /\ ~aborted
    /\ aborted' = TRUE /\ headerTimer' = FALSE
    /\ Unchanged(<<stage, hop, held, client, payload, pinned, reading, passed,
                   reached>>)

\* fetch fails: the transport broke or the hop was aborted.
FetchFails ==
    /\ stage = "connect"
    /\ Cleanup
    /\ Throw
    /\ reached' \in {reached, reached \cup {pinned}}
    /\ Unchanged(<<hop, aborted, client, payload, pinned, passed>>)

\* Headers arrive.  A response without a body is handed over as it is.
HeadersOnly ==
    /\ stage = "connect" /\ ~aborted
    /\ stage' = "returned"
    /\ headerTimer' = FALSE
    /\ Cleanup
    /\ reached' = reached \cup {pinned}
    /\ Unchanged(<<hop, aborted, client, payload, pinned, reading, passed>>)

HeadersAndBody ==
    /\ stage = "connect" /\ ~aborted
    /\ stage' = "body"
    /\ headerTimer' = FALSE
    /\ reached' = reached \cup {pinned}
    /\ Unchanged(<<hop, held, aborted, client, payload, pinned, reading, passed>>)

\* What the next hop sends: 303, and 301 or 302 to a POST, turn into a GET.
Replayed(rewritten) == IF rewritten THEN "none" ELSE payload

\* A redirect that is not followed: one too many, to another origin, or of a
\* streamed body that was already sent.
RefuseRedirect ==
    /\ stage = "connect" /\ ~aborted
    /\ Cleanup
    /\ Throw
    /\ reached' = reached \cup {pinned}
    /\ Unchanged(<<hop, aborted, client, payload, pinned, passed>>)

\* A slip: the hop that redirected keeps its timer and its dispatcher.
BadLeaveHop == held' = held
LeaveHop == Cleanup

FollowRedirect ==
    /\ stage = "connect" /\ ~aborted
    /\ hop <= MaxRedirects
    /\ \E rewritten \in BOOLEAN :
         /\ Replayed(rewritten) # "stream"
         /\ payload' = Replayed(rewritten)
    /\ LeaveHop
    /\ headerTimer' = FALSE
    /\ stage' = "validate"
    /\ reached' = reached \cup {pinned}
    /\ Unchanged(<<hop, aborted, client, pinned, reading, passed>>)

-----------------------------------------------------------------------------
\* The reader pulls: the guard reads a chunk against the timer of silence.
Pull ==
    /\ stage = "body" /\ ~reading
    /\ reading' = TRUE
    /\ Unchanged(<<stage, hop, held, headerTimer, aborted, client, payload,
                   pinned, passed, reached>>)

\* A chunk within the cap is passed on.
Fits(units) == passed + units <= MaxBytes

ChunkPasses ==
    /\ reading /\ ~aborted
    /\ \E units \in {1, 2} : Fits(units) /\ passed' = passed + units
    /\ reading' = FALSE
    /\ Unchanged(<<stage, hop, held, headerTimer, aborted, client, payload,
                   pinned, reached>>)

\* The body ends well.
BodyEnds ==
    /\ reading /\ ~aborted
    /\ stage' = "returned" /\ reading' = FALSE
    /\ Cleanup
    /\ Unchanged(<<hop, headerTimer, aborted, client, payload, pinned, passed,
                   reached>>)

\* It ends badly: a chunk passes the cap, the silence lasts too long, or the
\* read fails because the transport broke or the hop was aborted.
BodyFails ==
    /\ reading
    /\ Cleanup
    /\ Throw
    /\ Unchanged(<<hop, aborted, client, payload, pinned, passed, reached>>)

\* The reader wants no more of it.
ReaderCancels ==
    /\ stage = "body"
    /\ stage' = "returned" /\ reading' = FALSE
    /\ Cleanup
    /\ Unchanged(<<hop, headerTimer, aborted, client, payload, pinned, passed,
                   reached>>)

CallNext ==
    \/ Refuse \/ Begin \/ VerdictExpires \/ HostMoves
    \/ ClientLeaves \/ TimeRunsOut \/ HeadersTimeOut
    \/ FetchFails \/ HeadersOnly \/ HeadersAndBody
    \/ RefuseRedirect \/ FollowRedirect
    \/ Pull \/ ChunkPasses \/ BodyEnds \/ BodyFails \/ ReaderCancels

\* The resolver has its own timeout, setTimeout fires, an aborted fetch
\* rejects, and the callers (readCappedText and the relay's stream) read on.
CallFairness ==
    /\ WF_callVars(Refuse \/ Begin)
    /\ WF_callVars(TimeRunsOut)
    /\ WF_callVars(FetchFails)
    /\ WF_callVars(Pull)
    /\ WF_callVars(BodyFails)

CallSpec == CallInit /\ [][CallNext]_callVars /\ CallFairness

-----------------------------------------------------------------------------
\* upstreamFetch and guardStream: however the call goes, at most the hop
\* under way holds a timer, a listener and a dispatcher, the timer of the
\* headers is off once they came, and nothing is held when the call is over.
NothingIsHeldLonger ==
    /\ held \subseteq {hop}
    /\ stage \in {"connect", "body"} <=> held # {}
    /\ headerTimer => stage = "connect"

\* A hop connects to an address that was validated, whatever the name came to
\* resolve to; a call makes no more hops than it may; a streamed body is sent
\* once; the reader gets no more than the cap.
CallsStayInBounds ==
    /\ "private" \notin reached
    /\ hop <= MaxRedirects + 1
    /\ payload = "stream" => hop <= 1
    /\ passed <= MaxBytes

CallsAreReleased == NothingIsHeldLonger /\ CallsStayInBounds

\* The absolute timer of upstreamFetch: every call ends.
CallEnds == <>Ended
=============================================================================
