----------------------------- MODULE RequestBody -----------------------------
(***************************************************************************)
(* Reading a JSON body of the caller (src/lib/util/json.ts): chunks are    *)
(* read under a cap, a deadline and the caller's signal, and the value is  *)
(* walked without recursion before anything else looks at it.              *)
(*                                                                         *)
(* A body is the sizes of its chunks; a value is a tree: its nodes, the    *)
(* parent of each, and those whose key is one the gateway drops.           *)
(***************************************************************************)
EXTENDS Naturals, Sequences, FiniteSets, SequencesExt

CONSTANTS
    MaxBody,     \* maxBytes
    MaxJsonNodes,
    MaxJsonDepth,
    MaxChunks,   \* bound: chunks of a body
    NoError      \* a model value: nothing went wrong yet

ASSUME BodyAssumption ==
    /\ MaxBody \in Nat /\ MaxChunks \in Nat
    /\ MaxJsonNodes \in Nat \ {0} /\ MaxJsonDepth \in Nat \ {0}
    /\ NoError \notin {"bytes", "nodes", "depth"}

VARIABLES
    source,    \* the caller's side: [chunks, arrived, state]
    deadline,  \* what settled the promise raced against: NoError, "timeout", "gone"
    guards,    \* what the reader holds: its lock, its timer, its listener
    buffered,  \* bytes kept so far
    phase,     \* "reading", "walking", "read" or "refused"
    why,       \* why it was refused
    value,     \* the parsed tree
    stack,     \* work left of the walk: nodes and their depths
    walked     \* nodes the walk has counted

bodyVars == <<source, deadline, guards, buffered, phase, why, value, stack, walked>>

Sizes == {0, 1, 2}      \* a chunk may be empty
BytesOf(sizes) == SumFunctionOnSet(sizes, DOMAIN sizes)

\* Trees with one node more than the walk takes, numbered so that a parent
\* comes before its children.
Trees ==
    {[nodes |-> 1..n, parent |-> p, dropped |-> d] :
       n \in 1..(MaxJsonNodes + 1), p \in [2..(MaxJsonNodes + 1) -> 1..MaxJsonNodes],
       d \in SUBSET (2..(MaxJsonNodes + 1))}
Wellformed(t) ==
    /\ \A i \in DOMAIN t.parent : t.parent[i] < i /\ (i \notin t.nodes => t.parent[i] = 1)
    /\ t.dropped \subseteq t.nodes
ParsedValues == {t \in Trees : Wellformed(t)}
ChildrenOf(t, n) == {i \in t.nodes \ {1} : t.parent[i] = n}

Free == {}
Armed == {"lock", "timer", "listener"}

ReadInit ==
    /\ source = [arrived |-> <<>>, taken |-> <<>>, state |-> "open"]
    /\ deadline = NoError
    /\ guards = Armed
    /\ buffered = 0
    /\ phase = "reading" /\ why = NoError
    /\ value = NoError /\ stack = <<>> /\ walked = 0

Unparsed == UNCHANGED <<value, stack, walked>>
Chunks == Len(source.arrived) + Len(source.taken)

\* The caller sends a chunk, ends the body, or breaks off; or stalls.
SourceSends ==
    /\ phase = "reading" /\ source.state = "open"
    /\ \/ \E size \in Sizes :
            /\ Chunks < MaxChunks
            /\ source' = [source EXCEPT !.arrived = Append(@, size)]
       \/ \E end \in {"ended", "broken"} : source' = [source EXCEPT !.state = end]
    /\ UNCHANGED <<deadline, guards, buffered, phase, why>> /\ Unparsed

\* The timer fires or the caller's signal is aborted, each while it is held.
\* Whichever is first settles the promise.
DeadlineSettles(reason) ==
    /\ reason = "timeout" => "timer" \in guards
    /\ reason = "gone" => "listener" \in guards
    /\ deadline = NoError /\ deadline' = reason
    /\ UNCHANGED <<source, guards, buffered, phase, why>> /\ Unparsed

\* A slip: the lock and the timer stay with the reader.
BadRelease == guards \ {"listener"}

\* finally: the timer is cleared, the listener removed, the lock released.
Release == Free

Refused(reason) ==
    /\ phase' = "refused" /\ why' = reason /\ guards' = Release

\* A chunk is there: the read wins the race, even after the deadline.
TakeChunk ==
    LET size  == Head(source.arrived)
        total == buffered + size
    IN  /\ phase = "reading" /\ source.arrived # <<>>
        /\ source' = [source EXCEPT !.arrived = Tail(@), !.taken = Append(@, size)]
        /\ IF total > MaxBody
             THEN Refused("bytes") /\ UNCHANGED buffered
             ELSE buffered' = total /\ UNCHANGED <<phase, why, guards>>
        /\ UNCHANGED deadline /\ Unparsed

\* No chunk is there: the body ends and is parsed, or breaks off, or the
\* deadline wins.
EndBody ==
    /\ phase = "reading" /\ source.arrived = <<>> /\ source.state = "ended"
    /\ guards' = Release
    /\ \/ /\ phase' = "refused" /\ why' = "syntax" /\ Unparsed
       \/ /\ value' \in ParsedValues
          /\ stack' = <<[node |-> 1, depth |-> 1]>>
          /\ phase' = "walking" /\ UNCHANGED <<why, walked>>
    /\ UNCHANGED <<source, deadline, buffered>>

BreakOff ==
    /\ phase = "reading" /\ source.arrived = <<>> /\ source.state = "broken"
    /\ Refused("broken")
    /\ UNCHANGED <<source, deadline, buffered>> /\ Unparsed

GiveUp ==
    /\ phase = "reading" /\ source.arrived = <<>> /\ deadline # NoError
    /\ Refused(deadline)
    /\ UNCHANGED <<source, deadline, buffered>> /\ Unparsed

\* A slip: children are pushed before they are counted.
BadTooWide(work) == FALSE

\* Wide trees are refused before a work item is made for every child.
TooWide(work) == work > MaxJsonNodes

\* assertJsonLimits, one entry of its stack.
Walk ==
    LET entry    == Last(stack)
        rest     == Front(stack)
        children == ChildrenOf(value, entry.node)
        work     == walked + 1 + Len(rest) + Cardinality(children)
    IN  /\ phase = "walking" /\ stack # <<>>
        /\ walked' = walked + 1
        /\ IF walked + 1 > MaxJsonNodes \/ TooWide(work)
             THEN phase' = "refused" /\ why' = "nodes" /\ UNCHANGED stack
           ELSE IF entry.depth > MaxJsonDepth
             THEN phase' = "refused" /\ why' = "depth" /\ UNCHANGED stack
           ELSE /\ stack' = rest \o [i \in 1..Cardinality(children) |->
                        [node |-> SetToSeq(children)[i], depth |-> entry.depth + 1]]
                /\ UNCHANGED <<phase, why>>
        /\ UNCHANGED <<source, deadline, guards, buffered, value>>

\* cloneSanitized: what is under a dropped key goes with it.
Sanitized(t) ==
    [t EXCEPT !.nodes = UNION {some \in SUBSET (t.nodes \ t.dropped) :
                                 \A n \in some \ {1} : t.parent[n] \in some}]

Clone ==
    /\ phase = "walking" /\ stack = <<>>
    /\ value' = Sanitized(value)
    /\ phase' = "read"
    /\ UNCHANGED <<source, deadline, guards, buffered, why, stack, walked>>

ReadNext ==
    \/ SourceSends \/ TakeChunk \/ EndBody \/ BreakOff \/ GiveUp \/ Walk \/ Clone
    \/ \E reason \in {"timeout", "gone"} : DeadlineSettles(reason)

ReadSpec == ReadInit /\ [][ReadNext]_bodyVars

-----------------------------------------------------------------------------
(* Properties *)

\* The ways of n nodes down from the root, each a child of the one before.
Ways(t, n) ==
    {way \in [1..n -> t.nodes] :
        /\ way[1] = 1
        /\ \A i \in 1..(n - 1) : way[i + 1] \in ChildrenOf(t, way[i])}
TooDeep(t) == Ways(t, MaxJsonDepth + 1) # {}

\* util/json.ts: "an oversized payload is rejected before it is fully buffered"
\* and "Iterative depth/size walk".  Whatever the order of chunks, deadline and
\* caller, no more than the cap is ever kept; a body that is read is all that was
\* sent; a refusal for size, width or depth is a true one; and the reader lets go
\* of the stream, the timer and the signal however it ends.
BodyIsBounded ==
    /\ buffered <= MaxBody
    /\ phase # "reading" => guards = Free
    /\ phase \in {"walking", "read"} =>
         source.state = "ended" /\ buffered = BytesOf(source.taken \o source.arrived)
    /\ why = "bytes" => BytesOf(source.taken) > MaxBody
    /\ phase = "walking" => walked + Len(stack) <= MaxJsonNodes
    /\ phase = "read" => walked <= MaxJsonNodes
    /\ why = "nodes" => Cardinality(value.nodes) > MaxJsonNodes
    /\ why = "depth" => TooDeep(value)
    /\ phase = "read" =>
         /\ ~TooDeep(value)
         /\ \A n \in value.nodes \ {1} : n \notin value.dropped /\ value.parent[n] \in value.nodes

\* util/json.ts: a source that stalls does not hold the reader: it ends.
BodySettles == <>(phase \in {"read", "refused"})
=============================================================================
