------------------------- MODULE StreamTranslation -------------------------
(***************************************************************************)
(* A streamed answer on its way to the client: the provider's events, the  *)
(* translator that turns them into OpenAI-shaped chunks (createStream-     *)
(* Translator in lib/transform), the framer that writes the chunks in the  *)
(* client's dialect (framing.ts), and the pull loop of lib/relay/          *)
(* pipeline.ts that ends the stream and settles what it measured.          *)
(*                                                                         *)
(* The n-th event's text is the number n; a tool call's arguments arrive   *)
(* as fragments, which are numbered the same way.                          *)
(***************************************************************************)
EXTENDS Integers, FiniteSets, SequencesExt

CONSTANTS
    MaxEvents,  \* bound: events a provider sends before it ends
    MaxCalls,   \* bound: tool calls in one answer
    Reports     \* token counts a provider reports

ASSUME StreamAssumption == Reports \subseteq Nat

Dialects == {"openai", "anthropic", "gemini"}

VARIABLES
    client,      \* the dialect the stream was opened in
    wire,        \* the dialect of the elected channel
    wanted,      \* the client asked for the usage frame itself
    seen,        \* history: the provider's events the loop has read
    translator,  \* the closure of the stream translator
    framer,      \* the closure of the client framer
    frames,      \* what was enqueued for the client
    phase,       \* "open", or how the stream was over
    bill         \* the usage handed to settle, or NoBill

streamVars == <<client, wire, wanted, seen, translator, framer, frames, phase, bill>>

NoUsage == [prompt |-> 0, out |-> 0]
NoBill == [prompt |-> -1, out |-> -1]

----------------------------------------------------------------------------
(* What the outbound request asks for.                                     *)

\* The Gemini client's stream flag is in its path, not in its body, and its
\* body is what transformRequest converts.
AsksToStream(c, w) == w = "gemini" \/ c # "gemini"

\* normalizeFor injects include_usage for OpenAI clients only, and only an
\* OpenAI channel needs it.
AsksForUsage(c, w) == w # "openai" \/ c = "openai"

----------------------------------------------------------------------------
(* The provider.  Unasked, an OpenAI provider sends no usage frame, and    *)
(* one that was not asked to stream answers with a body that holds no      *)
(* event at all.                                                           *)

OfKind(events, k) == {i \in DOMAIN events : events[i].kind = k}
Has(events, k) == OfKind(events, k) # {}
CallsOpened(events) == Cardinality(OfKind(events, "opens"))

\* "opens" begins a tool call, "args" continues one; Gemini sends calls whole.
\* An Anthropic provider names a call by its content block, and text takes a
\* block too.
ToolEvents(events) ==
    LET block == CallsOpened(events) + (IF Has(events, "text") THEN 1 ELSE 0) IN
    (IF CallsOpened(events) < MaxCalls
     THEN {[kind |-> "opens", call |-> CallsOpened(events), block |-> block]} ELSE {})
    \cup {[kind |-> "args", call |-> events[i].call, block |-> events[i].block] :
              i \in OfKind(events, "opens")}

OpenaiSends(events) ==
    IF Has(events, "finish")
    THEN IF AsksForUsage(client, wire) /\ ~Has(events, "usage")
         THEN {[kind |-> "usage", report |-> n] : n \in Reports}
         ELSE {[kind |-> "done"]}
    ELSE {[kind |-> "text"], [kind |-> "noise"],
          [kind |-> "finish", tools |-> CallsOpened(events) > 0]}
         \cup ToolEvents(events)

AnthropicSends(events) ==
    IF ~Has(events, "start") THEN {[kind |-> "start", report |-> n] : n \in Reports}
    ELSE {[kind |-> "text"], [kind |-> "think"], [kind |-> "noise"], [kind |-> "fault"]}
         \cup {[kind |-> "finish", report |-> n, tools |-> CallsOpened(events) > 0] : n \in Reports}
         \cup ToolEvents(events)

GeminiSends(events) ==
    {[kind |-> "noise"]}
    \cup [kind : {"frame"}, text : BOOLEAN, finish : BOOLEAN, report : Reports,
          call : IF Cardinality({i \in OfKind(events, "frame") : events[i].call}) < MaxCalls
                 THEN BOOLEAN ELSE {FALSE}]

ProviderSends(events) ==
    IF ~AsksToStream(client, wire) \/ Len(events) = MaxEvents THEN {}
    ELSE CASE wire = "openai" -> OpenaiSends(events)
           [] wire = "anthropic" -> AnthropicSends(events)
           [] wire = "gemini" -> GeminiSends(events)

----------------------------------------------------------------------------
(* Translators: an event becomes OpenAI-shaped chunks.                     *)

NewTranslator == [done |-> FALSE, sentRole |-> FALSE, tools |-> 0, blocks |-> <<>>,
                  usage |-> NoUsage]

Chunk == [text |-> 0, think |-> FALSE, calls |-> <<>>, finish |-> ""]
TextChunk(n) == [Chunk EXCEPT !.text = n]
CallChunk(index, opens, n) ==
    [Chunk EXCEPT !.calls = <<[index |-> index, opens |-> opens, args |-> n]>>]
FinishChunk(reason) == [Chunk EXCEPT !.finish = reason]
Reason(tools) == IF tools THEN "tool_calls" ELSE "stop"

ReadOpenai(t, e, n) ==
    CASE e.kind = "done" -> [t |-> [t EXCEPT !.done = TRUE], chunks |-> <<>>]
      [] e.kind = "noise" -> [t |-> t, chunks |-> <<>>]
      [] e.kind = "usage" ->
            [t |-> [t EXCEPT !.usage = [prompt |-> e.report, out |-> e.report]],
             chunks |-> IF wanted THEN <<Chunk>> ELSE <<>>]
      [] e.kind = "finish" -> [t |-> [t EXCEPT !.done = TRUE],
                               chunks |-> <<FinishChunk(Reason(e.tools))>>]
      [] e.kind = "text" -> [t |-> t, chunks |-> <<TextChunk(n)>>]
      [] e.kind = "opens" -> [t |-> t, chunks |-> <<CallChunk(e.call, TRUE, 0)>>]
      [] e.kind = "args" -> [t |-> t, chunks |-> <<CallChunk(e.call, FALSE, n)>>]

\* A slip: the provider's block number is passed on as the call's number.
BadToolIndexByBlock(t, block) == block

ToolIndexByBlock(t, block) == (CHOOSE i \in DOMAIN t.blocks : t.blocks[i] = block) - 1

\* A thinking delta is a chunk that only some framers write.
ReadAnthropic(t, e, n) ==
    CASE e.kind = "start" -> [t |-> [t EXCEPT !.usage.prompt = e.report], chunks |-> <<Chunk>>]
      [] e.kind = "opens" -> [t |-> [t EXCEPT !.tools = @ + 1, !.blocks = Append(@, e.block)],
                              chunks |-> <<CallChunk(t.tools, TRUE, 0)>>]
      [] e.kind = "args" ->
            [t |-> t, chunks |-> <<CallChunk(ToolIndexByBlock(t, e.block), FALSE, n)>>]
      [] e.kind = "text" -> [t |-> t, chunks |-> <<TextChunk(n)>>]
      [] e.kind = "think" -> [t |-> t, chunks |-> <<[Chunk EXCEPT !.think = TRUE]>>]
      [] e.kind = "finish" -> [t |-> [t EXCEPT !.usage.out = e.report, !.done = TRUE],
                               chunks |-> <<FinishChunk(Reason(e.tools))>>]
      [] e.kind = "fault" -> [t |-> [t EXCEPT !.done = TRUE], chunks |-> <<FinishChunk("error")>>]
      [] OTHER -> [t |-> t, chunks |-> <<>>]

\* usageMetadata is cumulative: the last one wins.  The finish reason looks at
\* the calls of its own frame only.
ReadGemini(t, e, n) ==
    IF e.kind = "noise" THEN [t |-> t, chunks |-> <<>>]
    ELSE [t |-> [t EXCEPT !.done = @ \/ e.finish, !.sentRole = TRUE,
                          !.tools = IF e.call THEN @ + 1 ELSE @,
                          !.usage = [prompt |-> e.report, out |-> e.report]],
          chunks |-> (IF t.sentRole THEN <<>> ELSE <<Chunk>>)
                     \o (IF e.text THEN <<TextChunk(n)>> ELSE <<>>)
                     \o (IF e.call THEN <<CallChunk(t.tools, TRUE, n)>> ELSE <<>>)
                     \o (IF e.finish THEN <<FinishChunk(Reason(e.call))>> ELSE <<>>)]

Translate(t, e, n) ==
    CASE wire = "openai" -> ReadOpenai(t, e, n)
      [] wire = "anthropic" -> ReadAnthropic(t, e, n)
      [] wire = "gemini" -> ReadGemini(t, e, n)

----------------------------------------------------------------------------
(* Framers: chunks become the client's frames.                             *)

NewFramer == [sawFinish |-> FALSE, openToolBlocks |-> <<>>, nextIndex |-> 0,
              textIndex |-> -1, stopReason |-> "end_turn", closed |-> FALSE]

\* Text always opens one block, the calls one each, in the order they come.
OpenTextBlock(f) ==
    IF f.textIndex # -1 THEN [f |-> f, out |-> <<>>]
    ELSE [f |-> [f EXCEPT !.textIndex = f.nextIndex, !.nextIndex = @ + 1],
          out |-> <<[type |-> "block_start", index |-> f.nextIndex, tool |-> FALSE]>>]

ToolBlock(f, call) == SelectInSeq(f.openToolBlocks, LAMBDA b : b.call = call)

OpenToolBlock(f, call) ==
    IF ToolBlock(f, call) # 0 THEN [f |-> f, out |-> <<>>]
    ELSE [f |-> [f EXCEPT !.openToolBlocks = Append(@, [call |-> call, index |-> f.nextIndex]),
                          !.nextIndex = @ + 1],
          out |-> <<[type |-> "block_start", index |-> f.nextIndex, tool |-> TRUE]>>]

WriteText(f, n) ==
    LET opened == OpenTextBlock(f) IN
    [f |-> opened.f,
     out |-> opened.out \o <<[type |-> "block_delta", index |-> opened.f.textIndex, part |-> n]>>]

WriteCall(f, call) ==
    LET opened == OpenToolBlock(f, call.index)
        block == opened.f.openToolBlocks[ToolBlock(opened.f, call.index)]
    IN [f |-> opened.f,
        out |-> opened.out \o
                (IF call.args = 0 THEN <<>>
                 ELSE <<[type |-> "block_delta", index |-> block.index, part |-> call.args]>>)]

\* No chunk of a translator carries both text and calls.
FrameAnthropic(f, chunk) ==
    LET written == IF chunk.text # 0 THEN WriteText(f, chunk.text)
                   ELSE IF chunk.calls # <<>> THEN WriteCall(f, chunk.calls[1])
                   ELSE [f |-> f, out |-> <<>>]
    IN [written EXCEPT !.f.stopReason =
            CASE chunk.finish = "" -> @
              [] chunk.finish = "tool_calls" -> "tool_use"
              [] OTHER -> "end_turn"]

\* A call without a name is dropped: it is the continuation of another.
FrameGemini(f, chunk) ==
    LET named == SelectSeq(chunk.calls, LAMBDA c : c.opens)
        empty == chunk.text = 0 /\ ~chunk.think /\ named = <<>> /\ chunk.finish = ""
    IN [f |-> [f EXCEPT !.sawFinish = @ \/ chunk.finish # ""],
        out |-> IF empty THEN <<>>
                ELSE <<[type |-> "candidate", text |-> chunk.text, calls |-> named,
                        finish |-> chunk.finish # ""]>>]

FrameChunk(f, chunk) ==
    CASE client = "openai" -> [f |-> f, out |-> <<[type |-> "chunk", chunk |-> chunk]>>]
      [] client = "gemini" -> FrameGemini(f, chunk)
      [] client = "anthropic" -> FrameAnthropic(f, chunk)

StartFrames == IF client = "anthropic" THEN <<[type |-> "message_start"]>> ELSE <<>>

\* A slip: only the text block is closed.
BadClosingFrames(f) ==
    IF client = "anthropic"
    THEN (IF f.textIndex = -1 THEN <<>> ELSE <<[type |-> "block_stop", index |-> f.textIndex]>>)
         \o <<[type |-> "message_delta", stop |-> f.stopReason], [type |-> "message_stop"]>>
    ELSE <<[type |-> "DONE"]>>

\* Every open block is closed, the youngest first, before the message is.
ClosingFrames(f) ==
    CASE client = "openai" -> <<[type |-> "DONE"]>>
      [] client = "gemini" ->
            <<[type |-> "usage", finish |-> ~f.sawFinish]>>
      [] client = "anthropic" ->
            [i \in 1..f.nextIndex |-> [type |-> "block_stop", index |-> f.nextIndex - i]]
            \o <<[type |-> "message_delta", stop |-> f.stopReason], [type |-> "message_stop"]>>

----------------------------------------------------------------------------
StreamInit ==
    /\ client \in Dialects
    /\ wire \in Dialects
    /\ wanted \in IF client = "openai" THEN BOOLEAN ELSE {TRUE}
    /\ seen = <<>>
    /\ translator = NewTranslator
    /\ framer = NewFramer
    /\ frames = StartFrames
    /\ phase = "open"
    /\ bill = NoBill

\* finishStream: the tail, then settle with what the translator counted.
FinishStream(how, t, f, sent) ==
    /\ phase' = how
    /\ frames' = sent \o ClosingFrames(f)
    /\ framer' = [f EXCEPT !.closed = TRUE]
    /\ bill' = t.usage

\* A slip: the translator's verdict ends every stream.
BadEndsStream(t, e) == t.done

\* OpenAI's finish_reason precedes its usage-only frame: only [DONE] ends that
\* wire format, the translator's verdict the others.
EndsStream(t, e) == IF wire = "openai" THEN e.kind = "done" ELSE t.done

\* One turn of the pull loop: read an event, translate and frame it, and stop
\* when it was the last.
Pull ==
    /\ phase = "open"
    /\ \E e \in ProviderSends(seen) :
          LET read == Translate(translator, e, Len(seen) + 1)
              Write(acc, chunk) ==
                  LET one == FrameChunk(acc.f, chunk)
                  IN [f |-> one.f, out |-> acc.out \o one.out]
              written == FoldLeft(Write, [f |-> framer, out |-> frames], read.chunks)
          IN /\ seen' = Append(seen, e)
             /\ translator' = read.t
             /\ IF EndsStream(read.t, e)
                THEN FinishStream("ended", read.t, written.f, written.out)
                ELSE /\ framer' = written.f
                     /\ frames' = written.out
                     /\ UNCHANGED <<phase, bill>>
    /\ UNCHANGED <<client, wire, wanted>>

\* The provider closes the connection, with or without having finished.
UpstreamEnds ==
    /\ phase = "open"
    /\ FinishStream("cut", translator, framer, frames)
    /\ UNCHANGED <<client, wire, wanted, seen, translator>>

\* A read rejects (connection reset, timeout, a line over the cap): the failure
\* travels as an event, before the closing frames.
UpstreamBreaks ==
    /\ phase = "open"
    /\ FinishStream("broken", translator, framer, Append(frames, [type |-> "error"]))
    /\ UNCHANGED <<client, wire, wanted, seen, translator>>

\* cancel(): settle for what was consumed, write nothing more.
HangUp ==
    /\ phase = "open"
    /\ phase' = "hung up"
    /\ bill' = translator.usage
    /\ UNCHANGED <<client, wire, wanted, seen, translator, framer, frames>>

StreamNext == Pull \/ UpstreamEnds \/ UpstreamBreaks \/ HangUp

StreamSpec == StreamInit /\ [][StreamNext]_streamVars

----------------------------------------------------------------------------
Positions(type) == {i \in DOMAIN frames : frames[i].type = type}
Closed == phase \in {"ended", "cut", "broken"}

\* What an Anthropic client parses: blocks numbered in the order they open, every
\* delta inside its block, every block closed before the message is.
TreeIsWellFormed ==
    LET starts == Positions("block_start")
        stops == Positions("block_stop")
        deltas == Positions("block_delta")
    IN /\ Positions("message_start") = {1}
       /\ \A i \in starts : frames[i].index = Cardinality({j \in starts : j < i})
       /\ \A d \in deltas : \E i \in starts : i < d /\ frames[i].index = frames[d].index
       /\ \A d \in deltas, s \in stops : frames[d].index = frames[s].index => d < s
       /\ Closed =>
             /\ \A i \in starts : Cardinality({s \in stops : frames[s].index = frames[i].index}) = 1
             /\ Cardinality(stops) = Cardinality(starts)
             /\ Positions("message_stop") = {Len(frames)}
             /\ Positions("message_delta") = {Len(frames) - 1}
       /\ ~Closed => stops \cup Positions("message_stop") = {}

\* The closing frames are written exactly once, last, and in every dialect tell
\* the client that nothing follows - also when the provider dies in the middle of
\* a block (framing.ts, finishStream).
StreamIsWellFormed ==
    CASE client = "anthropic" -> TreeIsWellFormed
      [] client = "openai" -> Positions("DONE") = IF Closed THEN {Len(frames)} ELSE {}
      [] client = "gemini" ->
            /\ Closed => \E i \in Positions("candidate") \cup Positions("usage") : frames[i].finish
            /\ Positions("usage") = IF Closed THEN {Len(frames)} ELSE {}

\* The text of an answer, and the fragments of its n-th tool call, as the provider
\* sent them and as the client finds them.
SentText == {i \in DOMAIN seen : seen[i].kind = "text" \/ (seen[i].kind = "frame" /\ seen[i].text)}
SentArgs(c) == {i \in DOMAIN seen : seen[i].kind = "args" /\ seen[i].call = c}

\* The blocks an Anthropic client sees of one sort, in the order they open.
NthBlock(tool, n) ==
    LET sort == {i \in Positions("block_start") : frames[i].tool = tool}
    IN frames[CHOOSE i \in sort : Cardinality({j \in sort : j < i}) = n].index
PartsOf(index) == {frames[i].part : i \in {j \in Positions("block_delta") : frames[j].index = index}}

ChunksRead == {frames[i].chunk : i \in Positions("chunk")}

\* Nothing of an answer is lost, invented or given to the wrong tool call by the
\* two conversions, whatever dialects meet (framers and translators).  A Gemini
\* client gets whole calls only, so fragments of arguments do not reach it.
AnswerArrives ==
    CASE client = "openai" ->
            /\ {c.text : c \in ChunksRead} \ {0} = SentText
            /\ wire # "gemini" =>
                  \A c \in 0..(CallsOpened(seen) - 1) :
                     UNION {{k.args : k \in {x \in ToSet(ch.calls) : x.index = c}} \ {0} :
                               ch \in ChunksRead} = SentArgs(c)
      [] client = "anthropic" ->
            /\ SentText # {} => PartsOf(NthBlock(FALSE, 0)) = SentText
            /\ wire # "gemini" =>
                  \A c \in 0..(CallsOpened(seen) - 1) : PartsOf(NthBlock(TRUE, c)) = SentArgs(c)
      [] client = "gemini" ->
            {frames[i].text : i \in Positions("candidate")} \ {0} = SentText

\* What a provider's complete stream says was used.
LastReport ==
    LET LastOf(k) == seen[CHOOSE i \in OfKind(seen, k) : \A j \in OfKind(seen, k) : j <= i].report
    IN CASE wire = "openai" -> [prompt |-> LastOf("usage"), out |-> LastOf("usage")]
         [] wire = "anthropic" -> [prompt |-> LastOf("start"), out |-> LastOf("finish")]
         [] wire = "gemini" -> [prompt |-> LastOf("frame"), out |-> LastOf("frame")]

\* A stream that the loop itself ends has been read up to the provider's last
\* report, and that report is what is settled (pipeline.ts: OpenAI's finish_reason
\* comes before its usage frame).
LastReportIsBilled ==
    (phase = "ended" /\ AsksForUsage(client, wire) /\ ~Has(seen, "fault")) => bill = LastReport

TranslationIsFaithful == StreamIsWellFormed /\ AnswerArrives /\ LastReportIsBilled

\* docs/PROVIDER-QUIRKS.md:42: include_usage is injected on outbound streaming
\* requests, so a stream that ran to its end - ended by the loop, or cut by a provider
\* that had nothing to stream - is billed for something.
\* It does not hold: see the README, section 6.
StreamsAreBillable ==
    (phase = "ended" \/ (phase = "cut" /\ ~AsksToStream(client, wire)))
        => (bill # NoUsage \/ Has(seen, "fault"))
=============================================================================
