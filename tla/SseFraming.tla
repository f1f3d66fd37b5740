----------------------------- MODULE SseFraming -----------------------------
(***************************************************************************)
(* Server-sent event framing, lib/transform/sse.ts: createSseParser reads  *)
(* what a provider sends in chunks cut anywhere, formatSse writes what the *)
(* client reads.  A text is a sequence of tokens: the field prefixes       *)
(* "data:", "event:" and "id:", the comment prefix ":", payload "x" and    *)
(* the two line terminators.  A line of tokens has a field only if its     *)
(* first token is a prefix; the same tokens later in a line are payload.   *)
(***************************************************************************)
EXTENDS Integers, SequencesExt

CONSTANTS
    MaxLineBytes,  \* the cap on a line, and on the data of one event
    MaxText,       \* bound: tokens a provider sends
    MaxPayload     \* bound: tokens in a payload the gateway writes

VARIABLES
    text,      \* what is on the wire
    framed,    \* the payloads it was formatted from, <<>> for a provider's text
    position,  \* tokens of text already pushed
    parser,    \* the closure of createSseParser
    handed,    \* events handed to the consumer
    parsing    \* "reading", "ended" (flushed) or "failed" (over the cap)

framingVars == <<text, framed, position, parser, handed, parsing>>

Symbols == {"data", "event", "id", ":", "x", "CR", "LF"}
Terminators == {"CR", "LF"}
NoName == <<"none">>   \* null for event: and id:

NewParser == [buffer |-> <<>>, dataLines |-> <<>>, event |-> NoName,
              lastId |-> NoName, pending |-> FALSE, bytes |-> 0,
              out |-> <<>>, failed |-> FALSE]

----------------------------------------------------------------------------
\* A slip: a CR that ends the buffer ends its line at once.
BadCutLines(buffer) ==
    LET Paired(i) == buffer[i] = "CR" /\ i < Len(buffer) /\ buffer[i + 1] = "LF"
        Cut(acc, i) ==
            IF i < acc.from \/ buffer[i] \notin Terminators THEN acc
            ELSE [lines |-> Append(acc.lines, SubSeq(buffer, acc.from, i - 1)),
                  from |-> IF Paired(i) THEN i + 2 ELSE i + 1]
        cut == FoldLeftDomain(Cut, [lines |-> <<>>, from |-> 1], buffer)
    IN [lines |-> cut.lines, rest |-> SubSeq(buffer, cut.from, Len(buffer))]

\* Cuts off every terminated line.  A CR that ends the buffer may be half of a
\* CRLF, so it waits for the next chunk.
CutLines(buffer) ==
    LET Ends(i) == \/ buffer[i] = "LF"
                   \/ buffer[i] = "CR" /\ i < Len(buffer)
        After(i) == IF buffer[i] = "CR" /\ buffer[i + 1] = "LF" THEN i + 2 ELSE i + 1
        Cut(acc, i) ==
            IF i < acc.from \/ ~Ends(i) THEN acc
            ELSE [lines |-> Append(acc.lines, SubSeq(buffer, acc.from, i - 1)),
                  from |-> After(i)]
        cut == FoldLeftDomain(Cut, [lines |-> <<>>, from |-> 1], buffer)
    IN [lines |-> cut.lines, rest |-> SubSeq(buffer, cut.from, Len(buffer))]

Dispatch(p) ==
    IF ~p.pending THEN p
    ELSE [p EXCEPT !.out = Append(@, [event |-> p.event, data |-> p.dataLines,
                                      id |-> p.lastId, comment |-> FALSE]),
                   !.event = NoName, !.dataLines = <<>>, !.pending = FALSE, !.bytes = 0]

Comment == [event |-> NoName, data |-> <<>>, id |-> NoName, comment |-> TRUE]

HandleLine(p, line) ==
    LET value == Tail(line) IN
    IF p.failed \/ Len(line) > MaxLineBytes THEN [p EXCEPT !.failed = TRUE]
    ELSE IF line = <<>> THEN Dispatch(p)
    ELSE CASE line[1] = ":" -> [p EXCEPT !.out = Append(@, Comment)]
           [] line[1] = "data" ->
                [p EXCEPT !.bytes = @ + Len(value) + 1,
                          !.failed = p.bytes + Len(value) + 1 > MaxLineBytes,
                          !.dataLines = Append(@, value), !.pending = TRUE]
           [] line[1] = "event" -> [p EXCEPT !.event = value, !.pending = TRUE]
           [] line[1] = "id" -> [p EXCEPT !.lastId = value, !.pending = TRUE]
           [] OTHER -> p

StripCR(buffer) ==
    IF buffer # <<>> /\ Last(buffer) = "CR" THEN Front(buffer) ELSE buffer

Push(p, chunk) ==
    LET cut == CutLines(p.buffer \o chunk)
        read == FoldLeft(HandleLine, [p EXCEPT !.out = <<>>], cut.lines)
    IN [read EXCEPT !.buffer = cut.rest,
                    !.failed = @ \/ Len(StripCR(cut.rest)) > MaxLineBytes]

Flush(p) ==
    LET last == IF p.buffer = <<>> THEN [p EXCEPT !.out = <<>>]
                ELSE HandleLine([p EXCEPT !.out = <<>>], StripCR(p.buffer))
    IN [Dispatch(last) EXCEPT !.buffer = <<>>]

----------------------------------------------------------------------------
SplitLines(payload) ==
    LET cut == CutLines(payload \o <<"LF">>) IN cut.lines

\* A slip: the payload is written as one line, whatever it contains.
BadFormatSse(payload) == <<"data">> \o payload \o <<"LF", "LF">>

\* One data: line per line of the payload, then the blank line.
FormatSse(payload) ==
    FlattenSeq([i \in DOMAIN SplitLines(payload) |->
                    <<"data">> \o SplitLines(payload)[i] \o <<"LF">>]) \o <<"LF">>

----------------------------------------------------------------------------
FramingInit ==
    /\ \/ text \in BoundedSeq(Symbols \ {"id", ":"}, MaxText) /\ framed = <<>>
       \/ \E one, two \in BoundedSeq({"x", "data", "CR", "LF"}, MaxPayload) :
             /\ text = FormatSse(one) \o FormatSse(two)
             /\ framed = <<one, two>>
       \/ text \in {<<"id", "x", "LF">> \o t \o <<"LF", ":", "LF", "data", "CR", "LF", "LF">> :
                      t \in BoundedSeq({"data", "CR", "LF"}, 2)} /\ framed = <<>>
    /\ position = 0
    /\ parser = NewParser
    /\ handed = <<>>
    /\ parsing = "reading"

\* A read returns a chunk of any size.  What a failing push had collected is
\* lost with it.
PushChunk ==
    /\ parsing = "reading"
    /\ \E upto \in (position + 1)..Len(text) :
          LET next == Push(parser, SubSeq(text, position + 1, upto)) IN
          /\ position' = upto
          /\ parser' = [next EXCEPT !.out = <<>>]
          /\ IF next.failed THEN parsing' = "failed" /\ UNCHANGED handed
             ELSE handed' = handed \o next.out /\ UNCHANGED parsing
    /\ UNCHANGED <<text, framed>>

FlushRest ==
    /\ parsing = "reading"
    /\ position = Len(text)
    /\ LET last == Flush(parser) IN
       /\ parser' = [last EXCEPT !.out = <<>>]
       /\ IF last.failed THEN parsing' = "failed" /\ UNCHANGED handed
          ELSE parsing' = "ended" /\ handed' = handed \o last.out
    /\ UNCHANGED <<text, framed, position>>

FramingNext == PushChunk \/ FlushRest

----------------------------------------------------------------------------
\* What the whole text says when it arrives in one piece.
InOnePiece(t) ==
    LET all == Push(NewParser, t)
        end == Flush(all)
    IN [out |-> all.out \o end.out, failed |-> all.failed \/ end.failed]

\* Where a chunk is cut changes nothing: what was handed over is a prefix of
\* what the whole text says, all of it at the end, and only a text that is over
\* a cap fails (createSseParser carries its state between reads).
CutsDoNotMatter ==
    LET whole == InOnePiece(text) IN
    /\ ~whole.failed => IsPrefix(handed, whole.out)
    /\ parsing = "ended" => ~whole.failed /\ handed = whole.out
    /\ parsing = "failed" => whole.failed

\* A payload is one event, whatever terminators it contains: no payload ends its
\* frame and begins one the gateway never wrote (formatSse).
FrameIsOneEvent ==
    (parsing = "ended" /\ framed # <<>>) =>
        /\ Len(handed) = Len(framed)
        /\ \A i \in DOMAIN framed : handed[i].data = SplitLines(framed[i])

FramingIsExact == CutsDoNotMatter /\ FrameIsOneEvent
=============================================================================
