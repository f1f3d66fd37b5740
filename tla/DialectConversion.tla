------------------------- MODULE DialectConversion -------------------------
(***************************************************************************)
(* A buffered request and its answer across provider dialects: transform-  *)
(* Request and transformResponse of lib/transform/index.ts, with the       *)
(* converters of anthropic.ts, gemini.ts and openai.ts.  Every conversion  *)
(* goes through the OpenAI shape.                                          *)
(*                                                                         *)
(* A body is [system, turns, asks]: the dialects that have a system field  *)
(* keep it apart, OpenAI keeps system turns among the others.  A turn has  *)
(* parts of a type; a text part carries the number of the turn it was      *)
(* written in, a call or result names a call by its id and its function    *)
(* (Gemini has no ids).  What it asks of the model is a cap on tokens and  *)
(* a choice of tools.  An answer has choices, counts of tokens as its      *)
(* dialect counts them, and the name of a model.                           *)
(***************************************************************************)
EXTENDS Integers, FiniteSets, SequencesExt

CONSTANTS
    MaxTurns  \* bound: turns of a request

Speaks == {"openai", "anthropic", "gemini"}

VARIABLES
    speaks,    \* the client's dialect
    channel,   \* the dialect of the channel
    request,   \* the client's body
    outbound,  \* the body sent upstream, or NoBody
    answer,    \* the provider's answer, or NoBody
    returned,  \* the answer the client gets, or NoBody
    stage      \* "request", "sent", "refused" (400) or "answered"

conversionVars == <<speaks, channel, request, outbound, answer, returned, stage>>

NoAsks == [cap |-> 0, choice |-> ""]
NoBody == [system |-> <<>>, turns |-> <<>>, asks |-> NoAsks]

Text(n) == [type |-> "text", turn |-> n]
Media(kind) == [type |-> kind]
Call(id, fn) == [type |-> "call", id |-> id, fn |-> fn]
Result(id, fn) == [type |-> "result", id |-> id, fn |-> fn]

Of(parts, types) == SelectSeq(parts, LAMBDA p : p.type \in types)
OpenaiRoles == {"system", "developer", "user", "assistant", "tool", "function"}

----------------------------------------------------------------------------
(* Requests into the OpenAI shape.                                         *)

\* Results become tool turns of their own; text and calls are gathered; images and
\* thinking have no place in it.
SplitTurn(turn, role) ==
    LET results == Of(turn.parts, {"result"})
        rest == Of(turn.parts, {"text"}) \o Of(turn.parts, {"call"})
    IN [i \in DOMAIN results |-> [role |-> "tool", parts |-> <<results[i]>>]]
       \o (IF rest = <<>> THEN <<>> ELSE <<[role |-> role, parts |-> rest]>>)

SystemTurn(body) ==
    IF body.system = <<>> THEN <<>> ELSE <<[role |-> "system", parts |-> body.system]>>

DEFAULT_MAX_TOKENS == 4096
OrDefault(cap) == IF cap = 0 THEN DEFAULT_MAX_TOKENS ELSE cap

\* A slip: being made to call some tool is taken for no choice.
BadToolChoiceToOpenai(choice) ==
    CASE choice = "tool" -> "function"
      [] choice = "any" -> ""
      [] OTHER -> choice

ToolChoiceToOpenai(choice) ==
    CASE choice = "any" -> "required"
      [] choice = "tool" -> "function"
      [] OTHER -> choice

AnthropicToOpenaiRequest(body) ==
    [system |-> <<>>,
     asks |-> [cap |-> OrDefault(body.asks.cap),
               choice |-> ToolChoiceToOpenai(body.asks.choice)],
     turns |-> SystemTurn(body) \o
               FlattenSeq([i \in DOMAIN body.turns |->
                              SplitTurn(body.turns[i], body.turns[i].role)])]

\* Gemini names a call by its function: a call gets an id at random, a result is
\* filed under the function's name.  A choice of tools is not read.
GeminiToOpenaiRequest(body) ==
    LET Named(p) == CASE p.type = "call" -> [p EXCEPT !.id = "random"]
                      [] p.type = "result" -> [p EXCEPT !.id = p.fn]
                      [] OTHER -> p
        Turn(t) == SplitTurn([t EXCEPT !.parts = [i \in DOMAIN t.parts |-> Named(t.parts[i])]],
                             IF t.role = "model" THEN "assistant" ELSE "user")
    IN [system |-> <<>>, asks |-> [body.asks EXCEPT !.choice = ""],
        turns |-> SystemTurn(body) \o
                  FlattenSeq([i \in DOMAIN body.turns |-> Turn(body.turns[i])])]

RolesKnown(body, dialect) ==
    \A i \in DOMAIN body.turns :
        body.turns[i].role \in CASE dialect = "openai" -> OpenaiRoles
                                 [] dialect = "anthropic" -> {"user", "assistant"}
                                 [] dialect = "gemini" -> {"", "user", "model"}

----------------------------------------------------------------------------
(* Requests out of the OpenAI shape.                                       *)

\* appendMessage, appendContent: a turn of the last turn's role joins it.
AppendTurn(turns, role, parts) ==
    IF parts = <<>> THEN turns
    ELSE IF turns # <<>> /\ Last(turns).role = role
         THEN Front(turns) \o <<[role |-> role, parts |-> Last(turns).parts \o parts]>>
         ELSE Append(turns, [role |-> role, parts |-> parts])

\* A slip: a function's result is taken for an instruction.
BadSystemRoles == {"system", "developer", "function"}

\* The roles whose text becomes instructions.
SystemRoles == {"system", "developer"}

\* Gemini files a result under its name, or else under the id of its call.
ResultFor(to, result) ==
    IF to = "gemini" /\ result.fn = "" THEN [result EXCEPT !.fn = result.id] ELSE result

\* System turns are lifted into the system field wherever they stand, results go to
\* the user's side, audio is dropped, an assistant's calls follow its content.
LiftFromOpenai(body, to, asks) ==
    LET assistant == IF to = "gemini" THEN "model" ELSE "assistant"
        Lift(acc, turn) ==
            CASE turn.role \in SystemRoles ->
                    [acc EXCEPT !.system = @ \o Of(turn.parts, {"text", "image"})]
              [] turn.role \in {"tool", "function"} \ SystemRoles ->
                    [acc EXCEPT !.turns = AppendTurn(@, "user", <<ResultFor(to, turn.parts[1])>>)]
              [] turn.role = "assistant" ->
                    [acc EXCEPT !.turns = AppendTurn(@, assistant,
                        Of(turn.parts, {"text", "image"}) \o Of(turn.parts, {"call"}))]
              [] turn.role = "user" ->
                    [acc EXCEPT !.turns = AppendTurn(@, "user", Of(turn.parts, {"text", "image"}))]
    IN FoldLeft(Lift, [system |-> <<>>, turns |-> <<>>, asks |-> asks], body.turns)

ToolChoiceToAnthropic(choice) ==
    CASE choice = "required" -> "any"
      [] choice = "function" -> "tool"
      [] OTHER -> choice

OpenaiToAnthropicRequest(body) ==
    LiftFromOpenai(body, "anthropic",
                   [cap |-> OrDefault(body.asks.cap),
                    choice |-> ToolChoiceToAnthropic(body.asks.choice)])

\* The mode of a toolConfig; a function is named by allowing no other.
ToolMode(choice) ==
    CASE choice = "auto" -> "AUTO"
      [] choice = "none" -> "NONE"
      [] choice = "required" -> "ANY"
      [] choice = "function" -> "ANY of one"
      [] OTHER -> ""

OpenaiToGeminiRequest(body) ==
    LiftFromOpenai(body, "gemini", [body.asks EXCEPT !.choice = ToolMode(@)])

TransformRequest(from, to, body) ==
    LET canonical == CASE from = "openai" -> body
                       [] from = "anthropic" -> AnthropicToOpenaiRequest(body)
                       [] from = "gemini" -> GeminiToOpenaiRequest(body)
    IN CASE to = "openai" -> canonical
         [] to = "anthropic" -> OpenaiToAnthropicRequest(canonical)
         [] to = "gemini" -> OpenaiToGeminiRequest(canonical)

----------------------------------------------------------------------------
(* Answers.                                                                *)

\* finishReasonFromAnthropic, finishReasonFromGemini.
ToOpenaiFinish(from, finish, calls) ==
    CASE from = "openai" -> finish
      [] from = "anthropic" ->
            CASE finish = "max_tokens" -> "length"
              [] finish = "tool_use" -> "tool_calls"
              [] finish = "refusal" -> "content_filter"
              [] OTHER -> "stop"
      [] from = "gemini" ->
            CASE finish = "MAX_TOKENS" -> "length"
              [] finish \in {"SAFETY", "RECITATION", "BLOCKLIST"} -> "content_filter"
              [] finish = "STOP" /\ calls -> "tool_calls"
              [] OTHER -> "stop"

\* A slip: every reason becomes the plain one.
BadFromOpenaiFinish(to, finish) ==
    CASE to = "anthropic" -> "end_turn"
      [] to = "gemini" -> "STOP"
      [] OTHER -> finish

\* stopReasonFromOpenai, finishReasonToGemini.
FromOpenaiFinish(to, finish) ==
    CASE to = "openai" -> finish
      [] to = "anthropic" ->
            CASE finish = "length" -> "max_tokens"
              [] finish = "tool_calls" -> "tool_use"
              [] finish = "content_filter" -> "refusal"
              [] OTHER -> "end_turn"
      [] to = "gemini" ->
            CASE finish = "length" -> "MAX_TOKENS"
              [] finish = "content_filter" -> "SAFETY"
              [] OTHER -> "STOP"

\* fromAnthropicBlocks, fromGeminiParts: text, calls and reasoning, each gathered.
Gathered(parts) == Of(parts, {"text"}) \o Of(parts, {"call"}) \o Of(parts, {"thinking"})
CallsIn(parts) == Of(parts, {"call"})

\* A slip: Gemini's thoughts are taken to be among the candidates' tokens.
BadOpenaiUsageOfGemini(u) ==
    [prompt |-> u.prompt, completion |-> u.candidates, cached |-> u.cached,
     written |-> 0, reasoning |-> u.thoughts]

\* usageFromGemini, usageFromAnthropic: OpenAI counts what was cached as prompt and
\* what was thought as completion.
OpenaiUsageOfGemini(u) ==
    [prompt |-> u.prompt, completion |-> u.candidates + u.thoughts, cached |-> u.cached,
     written |-> 0, reasoning |-> u.thoughts]
OpenaiUsageOfAnthropic(u) ==
    [prompt |-> u.input + u.read + u.written, completion |-> u.output, cached |-> u.read,
     written |-> u.written, reasoning |-> 0]

\* The name the client asked for, whatever the provider calls its model.
Answered(choices, usage) == [choices |-> choices, usage |-> usage, model |-> "requested"]
Chosen(parts, finish) == [parts |-> parts, finish |-> finish]

AnthropicToOpenaiResponse(body) ==
    LET said == body.choices[1]
    IN Answered(<<Chosen(Gathered(said.parts), ToOpenaiFinish("anthropic", said.finish, FALSE))>>,
                OpenaiUsageOfAnthropic(body.usage))

\* A call gets an id at random; a prompt that was blocked has no candidates.
GeminiToOpenaiResponse(body) ==
    LET Identified(parts) ==
            [i \in DOMAIN parts |-> IF parts[i].type = "call" THEN [parts[i] EXCEPT !.id = "random"]
                                    ELSE parts[i]]
        Choice(c) == Chosen(Identified(Gathered(c.parts)),
                            ToOpenaiFinish("gemini", c.finish, CallsIn(c.parts) # <<>>))
    IN Answered(IF body.choices = <<>> THEN <<Chosen(<<>>, "content_filter")>>
                ELSE [i \in DOMAIN body.choices |-> Choice(body.choices[i])],
                OpenaiUsageOfGemini(body.usage))

\* The first choice; reasoning and what was written to the cache have no place.
OpenaiToAnthropicResponse(body) ==
    LET said == body.choices[1]
        u == body.usage
    IN Answered(<<Chosen(Of(said.parts, {"text"}) \o CallsIn(said.parts),
                         FromOpenaiFinish("anthropic", said.finish))>>,
                [input |-> IF u.prompt > u.cached THEN u.prompt - u.cached ELSE 0,
                 read |-> u.cached, written |-> 0, output |-> u.completion])

OpenaiToGeminiResponse(body) ==
    LET u == body.usage
        Unnamed(parts) == [i \in DOMAIN parts |-> IF parts[i].type = "call"
                              THEN [parts[i] EXCEPT !.id = ""] ELSE parts[i]]
        Candidate(c) == Chosen(Unnamed(Of(c.parts, {"text"}) \o CallsIn(c.parts)),
                               FromOpenaiFinish("gemini", c.finish))
    IN Answered([i \in DOMAIN body.choices |-> Candidate(body.choices[i])],
                [prompt |-> u.prompt, cached |-> u.cached, thoughts |-> u.reasoning,
                 candidates |-> IF u.completion > u.reasoning THEN u.completion - u.reasoning
                                ELSE 0])

TransformResponse(from, to, body) ==
    LET canonical == CASE from = "openai" -> Answered(body.choices, body.usage)
                       [] from = "anthropic" -> AnthropicToOpenaiResponse(body)
                       [] from = "gemini" -> GeminiToOpenaiResponse(body)
    IN CASE to = "openai" -> canonical
         [] to = "anthropic" -> OpenaiToAnthropicResponse(canonical)
         [] to = "gemini" -> OpenaiToGeminiResponse(canonical)

----------------------------------------------------------------------------
(* Bodies a client or a provider sends.  A call is made in one turn and    *)
(* answered in a later one.                                                *)

Turn(role, parts) == [role |-> role, parts |-> parts]

OpenaiTurns(n) ==
    {Turn(r, <<Text(n)>>) : r \in {"system", "developer", "user", "assistant", "stranger"}}
    \cup {Turn("user", <<Text(n), Media("image")>>), Turn("user", <<Media("audio")>>),
          Turn("assistant", <<Call("c1", "f")>>), Turn("assistant", <<Text(n), Call("c1", "f")>>)}
    \cup {Turn(r, <<Result("c1", fn)>>) : r \in {"tool", "function"}, fn \in {"", "f"}}

FieldTurns(n, assistant, strangers) ==
    {Turn(r, <<Text(n)>>) : r \in {"user", assistant} \cup strangers}
    \cup {Turn("user", <<Text(n), Media("image")>>),
          Turn("user", <<Text(n), Result("c1", "f")>>), Turn("user", <<Result("c1", "f")>>),
          Turn(assistant, <<Media("thinking"), Call("c1", "f")>>),
          Turn(assistant, <<Call("c1", "f"), Text(n)>>)}

TurnsOf(dialect, n) ==
    CASE dialect = "openai" -> OpenaiTurns(n)
      [] dialect = "anthropic" -> FieldTurns(n, "assistant", {"system"})
      [] dialect = "gemini" -> FieldTurns(n, "model", {"", "system"})

Asks(dialect) ==
    [cap : {0, 1},
     choice : CASE dialect = "openai" -> {"", "auto", "none", "required", "function"}
                [] dialect = "anthropic" -> {"", "auto", "none", "any", "tool"}
                [] dialect = "gemini" -> {"", "AUTO", "NONE", "ANY", "ANY of one"}]

\* A provider counts no more cached tokens than prompt tokens, and no more thoughts
\* than completion tokens, where it counts them together.
Usages(dialect) ==
    CASE dialect = "openai" ->
            {u \in [prompt : {0, 2}, completion : {0, 2}, cached : 0..2, written : {0},
                    reasoning : 0..2] : u.cached <= u.prompt /\ u.reasoning <= u.completion}
      [] dialect = "anthropic" ->
            [input : {0, 1}, read : {0, 2}, written : {0, 3}, output : {0, 1}]
      [] dialect = "gemini" ->
            {u \in [prompt : {0, 2}, cached : 0..2, candidates : {0, 1}, thoughts : {0, 2}] :
                u.cached <= u.prompt}

\* What ends with a call, and what a provider says of it.
Endings(dialect, parts) ==
    LET calls == CallsIn(parts) # <<>>
    IN CASE dialect = "openai" ->
              {"length", "content_filter", IF calls THEN "tool_calls" ELSE "stop"}
         [] dialect = "anthropic" ->
              {"max_tokens", "refusal"}
                \cup (IF calls THEN {"tool_use"} ELSE {"end_turn", "stop_sequence"})
         [] dialect = "gemini" -> {"STOP", "MAX_TOKENS", "SAFETY", "RECITATION", "BLOCKLIST"}

Answers(dialect) ==
    LET c(id) == Call(IF dialect = "gemini" THEN "" ELSE id, "g")
        said == {<<>>, <<Text(1)>>, <<Media("thinking"), Text(1)>>, <<Text(1), c("c2")>>,
                 <<c("c2"), Text(1), c("c3"), Text(2)>>}
        choices == UNION {{Chosen(parts, f) : f \in Endings(dialect, parts)} : parts \in said}
        plain == CHOOSE u \in Usages(dialect) : TRUE
        Sent(cs, u) == [choices |-> cs, usage |-> u, model |-> "mapped"]
        second == CHOOSE x \in choices : x.parts = <<Text(1)>>
    IN {Sent(<<x>>, plain) : x \in choices}
       \cup {Sent(<<second>>, u) : u \in Usages(dialect)}
       \cup (IF dialect = "anthropic" THEN {} ELSE {Sent(<<x, second>>, plain) : x \in choices})
       \cup (IF dialect = "gemini" THEN {Sent(<<>>, plain)} ELSE {})

----------------------------------------------------------------------------
ConversionInit ==
    /\ speaks \in Speaks
    /\ channel \in Speaks
    /\ \E system \in IF speaks = "openai" THEN {<<>>}
                     ELSE {<<>>, <<Text(0)>>, <<Text(0), Text(0)>>} :
          \E asks \in Asks(speaks) :
             request = [system |-> system, turns |-> <<>>, asks |-> asks]
    /\ outbound = NoBody
    /\ answer = NoBody
    /\ returned = NoBody
    /\ stage = "request"

\* The client writes its next turn; what it asks of the model is tried with one.
Compose ==
    /\ stage = "request"
    /\ Len(request.turns) < IF request.asks = NoAsks THEN MaxTurns ELSE 1
    /\ \E turn \in TurnsOf(speaks, Len(request.turns) + 1) :
          request' = [request EXCEPT !.turns = Append(@, turn)]
    /\ UNCHANGED <<speaks, channel, outbound, answer, returned, stage>>

\* normalizeOpenaiRequest and the converters refuse a role they do not know.
SendRequest ==
    /\ stage = "request"
    /\ request.turns # <<>>
    /\ IF RolesKnown(request, speaks)
       THEN /\ stage' = "sent"
            /\ outbound' = TransformRequest(speaks, channel, request)
       ELSE /\ stage' = "refused"
            /\ UNCHANGED outbound
    /\ UNCHANGED <<speaks, channel, request, answer, returned>>

\* Nothing of an answer is converted by what was asked: answers are tried after
\* requests of one turn.
ReturnAnswer ==
    /\ stage = "sent" /\ Len(request.turns) = 1 /\ request.asks = NoAsks
    /\ stage' = "answered"
    /\ \E a \in Answers(channel) :
          /\ answer' = a
          /\ returned' = TransformResponse(channel, speaks, a)
    /\ UNCHANGED <<speaks, channel, request, outbound>>

ConversionNext == Compose \/ SendRequest \/ ReturnAnswer

ConversionSpec == ConversionInit /\ [][ConversionNext]_conversionVars

----------------------------------------------------------------------------
\* All parts a body holds in a role, in order.
Spoken(body, roles) ==
    FlattenSeq([i \in DOMAIN body.turns |->
                    IF body.turns[i].role \in roles THEN body.turns[i].parts ELSE <<>>])
TextsIn(parts) == Of(parts, {"text"})
Instructions(body) == TextsIn(body.system \o Spoken(body, SystemRoles \ {"function"}))
AssistantRoles == {"assistant", "model"}

\* Roles are structure: no conversion moves text into the instructions, out of them,
\* or between the assistant and the others, or changes its order, whatever roles and
\* dialects meet (GW-012).
AuthorityIsKept ==
    stage \in {"sent", "answered"} =>
        /\ Instructions(outbound) = Instructions(request)
        /\ TextsIn(Spoken(outbound, AssistantRoles)) = TextsIn(Spoken(request, AssistantRoles))
        /\ TextsIn(Spoken(outbound, {"user", ""})) = TextsIn(Spoken(request, {"user", ""}))

AllParts(body) == FlattenSeq([i \in DOMAIN body.turns |-> body.turns[i].parts])
Keyed(dialect, part) == IF dialect = "gemini" THEN part.fn ELSE part.id

\* Every call and every result reaches the provider once and in order, and a result
\* that named a call of the request still names it - unless Gemini, which has no call
\* ids, is on one side only.
CallsAreKept ==
    stage \in {"sent", "answered"} =>
        \A type \in {"call", "result"} :
            LET before == Of(AllParts(request), {type})
                after == Of(AllParts(outbound), {type})
            IN /\ Len(after) = Len(before)
               /\ (speaks = "gemini") = (channel = "gemini") =>
                     \A i \in DOMAIN before :
                        Keyed(channel, after[i]) = Keyed(speaks, before[i])

Alternates(body) ==
    \A i \in 1..(Len(body.turns) - 1) : body.turns[i].role # body.turns[i + 1].role

\* What a request asks of the model reaches it, in its dialect's words, and Anthropic
\* gets the cap it insists on - but Gemini's choice of tools is not read.
Meant(dialect, choice) ==
    CASE dialect = "openai" -> choice
      [] dialect = "anthropic" -> CHOOSE c \in {"", "auto", "none", "required", "function"} :
                                     ToolChoiceToAnthropic(c) = choice
      [] dialect = "gemini" -> CHOOSE c \in {"", "auto", "none", "required", "function"} :
                                  ToolMode(c) = choice
AsksAreKept ==
    stage = "sent" =>
        /\ request.asks.cap # 0 => outbound.asks.cap = request.asks.cap
        /\ channel = "anthropic" => outbound.asks.cap # 0
        /\ speaks # "gemini" =>
             Meant(channel, outbound.asks.choice) = Meant(speaks, request.asks.choice)

\* Tokens a dialect's counts stand for, and those of them that were read from a cache.
TokensOf(dialect, u) ==
    CASE dialect = "openai" -> <<u.prompt + u.completion, u.cached>>
      [] dialect = "anthropic" -> <<u.input + u.read + u.written + u.output, u.read>>
      [] dialect = "gemini" -> <<u.prompt + u.candidates + u.thoughts, u.cached>>

\* Why a choice ended.
Ending(dialect, c) == ToOpenaiFinish(dialect, c.finish, CallsIn(c.parts) # <<>>)
Functions(parts) == [i \in DOMAIN CallsIn(parts) |-> CallsIn(parts)[i].fn]
CallIds(parts) == [i \in DOMAIN CallsIn(parts) |-> CallsIn(parts)[i].id]

\* An answer keeps its text, its calls, the reason it ended and its tokens in every
\* dialect, a prompt that was blocked is told as filtered, and no provider's name for
\* the model shows (GW-013).  Anthropic has room for one choice.
AnswerIsKept ==
    stage = "answered" =>
        /\ returned.model = "requested"
        /\ TokensOf(speaks, returned.usage) = TokensOf(channel, answer.usage)
        /\ answer.choices = <<>> =>
             ToOpenaiFinish(speaks, returned.choices[1].finish, FALSE) = "content_filter"
        /\ answer.choices # <<>> /\ speaks # "anthropic" =>
             Len(returned.choices) = Len(answer.choices)
        /\ \A i \in DOMAIN answer.choices \cap DOMAIN returned.choices :
             LET before == answer.choices[i]
                 after == returned.choices[i]
             IN /\ TextsIn(after.parts) = TextsIn(before.parts)
                /\ Functions(after.parts) = Functions(before.parts)
                /\ "gemini" \notin {speaks, channel} => CallIds(after.parts) = CallIds(before.parts)
                /\ Ending(speaks, after) = Ending(channel, before)

\* The four together; Anthropic and Gemini get turns that alternate.
ConversionIsFaithful ==
    /\ AuthorityIsKept
    /\ CallsAreKept
    /\ AsksAreKept
    /\ AnswerIsKept
    /\ (stage = "sent" /\ channel # "openai") => Alternates(outbound)

\* lib/transform/index.ts:228: "Same-dialect pairs are returned unchanged."
\* It does not hold: see the README, section 6.
SameDialectUnchanged ==
    (stage = "sent" /\ speaks = channel) => outbound = request
=============================================================================
