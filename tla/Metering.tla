------------------------------ MODULE Metering ------------------------------
(***************************************************************************)
(* From what a provider reports to what a request costs: usage/measure.ts, *)
(* usage/billing.ts, the catalogue of pricing/index.ts and the usage half  *)
(* of the stream translators.  One answer is followed from the tokens it   *)
(* really spent to its charge, buffered or streamed.                       *)
(* Prices are fractions: a ratio is counted in 1/20ths, the price of a     *)
(* token and the ratio of a group in thousandths and halves.               *)
(***************************************************************************)
EXTENDS Integers, SequencesExt

CONSTANT MaxSpent  \* bound: tokens of each kind an answer spends

VARIABLES
    model,     \* the name asked for, as the pieces a prefix is matched on
    group,     \* the ratio of the caller's group, in halves
    spent,     \* the tokens the provider counted, by kind
    streamed,  \* whether the answer goes through a stream translator
    usage,     \* the provider's usage object, then the normalised record
    charge,    \* the QuotaBreakdown
    metering   \* "reported", "translated", "normalised" or "charged"

meteringVars == <<model, group, spent, streamed, usage, charge, metering>>

NoCharge == [none |-> TRUE]
Total(r, kinds) == SumFunctionOnSet(r, kinds)

----------------------------------------------------------------------------
(* The catalogue *)

Families == {<<"gpt-4">>, <<"gpt-4", "o">>, <<"gpt-4", "o", "-mini">>,
             <<"claude">>, <<"text-embedding">>}
Models == Families \cup {<<"gpt-4", "o", "-2024-08-06">>, <<"gpt-4", "-0613">>,
                         <<"in-house">>}
IsClaude(name) == Head(name) = "claude"

\* Quota per 1000 prompt tokens, the completion ratio, and the audio prices.
Card(in, out, audioIn, audioOut) ==
    [model |-> in, completion |-> out, audioIn |-> audioIn, audioOut |-> audioOut]
Catalog == [f \in Families |->
    CASE f = <<"gpt-4">>                -> Card(15000, 2, 0, 0)
      [] f = <<"gpt-4", "o">>           -> Card(1250, 4, 20000, 40000)
      [] f = <<"gpt-4", "o", "-mini">>  -> Card(75, 4, 5000, 10000)
      [] f = <<"claude">>               -> Card(1500, 5, 0, 0)
      [] f = <<"text-embedding">>       -> Card(10, 0, 0, 0)]
FallbackCard == Card(1250, 4, 0, 0)

\* The longest family that starts the name; an unknown model is not free.
CardFor(name) ==
    LET found == {f \in Families : IsPrefix(f, name)}
    IN  IF found = {} THEN FallbackCard
        ELSE Catalog[CHOOSE f \in found : \A g \in found : Len(g) <= Len(f)]

\* The cache discount in 1/20ths, gpt-4o before gpt-4.
CacheReadRatioFor(name) ==
    IF IsPrefix(<<"gpt-4", "o">>, name) THEN 10
    ELSE IF IsPrefix(<<"gpt-4">>, name) THEN 5
    ELSE IF IsClaude(name) THEN 2 ELSE 5
UsageSemanticFor(name) == IF IsClaude(name) THEN "exclusive" ELSE "inclusive"

DefaultPricingFor(name) ==
    [card |-> CardFor(name), cached |-> CacheReadRatioFor(name),
     write5m |-> 25, write1h |-> 40, image |-> 20]

----------------------------------------------------------------------------
(* What providers report *)

PromptKinds == {"fresh", "read", "write5m", "write1h", "image", "audioIn"}
AnswerKinds == {"text", "thought", "audioOut"}
UsageKinds == PromptKinds \cup AnswerKinds

KindsOf(shape) ==
    CASE shape = "openai"    -> {"fresh", "read", "image", "audioIn", "text", "thought", "audioOut"}
      [] shape = "anthropic" -> {"fresh", "read", "write5m", "write1h", "text"}
      [] shape = "gemini"    -> {"fresh", "read", "text", "thought"}
      [] shape = "other"     -> {"fresh", "read", "text"}

\* OpenAI and Gemini count cached tokens in the prompt, Anthropic does not;
\* Gemini counts thoughts outside the answer; the oldest Anthropic answers
\* have cache writes in one figure.
Reported(shape, s, itemised) ==
    CASE shape = "openai" ->
           [shape |-> shape, prompt |-> s.fresh + s.read + s.image + s.audioIn,
            cached |-> s.read, image |-> s.image, audioIn |-> s.audioIn,
            completion |-> s.text + s.thought + s.audioOut,
            thought |-> s.thought, audioOut |-> s.audioOut]
      [] shape = "anthropic" ->
           [shape |-> shape, input |-> s.fresh, cached |-> s.read,
            write5m |-> IF itemised THEN s.write5m ELSE 0,
            write1h |-> IF itemised THEN s.write1h ELSE 0,
            creation |-> s.write5m + s.write1h, output |-> s.text]
      [] shape = "gemini" ->
           [shape |-> shape, prompt |-> s.fresh + s.read, cached |-> s.read,
            thought |-> s.thought, candidates |-> s.text]
      [] shape = "other" ->
           [shape |-> shape, cached |-> s.read, completion |-> s.text,
            prompt |-> IF IsClaude(model) THEN s.fresh ELSE s.fresh + s.read]

----------------------------------------------------------------------------
(* The stream translators' usage(), always in OpenAI's shape *)

OpenAiUsage(prompt, cached, completion, thought) ==
    [shape |-> "openai", prompt |-> prompt, cached |-> cached, image |-> 0,
     audioIn |-> 0, completion |-> completion, thought |-> thought, audioOut |-> 0]

UsageFromOpenai(r) == OpenAiUsage(r.prompt, r.cached, r.completion, r.thought)
UsageFromAnthropic(r) ==
    OpenAiUsage(r.input + r.cached + r.creation, r.cached, r.output, 0)
UsageFromGemini(r) ==
    OpenAiUsage(r.prompt, r.cached, r.candidates + r.thought, r.thought)

TranslateUsage ==
    /\ metering = "reported" /\ streamed
    /\ metering' = "translated"
    /\ usage' = CASE usage.shape = "openai"    -> UsageFromOpenai(usage)
                  [] usage.shape = "anthropic" -> UsageFromAnthropic(usage)
                  [] usage.shape = "gemini"    -> UsageFromGemini(usage)
    /\ UNCHANGED <<model, group, spent, streamed, charge>>

----------------------------------------------------------------------------
(* normalizeUsage *)

Normal(prompt, completion, cached) ==
    [prompt |-> prompt, completion |-> completion, cached |-> cached,
     write5m |-> 0, write1h |-> 0, image |-> 0, audioIn |-> 0, audioOut |-> 0]

FromOpenAi(r) ==
    [Normal(r.prompt, r.completion, r.cached) EXCEPT
        !.image = r.image, !.audioIn = r.audioIn, !.audioOut = r.audioOut]

\* A slip: an exclusive provider's prompt is taken as it is.
BadFromAnthropic(r) == [Normal(r.input, r.output, r.cached)
                          EXCEPT !.write5m = r.write5m, !.write1h = r.write1h]

\* Cache reads and writes are added back: the canonical prompt is inclusive.
FromAnthropic(r) ==
    LET write5m == IF r.write5m + r.write1h > 0 THEN r.write5m ELSE r.creation
    IN  [Normal(r.input + r.cached + write5m + r.write1h, r.output, r.cached)
            EXCEPT !.write5m = write5m, !.write1h = r.write1h]

FromGemini(r) == Normal(r.prompt, r.candidates + r.thought, r.cached)

\* An unknown shape is read by what the model's family is known to report.
FromUnknown(r, semantic) ==
    Normal(IF semantic = "exclusive" THEN r.prompt + r.cached ELSE r.prompt,
           r.completion, r.cached)

Normalize ==
    /\ \/ metering = "translated"
       \/ metering = "reported" /\ ~streamed
    /\ metering' = "normalised"
    /\ usage' = CASE usage.shape = "openai"    -> FromOpenAi(usage)
                  [] usage.shape = "anthropic" -> FromAnthropic(usage)
                  [] usage.shape = "gemini"    -> FromGemini(usage)
                  [] usage.shape = "other"     -> FromUnknown(usage, UsageSemanticFor(model))
    /\ UNCHANGED <<model, group, spent, streamed, charge>>

----------------------------------------------------------------------------
(* computeQuota; every amount is in 1/40000ths of a quota *)

Whole == 20 * 1000 * 2
GroupRatio == IF group = 0 THEN 2 ELSE group   \* clampNonNegative(ratio) || 1

ComputeQuota(u, p) ==
    LET taken == u.cached + u.write5m + u.write1h + u.image + u.audioIn
        base  == IF u.prompt > taken THEN u.prompt - taken ELSE 0
        units == 20 * base + p.cached * u.cached + p.write5m * u.write5m
                   + p.write1h * u.write1h + p.image * u.image
                   + 20 * p.card.completion * u.completion
        audio == 20 * (p.card.audioIn * u.audioIn + p.card.audioOut * u.audioOut)
        total == (units * p.card.model + audio) * GroupRatio
        near  == (2 * total + Whole) \div (2 * Whole)
    IN  [base |-> base, total |-> total,
         quota |-> IF near < 1 /\ total > 0 THEN 1 ELSE near]

Charge ==
    /\ metering = "normalised"
    /\ metering' = "charged"
    /\ charge' = ComputeQuota(usage, DefaultPricingFor(model))
    /\ UNCHANGED <<model, group, spent, streamed, usage>>

MeteringInit ==
    /\ model \in Models /\ group \in 0..2
    /\ \E shape \in {"openai", "anthropic", "gemini", "other"}, itemised \in BOOLEAN :
         \E counts \in [KindsOf(shape) -> 0..MaxSpent] :
            /\ shape = "anthropic" \/ ~itemised
            /\ spent = [k \in UsageKinds |-> IF k \in KindsOf(shape) THEN counts[k] ELSE 0]
            /\ ~itemised => spent.write1h = 0
            /\ streamed \in IF shape = "other" THEN {FALSE} ELSE BOOLEAN
            /\ usage = Reported(shape, spent, itemised)
    /\ charge = NoCharge /\ metering = "reported"

MeteringNext == TranslateUsage \/ Normalize \/ Charge
MeteringSpec == MeteringInit /\ [][MeteringNext]_meteringVars

----------------------------------------------------------------------------
(* Properties *)

\* What a breakdown charged for, kind by kind.
Priced == [fresh |-> charge.base, read |-> usage.cached, write5m |-> usage.write5m,
           write1h |-> usage.write1h, image |-> usage.image, audioIn |-> usage.audioIn]

\* No token is dropped and none is paid for twice, in whatever shape and on
\* whatever path it was reported.
EveryTokenIsPriced ==
    metering = "charged" =>
        /\ Total(Priced, PromptKinds) = Total(spent, PromptKinds)
        /\ usage.completion = Total(spent, AnswerKinds)

\* A buffered answer pays each kind of prompt token at that kind's rate.
BufferedKindsArePriced ==
    metering = "charged" /\ ~streamed => \A k \in PromptKinds : Priced[k] = spent[k]

\* The integer charged is the price to the nearest quota, and tokens a model
\* has a price for (most have none for audio) are never free: a dated or unknown model, a model of
\* fractions of a quota per token and a group with no ratio included.
ChargeFollowsPrice ==
    metering = "charged" =>
        /\ \/ 2 * (charge.quota * Whole - charge.total) \in (-Whole + 1)..Whole
           \/ charge.quota = 1 /\ charge.total \in 1..Whole
        /\ Total(spent, PromptKinds \ {"audioIn"}) > 0 => charge.quota >= 1

\* usage/measure.ts and usage/billing.ts: the three ways of counting end in
\* one formula that counts every token once, at its rate.
MeteringIsExact == EveryTokenIsPriced /\ BufferedKindsArePriced /\ ChargeFollowsPrice

\* usage/billing.ts: "A priced model must never settle to nothing."  Audio is
\* taken out of the prompt and priced apart, at 0 for most of the catalogue.
\* It does not hold: see the README, section 6.
PricedModelsAreNeverFree ==
    metering = "charged" /\ Total(spent, PromptKinds) > 0 => charge.quota >= 1

\* docs/AUDIT.md: "Cache-read, cache-write, and reasoning tokens bill at their
\* own rates."  A stream's usage loses what was written to the cache.
\* It does not hold: see the README, section 6.
CacheWritesBillAtTheirRate ==
    metering = "charged" => Priced.write5m + Priced.write1h = spent.write5m + spent.write1h
=============================================================================
