--------------------------- MODULE ProviderRequest ---------------------------
(***************************************************************************)
(* What leaves the gateway for a provider and what comes back: the         *)
(* address, the credential, the headers and the flag that asks for a       *)
(* stream (lib/transform/index.ts, lib/http/headers.ts, relay/entry.ts and *)
(* the attempts of relay/pipeline.ts and relay/passthrough.ts).            *)
(*                                                                         *)
(* A header is its name and who its value is from; a body is the dialect   *)
(* it is written in and its flags.  What the dialects say otherwise is     *)
(* DialectConversion's.                                                    *)
(***************************************************************************)
EXTENDS FiniteSets, Sequences

CONSTANTS
    Unsent,           \* a model value: no request, no answer yet
    ClientHeaders,    \* names of headers a client sends,
    OperatorHeaders,  \* names an operator tries to give a channel,
    ProviderHeaders,  \* and names a provider answers with
    Calls             \* the calls to be made: bound, any of ClientCalls

VARIABLES
    errand,    \* "call" or "answer": which half this behaviour is about
    material,  \* the client's request and the channel, or the provider's headers
    sent       \* what left the gateway, towards the provider or the client

requestVars == <<errand, material, sent>>

-----------------------------------------------------------------------------
(* Channels *)

\* "deepseek" stands for the other vendors with an OpenAI surface.
OpenaiLike == {"openai", "azure", "deepseek"}
TaskOnly == {"suno", "kling", "jimeng", "vidu", "dify", "video"}

DialectFor(type) ==
    CASE type = "anthropic" -> "anthropic"
      [] type \in {"gemini", "vertex"} -> "gemini"
      [] type \in OpenaiLike -> "openai"
      [] OTHER -> Unsent                   \* thrown: no chat dialect

\* azureSuffix: what Azure has no path for is a chat completion.
AzureSuffix(endpoint) ==
    IF endpoint \in {"embeddings", "completions", "images.generations",
                     "audio.speech", "audio.transcriptions"}
      THEN endpoint ELSE "chat"

\* openaiSuffix
OpenaiSuffix(endpoint) == IF endpoint = "countTokens" THEN "chat" ELSE endpoint

\* The method of a Gemini path.
GeminiMethod(endpoint, stream) ==
    CASE endpoint = "embeddings" -> "embedContent"
      [] endpoint = "countTokens" -> "countTokens"
      [] endpoint \notin {"embeddings", "countTokens"} /\ stream -> "streamGenerateContent"
      [] OTHER -> "generateContent"

\* upstreamUrlFor: whose surface the address is on, what it asks for, and the
\* model or the deployment it names.
UpstreamUrlFor(channel, endpoint, stream) ==
    LET type == channel.type
        Url(surface, asks, names) == [surface |-> surface, asks |-> asks, names |-> names]
    IN  CASE type = "azure" ->
               Url("azure", AzureSuffix(endpoint),
                   IF channel.deployed THEN "deployment" ELSE "mapped")
          [] DialectFor(type) = "gemini" ->
               IF endpoint = "models" THEN Url("gemini", "models", "")
               ELSE Url("gemini", GeminiMethod(endpoint, stream), "mapped")
          [] DialectFor(type) = "anthropic" ->
               Url("anthropic", IF endpoint \in {"countTokens", "models"} THEN endpoint
                                ELSE "messages", "")
          [] OTHER -> Url("openai", OpenaiSuffix(endpoint), "")

\* providerAuthHeaders
ProviderAuthHeaders(type) ==
    CASE type = "midjourney" -> [n \in {"mj-api-secret"} |-> "secret"]
      [] DialectFor(type) = "anthropic" ->
           [n \in {"x-api-key", "anthropic-version"} |->
              IF n = "x-api-key" THEN "secret" ELSE "gateway"]
      [] DialectFor(type) = "gemini" -> [n \in {"x-goog-api-key"} |-> "secret"]
      [] type = "azure" -> [n \in {"api-key"} |-> "secret"]
      [] OTHER -> [n \in {"authorization"} |-> "secret"]

-----------------------------------------------------------------------------
(* Headers *)

HopByHop ==
    {"connection", "keep-alive", "proxy-authenticate", "proxy-authorization",
     "proxy-connection", "te", "trailer", "transfer-encoding", "upgrade"}
Credentials == {"authorization", "x-api-key", "api-key", "x-goog-api-key",
                "mj-api-secret", "cookie"}
\* What the platform and the gateway say of a request.
Platform ==
    {"host", "content-length", "x-admin-token", "x-cron-secret", "x-vercel-id",
     "x-vercel-signature", "x-vercel-deployment-url", "x-forwarded-for", "x-forwarded-host",
     "x-forwarded-proto", "x-real-ip", "forwarded", "cf-connecting-ip", "true-client-ip",
     "x-fbapi-user", "x-fbapi-token", "x-fbapi-channel"}

NeverForwardUpstream == HopByHop \cup Credentials \cup Platform

DefaultForwardList ==
    {"accept", "accept-language", "anthropic-beta", "anthropic-version", "openai-beta",
     "x-stainless-lang", "x-stainless-package-version", "x-stainless-os",
     "x-stainless-arch", "x-stainless-runtime", "x-stainless-runtime-version"}

\* asHeaders of the console: a channel's own headers are any but credentials.
ChannelMayHave == OperatorHeaders \ (Credentials \cup {"set-cookie", "proxy-authorization"})

\* A slip: the channel's headers are set after the credential.
BadUpstreamHeaders(client, channel, auth, contentType) ==
    LET chosen == channel \ NeverForwardUpstream
    IN  [n \in {"content-type", "user-agent", "accept"} \cup DOMAIN auth \cup chosen |->
           IF n = "content-type" THEN contentType
           ELSE IF n = "user-agent" THEN "gateway"
           ELSE IF n \in chosen THEN "channel"
           ELSE IF n \in DOMAIN auth THEN auth[n]
           ELSE "application/json"]

\* buildUpstreamHeaders: which headers are sent, and whose value wins: the
\* gateway's, the credential, the channel's, the client's.  client says whether
\* each header the client sent is fit to send: a value that could split a header
\* is dropped.
UpstreamHeaders(client, channel, auth, contentType) ==
    LET passed == ({n \in DOMAIN client : client[n]} \cap DefaultForwardList)
                    \ NeverForwardUpstream
        chosen == channel \ NeverForwardUpstream
    IN  [n \in {"content-type", "user-agent", "accept"} \cup DOMAIN auth \cup chosen \cup passed |->
           IF n = "content-type" THEN contentType
           ELSE IF n = "user-agent" THEN "gateway"
           ELSE IF n \in DOMAIN auth THEN auth[n]
           ELSE IF n \in chosen THEN "channel"
           ELSE IF n \in passed THEN "client"
           ELSE "application/json"]

NeverForwardDownstream ==
    HopByHop \cup
    {"content-encoding", "content-length", "set-cookie", "authorization", "x-api-key",
     "openai-organization", "openai-project", "x-organization", "x-request-id", "cf-ray",
     "cf-cache-status", "server", "via", "x-envoy-upstream-service-time",
     "x-amzn-requestid", "x-amz-request-id", "x-goog-quota-user", "x-served-by"}
PassthroughDownstream ==
    {"content-type", "retry-after", "x-ratelimit-limit-requests",
     "x-ratelimit-limit-tokens", "x-ratelimit-remaining-requests",
     "x-ratelimit-remaining-tokens", "x-ratelimit-reset-requests",
     "x-ratelimit-reset-tokens", "anthropic-ratelimit-requests-limit",
     "anthropic-ratelimit-requests-remaining", "anthropic-ratelimit-tokens-limit",
     "anthropic-ratelimit-tokens-remaining"}

\* filterDownstreamHeaders, and the request id the gateway adds.
DownstreamHeaders(upstream) ==
    LET passed == ({n \in DOMAIN upstream : upstream[n]} \cap PassthroughDownstream)
                    \ NeverForwardDownstream
    IN  [n \in {"x-request-id"} \cup passed |->
           IF n = "x-request-id" THEN "gateway" ELSE "provider"]

-----------------------------------------------------------------------------
(* Requests *)

Dialects == {"openai", "anthropic", "gemini"}

\* The parse of the Gemini route: what the method in the path asks for.
GeminiRoute(method) ==
    [client |-> "gemini",
     endpoint |-> CASE method = "countTokens" -> "countTokens"
                    [] method = "embedContent" -> "embeddings"
                    [] OTHER -> "chat",
     stream |-> method = "streamGenerateContent",
     relayed |-> TRUE]

\* What the routes take: a stream is asked for in the body, or in a Gemini path.
Routes ==
    {[client |-> "openai", endpoint |-> e, stream |-> s, relayed |-> TRUE] :
       e \in {"chat", "completions", "embeddings", "moderations", "rerank"}, s \in BOOLEAN}
    \cup {[client |-> "anthropic", endpoint |-> e, stream |-> s, relayed |-> TRUE] :
            e \in {"chat", "countTokens"}, s \in BOOLEAN}
    \cup {GeminiRoute(m) :
            m \in {"generateContent", "streamGenerateContent", "countTokens", "embedContent"}}
    \cup {[client |-> "openai", endpoint |-> e, stream |-> FALSE, relayed |-> FALSE] :
            e \in {"images.edits", "audio.speech", "audio.transcriptions"}}

\* A slip: the usage frame is asked for when the client did not, and only then.
BadNormalizeFor(route, asksUsage) ==
    [in |-> route.client,
     stream |-> route.client # "gemini" /\ route.stream,
     usage |-> ~asksUsage /\ route.stream]

\* normalizeFor: the flags of the body that is relayed.  A stream in OpenAI's
\* dialect always asks for its usage.
NormalizeFor(route, asksUsage) ==
    [in |-> route.client,
     stream |-> route.client # "gemini" /\ route.stream,
     usage |-> asksUsage \/ (route.client = "openai" /\ route.stream)]

\* transformRequest: the flag for a stream is copied between the dialects that
\* have one; only OpenAI's own has one for the usage.
TransformRequest(body, to) ==
    [in |-> to,
     stream |-> to # "gemini" /\ body.stream,
     usage |-> to = "openai" /\ body.in = "openai" /\ body.usage]

\* A relayed call: pipeline.ts 255-285.
RelayedCall(m) ==
    LET wire    == DialectFor(m.channel.type)
        headers == UpstreamHeaders(m.client, m.channel.headers,
                                   ProviderAuthHeaders(m.channel.type), "application/json")
    IN  [url |-> UpstreamUrlFor(m.channel, m.route.endpoint, m.route.stream),
         headers |-> IF m.route.stream
                       THEN [headers EXCEPT !["accept"] = "text/event-stream"] ELSE headers,
         body |-> TransformRequest(NormalizeFor(m.route, m.asksUsage), wire)]

\* A call passed through verbatim: passthrough.ts 155-182.
VerbatimCall(m) ==
    [url |-> UpstreamUrlFor(m.channel, m.route.endpoint, FALSE),
     headers |-> UpstreamHeaders(m.client, m.channel.headers,
                                 ProviderAuthHeaders(m.channel.type), "the client's"),
     body |-> [in |-> "openai", stream |-> FALSE, usage |-> FALSE]]

\* What the provider makes of it: Gemini streams by the method in the path, the
\* others by the flag in the body.
ProviderStreams(call) ==
    \/ call.url.surface = "gemini" /\ call.url.asks = "streamGenerateContent"
    \/ call.url.surface # "gemini" /\ call.body.stream

-----------------------------------------------------------------------------
Types == {"anthropic", "gemini", "openai", "azure"}

\* Headers by name, and whether the value of each is fit to be sent on.
Sendings(names) == UNION {[some -> BOOLEAN] : some \in SUBSET names}

\* A client's request, and the channel it was given.
ClientCalls ==
    [route : Routes, asksUsage : BOOLEAN, client : Sendings(ClientHeaders),
     channel : [type : Types, deployed : BOOLEAN, headers : SUBSET ChannelMayHave]]

ASSUME RequestAssumption == Calls \subseteq ClientCalls

RequestInit ==
    /\ errand \in {"call", "answer"}
    /\ material \in IF errand = "call" THEN Calls ELSE Sendings(ProviderHeaders)
    /\ sent = Unsent

CallProvider ==
    /\ errand = "call"
    /\ sent' = IF material.route.relayed THEN RelayedCall(material) ELSE VerbatimCall(material)

AnswerClient ==
    /\ errand = "answer"
    /\ sent' = DownstreamHeaders(material)

RequestNext ==
    /\ sent = Unsent
    /\ CallProvider \/ AnswerClient
    /\ UNCHANGED <<errand, material>>

RequestSpec == RequestInit /\ [][RequestNext]_requestVars

-----------------------------------------------------------------------------
(* Properties *)

Called == errand = "call" /\ sent # Unsent
Streamed == material.route.stream

\* buildUpstreamHeaders and providerAuthHeaders: the provider is sent the
\* elected channel's credential, in the header its surface reads, and no other;
\* the version of Anthropic's dialect is the one the gateway writes; nothing is
\* the client's that the client may not choose.
CredentialIsTheChannels ==
    Called =>
        LET h == sent.headers
            reads == CASE sent.url.surface = "anthropic" -> "x-api-key"
                       [] sent.url.surface = "gemini" -> "x-goog-api-key"
                       [] sent.url.surface = "azure" -> "api-key"
                       [] OTHER -> "authorization"
        IN  /\ h[reads] = "secret"
            /\ {n \in DOMAIN h : h[n] = "secret"} = DOMAIN h \cap Credentials
            /\ sent.url.surface = "anthropic" => h["anthropic-version"] = "gateway"
            /\ {n \in DOMAIN h : h[n] = "client"} \subseteq DefaultForwardList
            /\ DOMAIN h \cap (HopByHop \cup Platform) = {}

\* upstreamUrlFor and transformRequest: a chat is sent to the chat path of the
\* dialect its body is written in, with its model where that surface reads it;
\* a stream is asked of the transport when it is asked of the provider, only
\* when the client asked, and with its usage where an OpenAI client streams
\* from an OpenAI surface (docs/PROVIDER-QUIRKS.md).
CallsFit ==
    Called /\ material.route.relayed /\ material.route.endpoint = "chat" =>
        LET u == sent.url IN
        /\ u.surface = sent.body.in \/ (u.surface = "azure" /\ sent.body.in = "openai")
        /\ u.asks \in {"chat", "messages", "generateContent", "streamGenerateContent"}
        /\ ProviderStreams(sent) =>
             Streamed /\ sent.headers["accept"] = "text/event-stream"
        /\ Streamed /\ material.route.client # "gemini" => ProviderStreams(sent)
        /\ Streamed /\ material.route.client = "openai" /\ sent.body.in = "openai" =>
             sent.body.usage

\* filterDownstreamHeaders: the client never takes the provider's framing,
\* account or cookies for the gateway's, and its request id is the gateway's.
AnswersAreOurs ==
    errand = "answer" /\ sent # Unsent =>
        /\ sent["x-request-id"] = "gateway"
        /\ {n \in DOMAIN sent : sent[n] = "provider"} \subseteq PassthroughDownstream
        /\ "retry-after" \in DOMAIN material /\ material["retry-after"] =>
             "retry-after" \in DOMAIN sent

ForwardingIsSound == CredentialIsTheChannels /\ CallsFit /\ AnswersAreOurs

\* README.md: "a GPT model through the Gemini SDK. The gateway rewrites requests
\* and responses - including streaming frames - between dialects".  A provider
\* streams what the client asked to be streamed.  It does not: see the README.
StreamsAreAsked ==
    Called /\ material.route.relayed /\ material.route.endpoint = "chat" =>
        (Streamed => ProviderStreams(sent))
=============================================================================
