----------------------------- MODULE RequestEdge -----------------------------
(***************************************************************************)
(* The edge of the gateway: whose request it is (src/lib/http/headers.ts,  *)
(* auth/extract.ts), whether the address is one a rule names               *)
(* (auth/cidr.ts), and what the caller is told when it fails               *)
(* (http/errors.ts, http/respond.ts, relay/entry.ts).                      *)
(*                                                                         *)
(* Addresses are scaled: a byte has ByteBits bits, an IPv4 address two     *)
(* bytes, an IPv6 address four groups of one byte, and <<0, 3>> stands for *)
(* the prefix ::ffff: of a mapped address.                                 *)
(***************************************************************************)
EXTENDS Naturals, Sequences, FiniteSets

CONSTANTS
    MaxProxies,    \* bound: proxies in front of the gateway
    MaxPrepended,  \* bound: entries the caller puts into x-forwarded-for itself
    Texts,         \* the texts rules and callers give as addresses
    UpstreamStatuses,  \* the statuses a provider answers with
    Unknown        \* a model value: no address, no credential, no status

VARIABLES
    task,     \* "address", "credential", "rule" or "failure"
    subject,  \* what is looked at
    outcome   \* what the gateway made of it, or Unknown

edgeVars == <<task, subject, outcome>>

-----------------------------------------------------------------------------
(* The caller's address. *)

\* An entry of x-forwarded-for names a machine or is no address at all.
Machines == {"caller", "proxy", "elsewhere"}
Noise == "noise"

\* normalizeIp: what is no address becomes the empty string.
NormalizeIp(entry) == IF entry = Noise THEN "" ELSE entry

\* Every proxy appends who called it: the first one the caller.
Forwarded(prepended, proxies) ==
    prepended \o [i \in 1..proxies |-> IF i = 1 THEN "caller" ELSE "proxy"]

\* The entries that are addresses, by their places.
Parts(xff) == {i \in DOMAIN xff : NormalizeIp(xff[i]) # ""}

\* A slip: the entries are counted from the left.
BadGetClientIp(xff, trustedHops) ==
    IF Parts(xff) = {} THEN Unknown
    ELSE xff[CHOOSE i \in Parts(xff) : \A j \in Parts(xff) : i <= j]

\* getClientIp: the n-th address from the right, where n proxies are trusted,
\* or the first where there are fewer.
GetClientIp(xff, trustedHops) ==
    LET parts == Parts(xff)
        Right(i) == Cardinality({j \in parts : j >= i})
        back  == IF trustedHops > 1 THEN trustedHops ELSE 1
        index == IF Cardinality(parts) > back THEN back ELSE Cardinality(parts)
    IN  IF parts = {} THEN Unknown
        ELSE xff[CHOOSE i \in parts : Right(i) = index]

-----------------------------------------------------------------------------
(* The caller's credential. *)

\* The places a key may be in, in the order they are looked at.
Places == <<"authorization", "x-api-key", "api-key", "x-goog-api-key",
            "mj-api-secret", "websocket", "query">>

\* What a place may hold: nothing, a key, or text that clean() drops because
\* it is too long (a subprotocol list may also hold no key).
Holdings == {"nothing", "key", "dropped"}

First(places) == CHOOSE i \in places : \A j \in places : i <= j

\* extractCredential: the first place that holds a key.
ExtractCredential(held) ==
    LET full == {i \in DOMAIN Places : held[Places[i]] = "key"}
    IN  IF full = {} THEN "none" ELSE Places[First(full)]

\* realtimeAcceptProtocol: the first subprotocol that is not the key.
RealtimeAcceptProtocol(offered) ==
    LET plain == {i \in DOMAIN offered : offered[i] # "key"}
    IN  IF plain = {} THEN Unknown ELSE offered[First(plain)]

-----------------------------------------------------------------------------
(* Addresses and rules. *)

ByteBits == 2
Byte == 0..3
Power(n) == IF n = 0 THEN 1 ELSE IF n = 1 THEN 2 ELSE 4    \* 2^n
Bit(byte, i) == (byte \div Power(ByteBits - i)) % 2        \* bit 1 is the highest

\* One side of a "::", or all of a text that has none: its groups of one byte,
\* and its dotted IPv4 part, which may be too early.
Sides == [groups : Seq(Byte), dotted : {<<>>} \cup (Byte \X Byte), early : BOOLEAN]
AddressTexts == [v4 : {<<>>} \cup (Byte \X Byte), head : Sides, tail : Sides, compressed : BOOLEAN]

\* emitGroups: the bytes of a side, or Unknown where the dotted part is not the
\* last or they do not fit.
EmitGroups(side) ==
    LET bytes == side.groups \o side.dotted
    IN  IF side.early \/ Len(bytes) > 4 THEN Unknown ELSE bytes

\* parseIpv6: groups, and a "::" that stands for at least one zero group.
ParseIpv6(text) ==
    LET head == EmitGroups(text.head)
        tail == EmitGroups(text.tail)
    IN  IF head = Unknown \/ tail = Unknown THEN Unknown
        ELSE IF ~text.compressed
          THEN IF Len(head) = 4 /\ tail = <<>> THEN head ELSE Unknown
        ELSE IF Len(head) + Len(tail) > 3 THEN Unknown
        ELSE head \o [i \in 1..(4 - Len(head) - Len(tail)) |-> 0] \o tail

\* A slip: a mapped address stays an IPv6 address.
BadIpToBytes(text) == IF text.v4 # <<>> THEN text.v4 ELSE ParseIpv6(text)

\* ipToBytes: an IPv4-mapped address becomes its IPv4 form.
IpToBytes(text) ==
    IF text.v4 # <<>> THEN text.v4
    ELSE LET v6 == ParseIpv6(text)
         IN  IF v6 # Unknown /\ v6[1] = 0 /\ v6[2] = 3 THEN <<v6[3], v6[4]>> ELSE v6

\* parseCidr: a rule must be an address with no more bits than it has.
ParseCidr(rule) ==
    LET bytes == IpToBytes(rule.text)
    IN  IF bytes = Unknown \/ rule.bits > ByteBits * Len(bytes)
          THEN Unknown ELSE [bytes |-> bytes, bits |-> rule.bits]

\* cidrContains: whole bytes first, then the bits that remain under a mask.
CidrContains(rule, text) ==
    LET cidr == ParseCidr(rule)
        target == IpToBytes(text)
        fullBytes == cidr.bits \div ByteBits
        remaining == cidr.bits % ByteBits
        Masked(byte) == byte \div Power(ByteBits - remaining)
    IN  /\ cidr # Unknown /\ target # Unknown
        /\ Len(target) = Len(cidr.bytes)
        /\ \A i \in 1..fullBytes : target[i] = cidr.bytes[i]
        /\ remaining = 0
             \/ Masked(target[fullBytes + 1]) = Masked(cidr.bytes[fullBytes + 1])

\* matchesAnyCidr: no rule matches nothing.
MatchesAnyCidr(rules, text) == \E rule \in rules : CidrContains(rule, text)

-----------------------------------------------------------------------------
(* What the caller is told. *)

\* What can go wrong: the upstream answers with a status, or something is
\* thrown on the way; "left" is a caller that left, whose status is 499.
Thrown == {"badJson", "tooLarge", "slowBody", "badKey", "forbidden", "noQuota",
           "limited", "noChannel", "timeout", "malformed", "left", "misconfigured",
           "anything"}

ASSUME EdgeAssumption ==
    /\ MaxProxies \in Nat \ {0} /\ MaxPrepended \in Nat
    /\ Texts \subseteq AddressTexts
    /\ UpstreamStatuses \subseteq 100..599
    /\ Unknown \notin UpstreamStatuses /\ Unknown \notin Thrown
    /\ Unknown # "key" /\ Unknown \notin Seq(Byte)
    /\ Unknown \notin [bytes : Seq(Byte), bits : Nat]

Faults == [upstream : UpstreamStatuses, thrown : {Unknown}]
            \cup [upstream : {Unknown}, thrown : Thrown]

\* isRetryableStatus: the statuses another channel may do better than.
IsRetryableStatus(status) ==
    /\ status \notin 200..299
    /\ status \notin {400, 408, 504, 524}
    /\ status \in 100..599

\* A slip: the provider's refusal of our key is shown as ours of the caller's.
BadNormalizeUpstreamStatus(status) ==
    IF status < 400 \/ status > 599 THEN 502 ELSE status

\* normalizeUpstreamStatus: the provider's refusal of our key is not the
\* caller's.
NormalizeUpstreamStatus(status) ==
    IF status \in {401, 403} \/ status < 400 \/ status > 599 THEN 502 ELSE status

\* The statuses of GatewayError.from and of the constructors.
StatusOf(thrown) ==
    CASE thrown = "badJson" -> 400
      [] thrown = "badKey" -> 401
      [] thrown = "noQuota" -> 402
      [] thrown = "forbidden" -> 403
      [] thrown = "slowBody" -> 408
      [] thrown = "tooLarge" -> 413
      [] thrown = "limited" -> 429
      [] thrown = "left" -> 499
      [] thrown = "malformed" -> 502
      [] thrown \in {"noChannel", "misconfigured"} -> 503
      [] thrown = "timeout" -> 504
      [] OTHER -> 500

\* fromUpstream and GatewayError.from.
ErrorOf(fault) ==
    IF fault.upstream = Unknown
      THEN [status |-> StatusOf(fault.thrown), upstream |-> Unknown,
            retryable |-> FALSE, malformed |-> fault.thrown = "malformed"]
      ELSE [status |-> NormalizeUpstreamStatus(fault.upstream),
            upstream |-> fault.upstream,
            retryable |-> IsRetryableStatus(fault.upstream), malformed |-> FALSE]

\* shouldRetryError.
ShouldRetryError(error) ==
    /\ ~error.malformed
    /\ error.status # 499
    /\ IF error.upstream = Unknown THEN error.retryable
       ELSE IsRetryableStatus(error.upstream)

ClientDialects == {"openai", "anthropic", "gemini"}

\* kindForStatus, anthropicErrorType and geminiStatus, where they tell a
\* caller to wait, to pay, to fix the key or to fix the request.
AdviceOf(status, dialect) ==
    CASE status = 401 -> "key"
      [] status = 403 -> "permission"
      [] status = 404 -> "missing"
      [] status = 429 -> "wait"
      [] status = 402 /\ dialect # "anthropic" -> "pay"
      [] status >= 500 -> "server"
      [] OTHER -> "request"

\* errorResponse: the status line and the envelope; 499 is not a status a
\* client knows.
Answer(fault, dialect) ==
    LET error == ErrorOf(fault)
    IN  [status |-> IF error.status = 499 THEN 408 ELSE error.status,
         advice |-> AdviceOf(error.status, dialect),
         retried |-> ShouldRetryError(error)]

-----------------------------------------------------------------------------
\* The subprotocols a caller may offer that holds a key there, or does not.
Offers(holding) ==
    IF holding = "key" THEN {<<"key">>, <<"key", "realtime">>, <<"realtime", "key">>}
    ELSE IF holding = "nothing" THEN {<<>>, <<"realtime">>}
    ELSE {<<>>}

Subjects ==
    [address |->
        {[xff |-> Forwarded(pre, n), hops |-> n] :
            pre \in UNION {[1..k -> Machines \cup {Noise}] : k \in 0..MaxPrepended},
            n \in 1..MaxProxies},
     credential |->
        UNION {{[held |-> held, offered |-> offered] : offered \in Offers(held["websocket"])} :
                 held \in [{Places[i] : i \in DOMAIN Places} -> Holdings]},
     rule |->
        {[rules |-> {[text |-> t, bits |-> b]}, text |-> ip] :
            t \in Texts, b \in 0..9, ip \in Texts},
     failure |-> [fault : Faults, dialect : ClientDialects]]

EdgeInit ==
    /\ task \in DOMAIN Subjects
    /\ subject \in Subjects[task]
    /\ outcome = Unknown

ReadAddress ==
    /\ task = "address"
    /\ outcome' = GetClientIp(subject.xff, subject.hops)

ReadCredential ==
    /\ task = "credential"
    /\ outcome' = [key |-> ExtractCredential(subject.held),
                   echoed |-> RealtimeAcceptProtocol(subject.offered)]

MatchRules ==
    /\ task = "rule"
    /\ outcome' = [matched |-> MatchesAnyCidr(subject.rules, subject.text)]

Explain ==
    /\ task = "failure"
    /\ outcome' = Answer(subject.fault, subject.dialect)

EdgeNext ==
    /\ outcome = Unknown
    /\ ReadAddress \/ ReadCredential \/ MatchRules \/ Explain
    /\ UNCHANGED <<task, subject>>

EdgeSpec == EdgeInit /\ [][EdgeNext]_edgeVars

-----------------------------------------------------------------------------
Done(what) == task = what /\ outcome # Unknown

\* getClientIp: behind the proxies that are trusted the address is the
\* caller's own, whatever the caller prepended.
AddressIsTheCallers == Done("address") => outcome = "caller"

\* extractCredential and realtimeAcceptProtocol: a key in an earlier place
\* wins, and the key is never echoed.
KeyIsTheIntended ==
    Done("credential") =>
        /\ outcome.echoed # "key"
        /\ outcome.key = "none" => \A p \in DOMAIN subject.held : subject.held[p] # "key"
        /\ outcome.key # "none" =>
             \A i, j \in DOMAIN Places :
                Places[j] = outcome.key /\ i < j => subject.held[Places[i]] # "key"

\* What a text means: "::" fills up with zeros, and a mapped address is an IPv4
\* one.
Spelt(side) == side.groups \o side.dotted
Long(text) ==
    [i \in 1..4 |->
       LET h == Spelt(text.head)
           t == Spelt(text.tail)
       IN  IF i <= Len(h) THEN h[i] ELSE IF i > 4 - Len(t) THEN t[i - (4 - Len(t))] ELSE 0]
Denoted(text) ==
    IF text.v4 # <<>> THEN text.v4
    ELSE IF Long(text)[1] = 0 /\ Long(text)[2] = 3 THEN <<Long(text)[3], Long(text)[4]>>
    ELSE Long(text)
Bits(text) ==
    [i \in 1..(ByteBits * Len(Denoted(text))) |->
       Bit(Denoted(text)[((i - 1) \div ByteBits) + 1], ((i - 1) % ByteBits) + 1)]
Legal(text) == text.v4 # <<>> \/ ParseIpv6(text) # Unknown

\* cidrContains: a rule matches the addresses of its family that begin with
\* its bits, in whatever form either is written, and a rule or an address
\* that does not parse matches nothing.
RulesMatchPrefixes ==
    Done("rule") =>
        \A rule \in subject.rules :
            outcome.matched <=>
                /\ Legal(rule.text) /\ Legal(subject.text)
                /\ Len(Bits(rule.text)) = Len(Bits(subject.text))
                /\ rule.bits <= Len(Bits(rule.text))
                /\ \A i \in 1..rule.bits : Bits(rule.text)[i] = Bits(subject.text)[i]

\* http/errors.ts: every failure is answered with an error status a client
\* knows; only the gateway's own check of the caller's key says the key is
\* wrong; what may already have been done upstream is not done again.
FailuresAreHonest ==
    Done("failure") =>
        /\ outcome.status \in (400..599) \ {499}
        /\ outcome.advice \in {"key", "permission"} => subject.fault.thrown \in {"badKey", "forbidden"}
        /\ outcome.retried => subject.fault.upstream \in UpstreamStatuses \ {200, 408, 499, 504, 524}

EdgeIsExact ==
    AddressIsTheCallers /\ KeyIsTheIntended /\ RulesMatchPrefixes /\ FailuresAreHonest
=============================================================================
