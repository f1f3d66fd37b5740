----------------------------- MODULE ScriptTwins -----------------------------
(***************************************************************************)
(* The scripts of the coordination store, which the program has twice: in  *)
(* Lua for Redis (lib/redis/lua.ts) and in JavaScript, as commands with an *)
(* await between them (lib/redis/scripts.ts), for MongoDB and for the      *)
(* store in memory (lib/redis/memory.ts).  Redis runs a script in one      *)
(* step.  The twins take turns, and single commands fall between theirs.   *)
(*                                                                         *)
(* Both stores are given the same calls.  A behaviour is about the scripts *)
(* of one family, which share keys.  Seconds and milliseconds are ticks.   *)
(* The clock stands still inside a twin, as it does inside a script.       *)
(***************************************************************************)
EXTENDS Integers, Sequences, FiniteSets

CONSTANTS
    ScriptCallers, \* who calls scripts
    MaxScripts,    \* bound: scripts and commands
    MaxTicks,      \* bound: the clock
    Nil            \* a model value: nothing there

ASSUME TwinsAssumption ==
    MaxScripts \in Nat /\ MaxTicks \in Nat /\ Nil \notin Int /\ Nil # "open"

VARIABLES
    family,       \* the scripts this behaviour is about
    clock,
    memory,       \* the store the twins work on
    luaStore,     \* the store the Lua scripts work on
    twins,        \* per caller: its script and the replies it has had so far
    scriptChain,  \* the callers waiting for their turn
    begun,        \* scripts and commands so far
    bothReturned  \* what the last script bothReturned, from the twin and from Lua

twinVars == <<family, clock, memory, luaStore, twins, scriptChain, begun, bothReturned>>

ScriptFamilies == {"bucket", "window", "successes", "pool", "health", "inflight",
             "buffer", "ledger"}
StoreKeys == ScriptFamilies \cup {"lock", "user", "token", "journal"}
Forever == -1
NoEntry == [type |-> "gone", is |-> Nil, date |-> Forever]
Life == 2

Least(a, b) == IF a < b THEN a ELSE b
Most(a, b) == IF a > b THEN a ELSE b
CeilDiv(a, b) == (a + b - 1) \div b
Field(h, f) == IF f \in DOMAIN h THEN h[f] ELSE Nil
Or(v, default) == IF v = Nil THEN default ELSE v

\* Some fields over others; one field.
Merged(f, g) == [x \in DOMAIN f \cup DOMAIN g |-> IF x \in DOMAIN f THEN f[x] ELSE g[x]]
One(f, v) == [x \in {f} |-> v]

-----------------------------------------------------------------------------
(* memory.ts *)

\* live: an entry past its date is gone.
Live(s, k) ==
    IF s[k].date # Forever /\ s[k].date <= clock THEN NoEntry ELSE s[k]

\* hash, list, zset: the collection under a key, made when it is not there.
Held(s, k, empty) == IF Live(s, k) = NoEntry THEN empty ELSE Live(s, k).is

\* A changed collection or counter keeps the date it has.
Rewritten(s, k, type, is) ==
    [s EXCEPT ![k] = [type |-> type, is |-> is, date |-> Live(s, k).date]]

Reply(tuple, s) == [answer |-> tuple, store |-> s]
Hash(s, k) == Held(s, k, <<>>)

Strings(s, c) ==
    CASE c[1] = "GET" -> Reply(Live(s, c[2]).is, s)
      [] c[1] = "SETNX" ->            \* SET key value EX ttl NX
           IF Live(s, c[2]) # NoEntry THEN Reply(Nil, s)
           ELSE Reply("OK", [s EXCEPT ![c[2]] =
                    [type |-> "scalar", is |-> c[3], date |-> clock + Life]])
      [] c[1] = "INCRBY" ->
           LET next == Or(Live(s, c[2]).is, 0) + c[3]
           IN  Reply(next, Rewritten(s, c[2], "scalar", next))

Keyspace(s, c) ==
    CASE c[1] = "DEL" ->
           Reply(IF Live(s, c[2]) = NoEntry THEN 0 ELSE 1, [s EXCEPT ![c[2]] = NoEntry])
      [] c[1] = "EXISTS" -> Reply(IF Live(s, c[2]) = NoEntry THEN 0 ELSE 1, s)
      [] c[1] = "EXPIRE" ->
           IF Live(s, c[2]) = NoEntry THEN Reply(0, s)
           ELSE Reply(1, [s EXCEPT ![c[2]].date = clock + c[3]])
      [] c[1] = "TTL" ->
           Reply(CASE Live(s, c[2]) = NoEntry -> -2
                   [] Live(s, c[2]).date = Forever -> -1
                   [] OTHER -> s[c[2]].date - clock, s)

Hashes(s, c) ==
    CASE c[1] = "HSET" -> Reply(0, Rewritten(s, c[2], "hash", Merged(c[3], Hash(s, c[2]))))
      [] c[1] = "HGET" -> Reply(Field(Hash(s, c[2]), c[3]), s)
      [] c[1] = "HMGET" ->
           Reply([n \in DOMAIN c[3] |-> Field(Hash(s, c[2]), c[3][n])], s)
      [] c[1] = "HINCRBY" ->
           LET next == Or(Field(Hash(s, c[2]), c[3]), 0) + c[4]
           IN  Reply(next, Rewritten(s, c[2], "hash", Merged(One(c[3], next), Hash(s, c[2]))))

\* The end of LRANGE and LTRIM is -1 wherever a script or the program trims.
Lists(s, c) ==
    LET list == Held(s, c[2], <<>>) IN
    CASE c[1] = "RPUSH" ->
           Reply(Len(list) + 1, Rewritten(s, c[2], "list", Append(list, c[3])))
      [] c[1] = "LTRIM" ->
           Reply("OK", IF Live(s, c[2]) = NoEntry THEN s
                       ELSE Rewritten(s, c[2], "list", SubSeq(list, c[3] + 1, Len(list))))

\* A sorted set is a function from its members to their scores.
Without(z, gone) == [m \in DOMAIN z \ gone |-> z[m]]
SortedSets(s, c) ==
    LET z == Held(s, c[2], <<>>)
        Removed(ms) == IF Live(s, c[2]) = NoEntry THEN s
                       ELSE Rewritten(s, c[2], "zset", Without(z, ms))
        low == {m \in DOMAIN z : z[m] <= c[3]} IN
    CASE c[1] = "ZADD" ->
           Reply(IF c[4] \in DOMAIN z THEN 0 ELSE 1,
                 Rewritten(s, c[2], "zset", Merged(One(c[4], c[3]), z)))
      [] c[1] = "ZCARD" -> Reply(Cardinality(DOMAIN z), s)
      [] c[1] = "ZREM" -> Reply(Cardinality(DOMAIN z \cap {c[3]}), Removed({c[3]}))
      [] c[1] = "ZREMRANGEBYSCORE" -> Reply(Cardinality(low), Removed(low))

TwinCommand(s, c) ==
    CASE c[1] \in {"GET", "SETNX", "INCRBY"} -> Strings(s, c)
      [] c[1] \in {"DEL", "EXISTS", "EXPIRE", "TTL"} -> Keyspace(s, c)
      [] c[1] \in {"HSET", "HGET", "HMGET", "HINCRBY"} -> Hashes(s, c)
      [] c[1] \in {"RPUSH", "LTRIM"} -> Lists(s, c)
      [] OTHER -> SortedSets(s, c)

-----------------------------------------------------------------------------
(* scripts.ts: what a twin does next, given the replies it has had *)

Do(c) == [next |-> "command", is |-> c]
Finished(tuple) == [next |-> "done", is |-> tuple]

\* The n-th of some commands, and the tuple once all are done.
Then(cmds, r, tuple) ==
    IF Len(r) < Len(cmds) THEN Do(cmds[Len(r) + 1]) ELSE Finished(tuple)

TokenBucketTwin(a, r) ==
    LET held   == Or(r[1][1], a.capacity)
        since  == Or(r[1][2], a.now)
        tokens == Least(a.capacity, held + Most(0, a.now - since) * a.refill)
        ok     == tokens >= a.cost
        left   == IF ok THEN tokens - a.cost ELSE tokens
        retry  == IF ok THEN 0
                  ELSE IF a.refill > 0 THEN CeilDiv(a.cost - tokens, a.refill) ELSE Life
    IN  IF a.capacity <= 0 THEN Finished(<<1, -1, 0>>)
        ELSE IF r = <<>> THEN Do(<<"HMGET", "bucket", <<"tokens", "ts">>>>)
        ELSE Then(<<"HMGET", <<"HSET", "bucket", [tokens |-> left, ts |-> a.now]>>,
                    <<"EXPIRE", "bucket", Life>>>>,
                  r, <<IF ok THEN 1 ELSE 0, left, retry>>)

FixedWindowTwin(a, r) ==
    LET current == Or(r[1], 0)
        over    == current + a.cost > a.limit
        Left(n) == IF r[n] < 0 THEN Life ELSE r[n]
        starts  == r[2] = a.cost
        expires == IF starts THEN <<<<"EXPIRE", "window", Life>>>> ELSE <<>>
    IN  IF a.limit <= 0 THEN Finished(<<1, 0, Life>>)
        ELSE IF r = <<>> THEN Do(<<"GET", "window">>)
        ELSE IF over
          THEN Then(<<"GET", <<"TTL", "window">>>>, r, <<0, current, Left(2)>>)
        ELSE IF Len(r) = 1 THEN Do(<<"INCRBY", "window", a.cost>>)
        ELSE Then(<<"GET", "INCRBY">> \o expires \o <<<<"TTL", "window">>>>, r,
                  <<1, r[2], Left(Len(r))>>)

\* concurrency and slidingSuccess: drop what is too old, count, add.
AdmissionTwin(key, a, dropped, score, life, r) ==
    LET counts == <<<<"ZREMRANGEBYSCORE", key, dropped>>, <<"ZCARD", key>>>>
        adds   == <<<<"ZADD", key, score, a.member>>, <<"EXPIRE", key, life>>>>
    IN  IF Len(r) < 2 THEN Do(counts[Len(r) + 1])
        ELSE IF r[2] >= a.limit THEN Finished(<<0, r[2]>>)
        ELSE Then(counts \o adds, r, <<1, r[2] + 1>>)

SlidingSuccessTwin(a, r) ==
    IF a.limit <= 0 THEN Finished(<<1, 0>>)
    ELSE AdmissionTwin("successes", a, a.now - Life, a.now, Life, r)

ConcurrencyTwin(a, r) ==
    AdmissionTwin("inflight", a, a.now, a.now + Life, Life + 1, r)

Opened(a) == [amount |-> IF a.unlimited THEN 0 ELSE a.amount, state |-> "open",
              unlimited |-> a.unlimited]

ReserveTwin(a, r) ==
    LET balance == Or(r[2], -1)
        private == IF a.capped THEN Or(r[3], -1) ELSE -1
        debits  == IF private >= 0
                     THEN <<<<"INCRBY", "user", -a.amount>>, <<"INCRBY", "token", -a.amount>>>>
                     ELSE <<<<"INCRBY", "user", -a.amount>>>>
        asked   == IF a.capped THEN 3 ELSE 2
        opens   == <<<<"HSET", "ledger", Opened(a)>>, <<"EXPIRE", "ledger", Life>>>>
    IN  IF r = <<>> THEN Do(<<"EXISTS", "ledger">>)
        ELSE IF r[1] = 1 THEN Then(<<"EXISTS", <<"GET", "user">>>>, r, <<2, Or(r[2], 0)>>)
        ELSE IF a.unlimited THEN Then(<<"EXISTS">> \o opens, r, <<1, -1>>)
        ELSE IF Len(r) = 1 THEN Do(<<"GET", "user">>)
        ELSE IF balance < 0 THEN Finished(<<3, 0>>)
        ELSE IF balance < a.amount THEN Finished(<<0, balance>>)
        ELSE IF Len(r) < asked THEN Do(<<"GET", "token">>)
        ELSE IF private \in 0..(a.amount - 1) THEN Finished(<<0, private>>)
        ELSE Then([n \in 1..asked |-> "GET"] \o debits \o opens, r, <<1, r[asked + 1]>>)

\* settle and release move the user's counter, and the key's if it has one,
\* and end alike: the reservation is closed and journalled.
Moves(a, by) ==
    <<<<"INCRBY", "user", by>>>> \o IF a.capped THEN <<<<"EXISTS", "token">>>> ELSE <<>>
Closes(state, entry) ==
    <<<<"HSET", "ledger", [state |-> state]>>, <<"EXPIRE", "ledger", Life>>,
      <<"RPUSH", "journal", entry>>, <<"EXPIRE", "journal", Life>>>>

SettleTwin(a, r) ==
    LET delta == a.final - r[2]
        free  == r[3]
        pays  == IF free THEN <<>>
                 ELSE IF delta = 0 THEN <<<<"GET", "user">>>>
                 ELSE Moves(a, -delta)
        cap   == IF Len(pays) = 2 /\ r[5] = 1 THEN <<<<"INCRBY", "token", -delta>>>> ELSE <<>>
    IN  IF r = <<>> THEN Do(<<"HGET", "ledger", "state">>)
        ELSE IF r[1] # "open" THEN Finished(<<IF r[1] = Nil THEN 0 ELSE 2, 0, 0>>)
        ELSE IF Len(r) < 3 THEN Do(<<"HGET", "ledger", IF Len(r) = 1 THEN "amount" ELSE "unlimited">>)
        ELSE IF Len(r) < 3 + Len(pays) THEN Do(pays[Len(r) - 2])
        ELSE Then(<<"HGET", "HGET", "HGET">> \o pays \o cap
                    \o Closes("settled", <<"settle", a.final, r[2]>>), r,
                  <<1, IF free THEN -1 ELSE Or(r[4], 0), delta>>)

ReleaseTwin(a, r) ==
    LET refunds == IF r[3] \/ r[2] <= 0 THEN <<>> ELSE Moves(a, r[2])
        cap     == IF Len(refunds) = 2 /\ r[5] = 1 THEN <<<<"INCRBY", "token", r[2]>>>> ELSE <<>>
    IN  IF r = <<>> THEN Do(<<"HGET", "ledger", "state">>)
        ELSE IF r[1] # "open" THEN Finished(<<IF r[1] = Nil THEN 0 ELSE 2, 0>>)
        ELSE IF Len(r) < 3 THEN Do(<<"HGET", "ledger", IF Len(r) = 1 THEN "amount" ELSE "unlimited">>)
        ELSE IF Len(r) < 3 + Len(refunds) THEN Do(refunds[Len(r) - 2])
        ELSE Then(<<"HGET", "HGET", "HGET">> \o refunds \o cap
                    \o Closes("released", <<"release", 0, r[2]>>), r, <<1, r[2]>>)

NextKeyTwin(a, r) ==
    IF a.size <= 0 THEN Finished(<<-1>>)
    ELSE Then(<<<<"INCRBY", "pool", 1>>, <<"EXPIRE", "pool", Life>>>>, r,
              <<(r[1] - 1) % a.size>>)

HealthTwin(a, r) ==
    LET trips == r[1] >= a.threshold
        ends  == <<"EXPIRE", "health", 2 * Life>>
    IN  IF a.ok
          THEN Then(<<<<"HSET", "health", [fails |-> 0, openUntil |-> 0]>>, ends>>, r, <<0, 0>>)
        ELSE IF r = <<>> THEN Do(<<"HINCRBY", "health", "fails", 1>>)
        ELSE IF trips
          THEN Then(<<"HINCRBY", <<"HSET", "health", [openUntil |-> a.now + Life]>>, ends>>,
                    r, <<1, r[1]>>)
        ELSE Then(<<"HINCRBY", ends>>, r, <<0, r[1]>>)

ReleaseLockTwin(a, r) ==
    IF r = <<>> THEN Do(<<"GET", "lock">>)
    ELSE IF r[1] # a.owner THEN Finished(<<0>>)
    ELSE Then(<<"GET", <<"DEL", "lock">>>>, r, <<r[2]>>)

AckUsageTwin(a, r) ==
    IF r = <<>> THEN Do(<<"GET", "lock">>)
    ELSE IF r[1] # a.owner THEN Finished(<<0>>)
    ELSE Then(<<"GET", <<"LTRIM", "buffer", a.acked>>, <<"DEL", "lock">>>>, r, <<1>>)

\* executeScriptProgram
Twin(script, r) ==
    CASE script.name = "tokenBucket" -> TokenBucketTwin(script, r)
      [] script.name = "fixedWindow" -> FixedWindowTwin(script, r)
      [] script.name = "slidingSuccess" -> SlidingSuccessTwin(script, r)
      [] script.name = "reserve" -> ReserveTwin(script, r)
      [] script.name = "settle" -> SettleTwin(script, r)
      [] script.name = "release" -> ReleaseTwin(script, r)
      [] script.name = "nextKey" -> NextKeyTwin(script, r)
      [] script.name = "health" -> HealthTwin(script, r)
      [] script.name = "concurrency" -> ConcurrencyTwin(script, r)
      [] script.name = "releaseLock" -> ReleaseLockTwin(script, r)
      [] script.name = "ackUsage" -> AckUsageTwin(script, r)

-----------------------------------------------------------------------------
(* lua.ts: what a script makes of the store in one step; an empty collection *)
(* is no key                                                                 *)

Seen(s, k) ==
    IF Live(s, k).type \in {"list", "zset"} /\ DOMAIN Live(s, k).is = {} THEN NoEntry
    ELSE Live(s, k)

Value(s, k) == Live(s, k).is
Hashed(s, k, f) == Field(Hash(s, k), f)
Set(s, k, type, is, date) == [s EXCEPT ![k] = [type |-> type, is |-> is, date |-> date]]
Add(s, k, by) == Set(s, k, "scalar", Or(Value(s, k), 0) + by, Live(s, k).date)
Write(s, k, fields, life) == Set(s, k, "hash", Merged(fields, Hash(s, k)), clock + life)

TOKEN_BUCKET_LUA(s, a) ==
    LET stored  == Or(Hashed(s, "bucket", "tokens"), a.capacity)
        elapsed == Most(0, a.now - Or(Hashed(s, "bucket", "ts"), a.now))
        tokens  == Least(a.capacity, stored + elapsed * a.refill)
        Keep(n) == Write(s, "bucket", [tokens |-> n, ts |-> a.now], Life)
        deficit == a.cost - tokens
    IN  IF a.capacity <= 0 THEN Reply(<<1, -1, 0>>, s)
        ELSE IF deficit <= 0 THEN Reply(<<1, -deficit, 0>>, Keep(-deficit))
        ELSE Reply(<<0, tokens, IF a.refill > 0 THEN CeilDiv(deficit, a.refill) ELSE Life>>,
                   Keep(tokens))

FIXED_WINDOW_LUA(s, a) ==
    LET current == Or(Value(s, "window"), 0)
        date    == IF current = 0 THEN clock + Life ELSE Live(s, "window").date
        left    == IF date = Forever THEN Life ELSE date - clock
    IN  IF a.limit <= 0 THEN Reply(<<1, 0, Life>>, s)
        ELSE IF current + a.cost > a.limit
          THEN Reply(<<0, current, IF current = 0 THEN Life ELSE left>>, s)
        ELSE Reply(<<1, current + a.cost, left>>,
                   Set(s, "window", "scalar", current + a.cost, date))

\* The members of a sorted set above a score, and one more if there is room.
Admission(s, key, a, dropped, score, life) ==
    LET z    == Hash(s, key)
        kept == Without(z, {m \in DOMAIN z : z[m] <= dropped})
        n    == Cardinality(DOMAIN kept)
    IN  IF n >= a.limit
          THEN Reply(<<0, n>>, IF n = 0 THEN [s EXCEPT ![key] = NoEntry]
                               ELSE Set(s, key, "zset", kept, Live(s, key).date))
        ELSE Reply(<<1, n + 1>>,
                   Set(s, key, "zset", Merged(One(a.member, score), kept), clock + life))

SLIDING_SUCCESS_LUA(s, a) ==
    IF a.limit <= 0 THEN Reply(<<1, 0>>, s)
    ELSE Admission(s, "successes", a, a.now - Life, a.now, Life)

CONCURRENCY_LUA(s, a) == Admission(s, "inflight", a, a.now, a.now + Life, Life + 1)

RESERVE_LUA(s, a) ==
    LET balance == Or(Value(s, "user"), -1)
        private == IF a.capped THEN Or(Value(s, "token"), -1) ELSE -1
        paid    == Add(s, "user", -a.amount)
        debited == IF private >= 0 THEN Add(paid, "token", -a.amount) ELSE paid
    IN  IF Live(s, "ledger") # NoEntry THEN Reply(<<2, Or(Value(s, "user"), 0)>>, s)
        ELSE IF a.unlimited THEN Reply(<<1, -1>>, Write(s, "ledger", Opened(a), Life))
        ELSE IF balance < 0 THEN Reply(<<3, 0>>, s)
        ELSE IF balance < a.amount THEN Reply(<<0, balance>>, s)
        ELSE IF private >= 0 /\ private < a.amount THEN Reply(<<0, private>>, s)
        ELSE Reply(<<1, balance - a.amount>>, Write(debited, "ledger", Opened(a), Life))

\* An open reservation is closed in the same step that moves the counters.
ClosedLedger(s, state, entry) ==
    LET done == Write(s, "ledger", [state |-> state], Life)
    IN  Set(done, "journal", "list", Append(Held(s, "journal", <<>>), entry), clock + Life)
MovedBy(s, a, by) ==
    LET paid == Add(s, "user", by)
    IN  IF a.capped /\ Live(s, "token") # NoEntry THEN Add(paid, "token", by) ELSE paid
State(s) == Hashed(s, "ledger", "state")
Reserved(s) == Hashed(s, "ledger", "amount")
Unlimited(s) == Hashed(s, "ledger", "unlimited")

SETTLE_LUA(s, a) ==
    LET delta == a.final - Reserved(s)
        moved == IF Unlimited(s) \/ delta = 0 THEN s ELSE MovedBy(s, a, -delta)
    IN  IF State(s) = Nil THEN Reply(<<0, 0, 0>>, s)
        ELSE IF State(s) # "open" THEN Reply(<<2, 0, 0>>, s)
        ELSE Reply(<<1, IF Unlimited(s) THEN -1 ELSE Or(Value(moved, "user"), 0), delta>>,
                   ClosedLedger(moved, "settled", <<"settle", a.final, Reserved(s)>>))

RELEASE_LUA(s, a) ==
    LET refunded == IF ~Unlimited(s) /\ Reserved(s) > 0 THEN MovedBy(s, a, Reserved(s)) ELSE s
    IN  IF State(s) = Nil THEN Reply(<<0, 0>>, s)
        ELSE IF State(s) # "open" THEN Reply(<<2, 0>>, s)
        ELSE Reply(<<1, Reserved(s)>>,
                   ClosedLedger(refunded, "released", <<"release", 0, Reserved(s)>>))

NEXT_KEY_LUA(s, a) ==
    LET n == Or(Value(s, "pool"), 0) + 1
    IN  IF a.size <= 0 THEN Reply(<<-1>>, s)
        ELSE Reply(<<(n - 1) % a.size>>, Set(s, "pool", "scalar", n, clock + Life))

HEALTH_LUA(s, a) ==
    LET fails == Or(Hashed(s, "health", "fails"), 0) + 1
        open  == fails >= a.threshold
    IN  IF a.ok THEN Reply(<<0, 0>>, Write(s, "health", [fails |-> 0, openUntil |-> 0], 2 * Life))
        ELSE IF open THEN Reply(<<1, fails>>, Write(s, "health",
                                [fails |-> fails, openUntil |-> a.now + Life], 2 * Life))
        ELSE Reply(<<0, fails>>, Write(s, "health", [fails |-> fails], 2 * Life))

RELEASE_LOCK_LUA(s, a) ==
    IF Value(s, "lock") = a.owner THEN Reply(<<1>>, [s EXCEPT !["lock"] = NoEntry])
    ELSE Reply(<<0>>, s)

ACK_USAGE_LUA(s, a) ==
    LET list == Held(s, "buffer", <<>>)
        left == SubSeq(list, a.acked + 1, Len(list))
    IN  IF Value(s, "lock") # a.owner THEN Reply(<<0>>, s)
        ELSE Reply(<<1>>, [s EXCEPT !["lock"] = NoEntry,
                             !["buffer"] = IF left = <<>> THEN NoEntry ELSE [@ EXCEPT !.is = left]])

Script(script, s) ==
    CASE script.name = "tokenBucket" -> TOKEN_BUCKET_LUA(s, script)
      [] script.name = "fixedWindow" -> FIXED_WINDOW_LUA(s, script)
      [] script.name = "slidingSuccess" -> SLIDING_SUCCESS_LUA(s, script)
      [] script.name = "reserve" -> RESERVE_LUA(s, script)
      [] script.name = "settle" -> SETTLE_LUA(s, script)
      [] script.name = "release" -> RELEASE_LUA(s, script)
      [] script.name = "nextKey" -> NEXT_KEY_LUA(s, script)
      [] script.name = "health" -> HEALTH_LUA(s, script)
      [] script.name = "concurrency" -> CONCURRENCY_LUA(s, script)
      [] script.name = "releaseLock" -> RELEASE_LOCK_LUA(s, script)
      [] script.name = "ackUsage" -> ACK_USAGE_LUA(s, script)

-----------------------------------------------------------------------------
(* ScriptCalls of the two stores *)

NoScript == [at |-> "idle"]
Asking(name, args) == Merged([name |-> name], args)

\* The calls the program makes on a family's keys, with the keys and
\* reservations of one user.
ScriptCalls ==
    CASE family = "bucket" ->
           {Asking("tokenBucket", [capacity |-> n, refill |-> f, cost |-> c, now |-> clock]) :
              n \in {0, 2}, f \in {0, 1}, c \in {1, 2}}
      [] family = "window" ->
           {Asking("fixedWindow", [limit |-> n, cost |-> c]) : n \in {0, 2}, c \in {1, 2, 3}}
      [] family = "successes" ->
           {Asking("slidingSuccess", [limit |-> n, now |-> clock, member |-> begun]) : n \in {0, 1, 2}}
      [] family = "pool" -> {Asking("nextKey", [size |-> n]) : n \in {0, 1, 2}}
      [] family = "health" ->
           {Asking("health", [ok |-> ok, threshold |-> 2, now |-> clock]) : ok \in BOOLEAN}
      [] family = "inflight" ->
           {Asking("concurrency", [limit |-> n, now |-> clock, member |-> begun]) : n \in {1, 2}}
      [] family = "buffer" ->
           {Asking("releaseLock", [owner |-> n]) : n \in 0..(begun - 1)}
             \cup {Asking("ackUsage", [owner |-> n, acked |-> m]) :
                      n \in 0..(begun - 1), m \in 1..Len(Held(memory, "buffer", <<>>))}
      [] family = "ledger" ->
           {Asking("reserve", [amount |-> n, unlimited |-> u, capped |-> c]) :
              n \in {1, 3}, u \in BOOLEAN, c \in BOOLEAN}
             \cup {Asking("settle", [final |-> n, capped |-> c]) : n \in {0, 1, 4}, c \in BOOLEAN}
             \cup {Asking("release", [capped |-> c]) : c \in BOOLEAN}

Running == {c \in ScriptCallers : twins[c].at = "running"}

\* The requests in flight whose admission was answered.
Holders ==
    DOMAIN Hash(memory, "inflight")
      \ {twins[c].call.member : c \in Running}

\* What else the program asks on the same keys, in one command.
Others ==
    CASE family = "buffer" -> {<<"SETNX", "lock", begun>>, <<"RPUSH", "buffer", begun>>}
      [] family = "inflight" -> {<<"ZREM", "inflight", n>> : n \in Holders}
      [] OTHER -> {}

TwinsInit ==
    /\ family \in ScriptFamilies
    /\ clock = 0
    /\ \E private \in {Nil, 2} :
         memory = [k \in StoreKeys |->
             CASE family = "ledger" /\ k = "user" -> [type |-> "scalar", is |-> 3, date |-> Forever]
               [] family = "ledger" /\ k = "token" /\ private # Nil ->
                    [type |-> "scalar", is |-> private, date |-> Forever]
               [] OTHER -> NoEntry]
    /\ luaStore = memory
    /\ twins = [c \in ScriptCallers |-> NoScript]
    /\ scriptChain = <<>>
    /\ begun = 0
    /\ bothReturned = [twin |-> Nil, lua |-> Nil]

\* runScript: a call joins the chain.
JoinChain(c) ==
    /\ twins[c] = NoScript
    /\ begun < MaxScripts /\ begun' = begun + 1
    /\ \E script \in ScriptCalls : twins' = [twins EXCEPT ![c] =
           [at |-> "waiting", call |-> script, r |-> <<>>, lua |-> Nil]]
    /\ scriptChain' = Append(scriptChain, c)
    /\ UNCHANGED <<family, clock, memory, luaStore, bothReturned>>

\* A slip: a script does not wait for the one before it.
BadHeadOfChain(c) == c \in {scriptChain[n] : n \in DOMAIN scriptChain}

\* runScriptTwin: the head of the chain runs, to its end.
HeadOfChain(c) == scriptChain[1] = c

\* Redis runs the script where the twin's answer is settled: an admission at its
\* count, the others at their last command.
Settles(script, r) ==
    IF script.name = "concurrency" THEN Len(r) = 2
    ELSE Twin(script, r).next = "done"

\* The next command of a running twin, or its return.
Step(c) ==
    LET t    == twins[c]
        does == Twin(t.call, t.r)
        done == TwinCommand(memory, does.is)
        r    == Append(t.r, done.answer)
        lua  == Script(t.call, luaStore)
        now  == Settles(t.call, r)
    IN  /\ t.at # "idle" /\ scriptChain # <<>> /\ HeadOfChain(c)
        /\ does.next = "command"
        /\ memory' = done.store
        /\ twins' = [twins EXCEPT ![c] =
               [t EXCEPT !.at = "running", !.r = r, !.lua = IF now THEN lua.answer ELSE @]]
        /\ luaStore' = IF now THEN lua.store ELSE luaStore
        /\ UNCHANGED <<family, clock, scriptChain, begun, bothReturned>>

\* The chain once c's turn is over.
ChainWithout(c) ==
    LET n == CHOOSE n \in DOMAIN scriptChain : scriptChain[n] = c
    IN  SubSeq(scriptChain, 1, n - 1) \o SubSeq(scriptChain, n + 1, Len(scriptChain))

Return(c) ==
    LET t    == twins[c]
        does == Twin(t.call, t.r)
        lua  == IF t.r = <<>> THEN Script(t.call, luaStore) ELSE Reply(t.lua, luaStore)
    IN  /\ t.at # "idle" /\ scriptChain # <<>> /\ HeadOfChain(c)
        /\ does.next = "done"
        /\ bothReturned' = [twin |-> does.is, lua |-> lua.answer]
        /\ luaStore' = lua.store
        /\ twins' = [twins EXCEPT ![c] = NoScript]
        /\ scriptChain' = ChainWithout(c)
        /\ UNCHANGED <<family, clock, memory, begun>>

\* A single command, between any two of a twin's.
Single ==
    /\ begun < MaxScripts /\ begun' = begun + 1
    /\ \E c \in Others :
         LET m == TwinCommand(memory, c)
             l == TwinCommand(luaStore, c)
         IN  /\ memory' = m.store
             /\ luaStore' = [k \in StoreKeys |-> Seen(l.store, k)]
             /\ bothReturned' = IF c[1] = "RPUSH" THEN bothReturned    \* nobody looks at it
                             ELSE [twin |-> m.answer, lua |-> l.answer]
    /\ UNCHANGED <<family, clock, twins, scriptChain>>

TwinTick ==
    /\ Running = {}
    /\ clock < MaxTicks /\ clock' = clock + 1
    /\ UNCHANGED <<family, memory, luaStore, twins, scriptChain, begun, bothReturned>>

TwinsNext ==
    \/ \E c \in ScriptCallers : JoinChain(c) \/ Step(c) \/ Return(c)
    \/ Single \/ TwinTick

TwinsSpec == TwinsInit /\ [][TwinsNext]_twinVars

-----------------------------------------------------------------------------
(* Properties *)

\* redis/scripts.ts: "Each function must produce exactly the same return tuple
\* as its Lua counterpart", and "one script finishes before the next begins".
\* Whatever order calls and single commands come in, a twin returns what the
\* Lua script would have, and when no twin is under way the two stores hold the
\* same, with the same dates: no two twins decide on the same count, balance or
\* owner, and none leaves a counter or a lock without its date.
TwinsAgree ==
    /\ bothReturned.twin = bothReturned.lua
    /\ Running = {} => \A k \in StoreKeys : Seen(memory, k) = Seen(luaStore, k)
=============================================================================
