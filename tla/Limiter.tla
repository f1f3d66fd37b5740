------------------------------- MODULE Limiter -------------------------------
(***************************************************************************)
(* The rate limits of lib/ratelimit/index.ts and the scripts they run      *)
(* (lib/redis/scripts.ts, the twins of lib/redis/lua.ts): the buckets of   *)
(* requests per minute, the window of successes and the window of tokens.  *)
(* The ceiling of requests in flight is part of RelayRequest.              *)
(*                                                                         *)
(* A script is one indivisible step of the shared store.  Time passes in ticks, a  *)
(* minute is Window of them, and a timestamp is kept as its age, up to the *)
(* age at which the code no longer tells it from an older one.             *)
(***************************************************************************)
EXTENDS Integers, FiniteSets, FiniteSetsExt, Functions

CONSTANTS
    Requests,     \* calls being limited
    Tokens,       \* API keys, all of one user
    RpmLimit,     \* requests per minute of a key; the user's bucket holds UserRpm
    UserRpm,
    SuccessLimit, \* counted requests per window
    TpmLimit,     \* tokens per window
    Window,       \* a minute, in ticks
    MaxFailures   \* bound: calls to the store that fail

ASSUME LimiterAssumption ==
    /\ Window \in Nat \ {0}
    /\ RpmLimit \in Nat /\ UserRpm \in Nat /\ SuccessLimit \in Nat /\ TpmLimit \in Nat
    /\ RpmLimit % Window = 0 /\ UserRpm % Window = 0
    /\ RpmLimit <= UserRpm   \* userLimit = max(tokenLimit, defaultRpm)
    /\ Tokens \cap {"user", "success", "budget"} = {}
    /\ MaxFailures \in Nat

VARIABLES
    bucket,    \* per scope: tokens left and how long ago it was touched
    successes, \* the sorted set: how many members of each age
    budget,    \* the counter of tokens and how much of its window is left
    degraded,  \* the last call to the store failed a moment ago
    failures,
    limited,   \* per request: the check it is at, and its key
    passed     \* requests each check has let through, by age

limiterVars == <<bucket, successes, budget, degraded, failures, limited, passed>>

Ages == 0..(Window - 1)
CountsOf(counts) == SumFunctionOnSet(counts, Ages)
Scopes == Tokens \cup {"user"}
Capacity(scope) == IF scope = "user" THEN UserRpm ELSE RpmLimit
Checks == Scopes \cup {"success", "budget"}
NoBucket == [tokens |-> -1, age |-> 0]
NoBudget == [count |-> 0, left |-> 0]
Start == [at |-> "idle", token |-> CHOOSE k \in Tokens : TRUE]

----------------------------------------------------------------------------
(* The scripts *)

\* tokenBucket: what the bucket holds now, refilled since it was last touched.
\* Its key expires after two minutes, when the bucket has long been full.
Refilled(scope, age) == Min({Capacity(scope), bucket[scope].tokens + age * (Capacity(scope) \div Window)})

\* A slip: the first touch after a refusal refills a minute.
BadLevel(scope) ==
    IF bucket[scope] = NoBucket THEN Capacity(scope)
    ELSE Refilled(scope, IF bucket[scope].tokens = 0 THEN Window ELSE bucket[scope].age)

Level(scope) ==
    IF bucket[scope] = NoBucket THEN Capacity(scope) ELSE Refilled(scope, bucket[scope].age)

\* slidingSuccess: members as old as the window are gone.
SuccessCount == CountsOf(successes)

\* fixedWindow: a counter that expires with its window, which its first charge
\* starts.
Charged(cost) == [count |-> budget.count + cost,
                  left  |-> IF budget.count = 0 THEN Window ELSE budget.left]

----------------------------------------------------------------------------
(* enforceRequestLimits, enforceSuccessWindow, enforceTokenBudget *)

Refuse(r) == limited' = [limited EXCEPT ![r] = Start] /\ UNCHANGED passed
Pass(r, check, next) ==
    /\ limited' = [limited EXCEPT ![r].at = next]
    /\ passed' = [passed EXCEPT ![check][0] = @ + 1]

\* limitScript: a degraded store is not asked; one that fails, with or without
\* having run the script, refuses, and redis/client.ts remembers it a while.
StoreAnswers == ~degraded /\ UNCHANGED <<degraded, failures>>
StoreFails == /\ ~degraded /\ failures < MaxFailures
              /\ failures' = failures + 1 /\ degraded' = TRUE
RefusedDegraded(r) ==
    /\ degraded /\ limited[r].at \in {"key bucket", "user bucket", "success", "budget"} /\ Refuse(r)
    /\ UNCHANGED <<bucket, successes, budget, degraded, failures>>
StoreRecovers ==
    /\ degraded /\ degraded' = FALSE
    /\ UNCHANGED <<bucket, successes, budget, failures, limited, passed>>

Arrive(r) ==
    /\ limited[r].at = "idle"
    /\ \E k \in Tokens : limited' = [limited EXCEPT ![r] = [at |-> "key bucket", token |-> k]]
    /\ UNCHANGED <<bucket, successes, budget, degraded, failures, passed>>

\* consumeBucket, for the key and then for its user.  A refusal is written back
\* too, with the time it was made.
ConsumeBucket(r) ==
    LET atKey   == limited[r].at = "key bucket"
        scope   == IF atKey THEN limited[r].token ELSE "user"
        allowed == Level(scope) >= 1
        touched == [bucket EXCEPT ![scope] =
                       [tokens |-> Level(scope) - (IF allowed THEN 1 ELSE 0), age |-> 0]]
    IN  /\ limited[r].at \in {"key bucket", "user bucket"}
        /\ \/ /\ StoreAnswers /\ bucket' = touched
              /\ IF allowed THEN Pass(r, scope, IF atKey THEN "user bucket" ELSE "success") ELSE Refuse(r)
           \/ StoreFails /\ Refuse(r) /\ bucket' \in {touched, bucket}
        /\ UNCHANGED <<successes, budget>>

\* A success is counted when the request is admitted, whatever becomes of it.
EnforceSuccessWindow(r) ==
    LET allowed == SuccessCount < SuccessLimit
        added   == IF allowed THEN [successes EXCEPT ![0] = @ + 1] ELSE successes
    IN  /\ limited[r].at = "success"
        /\ \/ /\ StoreAnswers /\ successes' = added
              /\ IF allowed THEN Pass(r, "success", "budget") ELSE Refuse(r)
           \/ StoreFails /\ Refuse(r) /\ successes' \in {added, successes}
        /\ UNCHANGED <<bucket, budget>>

EnforceTokenBudget(r) ==
    LET allowed == budget.count + 1 <= TpmLimit
        counted == IF allowed THEN Charged(1) ELSE budget
    IN  /\ limited[r].at = "budget"
        /\ \/ /\ StoreAnswers /\ budget' = counted
              /\ IF allowed THEN Pass(r, "budget", "serving") ELSE Refuse(r)
           \/ StoreFails /\ Refuse(r) /\ budget' \in {counted, budget}
        /\ UNCHANGED <<bucket, successes>>

\* chargeTokenBudget: the completion's tokens, past the limit if need be; best
\* effort.
ChargeTokenBudget(r) ==
    /\ limited[r].at = "serving" /\ limited' = [limited EXCEPT ![r] = Start]
    /\ \/ StoreAnswers /\ budget' \in {budget, Charged(1)}
       \/ StoreFails /\ budget' \in {budget, Charged(1)}
       \/ degraded /\ UNCHANGED <<budget, degraded, failures>>
    /\ UNCHANGED <<bucket, successes, passed>>

Older(counts) == [age \in Ages |-> IF age = 0 THEN 0 ELSE counts[age - 1]]

Tick ==
    /\ bucket' = [s \in Scopes |->
          IF bucket[s] = NoBucket \/ bucket[s].age = 2 * Window - 1 THEN NoBucket
          ELSE [bucket[s] EXCEPT !.age = @ + 1]]
    /\ successes' = Older(successes)
    /\ budget' = IF budget.left <= 1 THEN NoBudget ELSE [budget EXCEPT !.left = @ - 1]
    /\ passed' = [c \in Checks |-> Older(passed[c])]
    /\ UNCHANGED <<degraded, failures, limited>>

----------------------------------------------------------------------------
LimiterInit ==
    /\ bucket = [s \in Scopes |-> NoBucket]
    /\ successes = [age \in Ages |-> 0] /\ budget = NoBudget
    /\ degraded = FALSE /\ failures = 0
    /\ limited = [r \in Requests |-> Start]
    /\ passed = [c \in Checks |-> [age \in Ages |-> 0]]

LimiterNext ==
    \/ \E r \in Requests :
         \/ Arrive(r) \/ ConsumeBucket(r) \/ EnforceSuccessWindow(r)
         \/ EnforceTokenBudget(r) \/ ChargeTokenBudget(r) \/ RefusedDegraded(r)
    \/ StoreRecovers \/ Tick

LimiterSpec == LimiterInit /\ [][LimiterNext]_limiterVars

----------------------------------------------------------------------------
(* Properties *)

\* ratelimit/index.ts: what may pass a check in the Window ticks from one on.  A
\* bucket that was full gives its capacity and what it refills; a fixed window
\* may end in the middle, so that two of them share the ticks.
Ceiling(check) ==
    CASE check = "success" -> SuccessLimit
      [] check = "budget"  -> 2 * TpmLimit
      [] OTHER -> Capacity(check) + (Window - 1) * (Capacity(check) \div Window)

\* However requests of several keys interleave, and whatever the store refuses,
\* loses or forgets in between, no stretch of a minute lets more through: no
\* bucket refills twice for the same time, no window forgets what it counted,
\* and no failure of the store lets anything through unmetered.
LimitsHold ==
    \A check \in Checks : CountsOf(passed[check]) <= Ceiling(check)

LimiterTypeOK ==
    /\ degraded \in BOOLEAN /\ failures \in 0..MaxFailures
    /\ \A s \in Scopes : bucket[s] = NoBucket
         \/ (bucket[s].tokens \in 0..Capacity(s) /\ bucket[s].age \in 0..(2 * Window - 1))
    /\ budget.count \in Nat /\ budget.left \in 0..Window /\ successes \in [Ages -> Nat]
=============================================================================
