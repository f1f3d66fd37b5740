------------------------------ MODULE KeyAccess ------------------------------
(***************************************************************************)
(* Who gets in with an API key: lib/auth/authenticate.ts with the console  *)
(* writes of admin/store.ts and the expireTokens cron of cron/jobs.ts, for *)
(* one token of one user.  A key is named by its generation: a rotation    *)
(* replaces prefix, secret and digest together, so the identity cache,     *)
(* keyed by prefix, has an entry per generation.                           *)
(***************************************************************************)
EXTENDS Integers

CONSTANTS
    Callers,     \* requests being authenticated
    MaxRotations,\* bound: rotations
    MaxWrites    \* bound: writes of the console and the cron

ASSUME AccessAssumption == MaxRotations \in Nat /\ MaxWrites \in Nat

VARIABLES
    token,   \* the tokens row: status, key generation, and expiry
    owner,   \* the users row's status
    late,    \* the moment a token's expiry "soon" stands for has passed
    entry,   \* K.token(prefix): the cached identity per key generation
    caller,  \* per caller: the key it presents and where authenticate is
    toDrop,  \* cache entries a console write has yet to invalidate
    sweep,   \* expireTokens: the key of the expired row it read, or NoSweep
    writes,  \* writes so far
    lived    \* per caller: when in its call its key and its owner were good

accessVars == <<token, owner, late, entry, caller, toDrop, sweep, writes, lived>>

Keys == 0..MaxRotations
NoEntry == "none"
NoSweep == -1
Expired(expires, isLate) == expires = "soon" /\ isLate
Good(t, k, isLate) == t.status = "enabled" /\ t.key = k /\ ~Expired(t.expires, isLate)

\* Every write of a row is seen by the calls in progress.
Watch ==
    lived' = [r \in Callers |->
        IF caller'[r].at = "idle" THEN [key |-> FALSE, owner |-> FALSE]
        ELSE [key   |-> lived[r].key \/ Good(token', caller'[r].key, late'),
              owner |-> lived[r].owner \/ owner' = "enabled"]]

Moves(r, place) == caller' = [caller EXCEPT ![r].at = place]
Rejected(r) == caller' = [caller EXCEPT ![r] = [at |-> "idle", key |-> 0]]
rows == <<token, owner, late, toDrop, sweep, writes>>

----------------------------------------------------------------------------
(* authenticate *)

\* A key that is well formed; one that is not never reaches the cache.
Present(r) ==
    /\ caller[r].at = "idle"
    /\ \E k \in Keys : caller' = [caller EXCEPT ![r] = [at |-> "lookup", key |-> k]]
    /\ UNCHANGED <<rows, entry>> /\ Watch

\* loadIdentity: a cached refusal or an unexpired identity answers.
LookUp(r) ==
    LET cached == entry[caller[r].key] IN
    /\ caller[r].at = "lookup"
    /\ \/ cached = "miss" /\ Rejected(r)
       \/ cached \in {"never", "soon"} /\ ~Expired(cached, late) /\ Moves(r, "recheck")
       \/ (cached = NoEntry \/ Expired(cached, late)) /\ Moves(r, "token")
    /\ UNCHANGED <<rows, entry>> /\ Watch

\* The row, then its owner's; only what is good is cached, for the shorter of
\* the cache's TTL and the rest of the token's life.
ReadToken(r) ==
    /\ caller[r].at = "token"
    /\ Moves(r, IF Good(token, caller[r].key, late)
                THEN IF token.expires = "soon" THEN "owner soon" ELSE "owner never"
                ELSE "refuse")
    /\ UNCHANGED <<rows, entry>> /\ Watch
ReadOwner(r) ==
    /\ caller[r].at \in {"owner soon", "owner never"}
    /\ Moves(r, IF owner # "enabled" THEN "refuse"
                ELSE IF caller[r].at = "owner soon" THEN "fill soon" ELSE "fill never")
    /\ UNCHANGED <<rows, entry>> /\ Watch
Fill(r) ==
    /\ caller[r].at \in {"fill soon", "fill never"}
    /\ entry' = [entry EXCEPT ![caller[r].key] =
          IF caller[r].at = "fill soon" THEN "soon" ELSE "never"]
    /\ Moves(r, "recheck") /\ UNCHANGED rows /\ Watch
FillMiss(r) ==
    /\ caller[r].at = "refuse"
    /\ entry' = [entry EXCEPT ![caller[r].key] = "miss"]
    /\ Rejected(r) /\ UNCHANGED rows /\ Watch

\* A slip: the expiry is not looked at again.
BadStillGood(r) == token.status = "enabled" /\ token.key = caller[r].key

\* "Cached data is a lookup hint, never a revocation/authority decision."  The
\* two rows are read side by side, in either order.
StillGood(r) == Good(token, caller[r].key, late)

RecheckToken(r) ==
    /\ \/ caller[r].at = "recheck" /\ Moves(r, IF StillGood(r) THEN "token good" ELSE "bad")
       \/ caller[r].at = "owner good" /\ IF StillGood(r) THEN Moves(r, "admitted") ELSE Rejected(r)
    /\ UNCHANGED <<rows, entry>> /\ Watch
RecheckOwner(r) ==
    /\ \/ caller[r].at = "recheck" /\ Moves(r, IF owner = "enabled" THEN "owner good" ELSE "bad")
       \/ /\ caller[r].at = "token good"
          /\ IF owner = "enabled" THEN Moves(r, "admitted") ELSE Rejected(r)
    /\ UNCHANGED <<rows, entry>> /\ Watch

\* Rejected after the other read, or answered and gone.
Leave(r) ==
    /\ caller[r].at \in {"bad", "admitted"} /\ Rejected(r)
    /\ UNCHANGED <<rows, entry>> /\ Watch

----------------------------------------------------------------------------
(* Console writes, each followed by its invalidations *)

Write == writes < MaxWrites /\ writes' = writes + 1

\* updateToken and deleteToken.
UpdateToken ==
    /\ Write
    /\ \E status \in {"enabled", "disabled", "gone"}, expires \in {"never", "soon"} :
         /\ token.status # "gone"
         /\ expires = "soon" => ~late
         /\ token' = [token EXCEPT !.status = status, !.expires = expires]
    /\ toDrop' = toDrop \cup {token.key}
    /\ UNCHANGED <<owner, late, entry, caller, sweep>> /\ Watch

\* rotateToken: same row, new prefix and digest; both prefixes are invalidated.
RotateToken ==
    /\ Write /\ token.key < MaxRotations /\ token.status # "gone"
    /\ token' = [token EXCEPT !.key = @ + 1]
    /\ toDrop' = toDrop \cup {token.key, token.key + 1}
    /\ UNCHANGED <<owner, late, entry, caller, sweep>> /\ Watch

\* updateUser reads the owner's keys after its write.
UpdateUser ==
    /\ Write
    /\ owner' = IF owner = "enabled" THEN "disabled" ELSE "enabled"
    /\ toDrop' = toDrop \cup {token.key}
    /\ UNCHANGED <<token, late, entry, caller, sweep>> /\ Watch

Invalidate ==
    \E k \in toDrop :
        /\ entry' = [entry EXCEPT ![k] = NoEntry] /\ toDrop' = toDrop \ {k}
        /\ UNCHANGED <<token, owner, late, caller, sweep, writes>> /\ Watch

----------------------------------------------------------------------------
(* expireTokens and time *)

\* Its clock is read before its rows; what it then disables it does not read again.
SweepReads ==
    /\ sweep = NoSweep
    /\ token.status = "enabled" /\ Expired(token.expires, late)
    /\ sweep' = token.key
    /\ UNCHANGED <<token, owner, late, entry, caller, toDrop, writes>> /\ Watch
SweepDisables ==
    /\ sweep # NoSweep /\ sweep' = NoSweep
    /\ token' = IF token.status = "gone" THEN token ELSE [token EXCEPT !.status = "disabled"]
    /\ toDrop' = toDrop \cup {sweep}
    /\ UNCHANGED <<owner, late, entry, caller, writes>> /\ Watch

DeadlinePasses ==
    /\ ~late /\ late' = TRUE
    /\ UNCHANGED <<token, owner, entry, caller, toDrop, sweep, writes>> /\ Watch
EntryExpires(k) ==
    /\ entry[k] # NoEntry /\ entry' = [entry EXCEPT ![k] = NoEntry]
    /\ UNCHANGED <<rows, caller>> /\ Watch

----------------------------------------------------------------------------
AccessInit ==
    /\ token = [status |-> "enabled", key |-> 0, expires |-> "soon"]
    /\ owner = "enabled" /\ late = FALSE
    /\ entry = [k \in Keys |-> NoEntry]
    /\ caller = [r \in Callers |-> [at |-> "idle", key |-> 0]]
    /\ toDrop = {} /\ sweep = NoSweep /\ writes = 0
    /\ lived = [r \in Callers |-> [key |-> FALSE, owner |-> FALSE]]

CallStep(r) ==
    \/ LookUp(r) \/ ReadToken(r) \/ ReadOwner(r) \/ Fill(r) \/ FillMiss(r)
    \/ RecheckToken(r) \/ RecheckOwner(r) \/ Leave(r)

AccessNext ==
    \/ \E r \in Callers : Present(r) \/ CallStep(r)
    \/ UpdateToken \/ RotateToken \/ UpdateUser \/ Invalidate
    \/ SweepReads \/ SweepDisables \/ DeadlinePasses
    \/ \E k \in Keys : EntryExpires(k)

\* Calls end, console writes invalidate, and an entry is dropped when its time
\* is over, however often it has been filled again.
AccessFairness ==
    /\ \A r \in Callers : WF_accessVars(CallStep(r))
    /\ WF_accessVars(Invalidate) /\ WF_accessVars(SweepDisables)
    /\ \A k \in Keys : SF_accessVars(EntryExpires(k))

AccessSpec == AccessInit /\ [][AccessNext]_accessVars /\ AccessFairness

----------------------------------------------------------------------------
(* Properties *)

AccessTypeOK ==
    /\ token \in [status : {"enabled", "disabled", "gone"}, key : Keys, expires : {"never", "soon"}]
    /\ owner \in {"enabled", "disabled"} /\ late \in BOOLEAN
    /\ entry \in [Keys -> {NoEntry, "miss", "never", "soon"}]
    /\ caller \in [Callers -> [key : Keys, at : {"idle", "lookup", "token", "owner soon",
          "owner never", "refuse", "fill soon", "fill never", "recheck", "token good",
          "owner good", "bad", "admitted"}]]
    /\ toDrop \subseteq Keys /\ sweep \in Keys \cup {NoSweep}
    /\ writes \in 0..MaxWrites
    /\ lived \in [Callers -> [key : BOOLEAN, owner : BOOLEAN]]

\* auth/authenticate.ts: a key admitted was enabled, current and unexpired at
\* some moment of its call, and so was its owner: an identity a slow reader put
\* back into the cache after a disable, a rotation or an expiry admits nobody.
AdmittedWasGood ==
    \A r \in Callers : caller[r].at = "admitted" => lived[r].key /\ lived[r].owner

\* A key that stays good is not refused for ever: a refusal cached before the
\* key was enabled again, or filled by a slow reader after the invalidation,
\* gives way.
GoodKeysAreTaken ==
    <>[](Good(token, token.key, late) /\ owner = "enabled")
        => <>[](entry[token.key] # "miss")

\* cron/jobs.ts: "Disables tokens whose expiry has passed."
\* It does not hold: see the README, section 6.
OnlyExpiredAreSwept ==
    [][sweep # NoSweep /\ sweep' = NoSweep /\ token.status = "enabled"
          => Expired(token.expires, late)]_accessVars
=============================================================================
