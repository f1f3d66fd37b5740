--------------------------- MODULE ConsoleSessions ---------------------------
(***************************************************************************)
(* Accounts, sessions and what they may do in the console: the sign-in     *)
(* routes of lib/admin/login.ts, the cookies of lib/admin/session.ts, the  *)
(* guard of lib/admin/guard.ts, and creating and editing users through     *)
(* lib/admin/router.ts and lib/admin/store.ts.                             *)
(*                                                                         *)
(* A session is a signed cookie: its lifetime is in it, and signing out    *)
(* adds a row to session_revocations that a TTL index removes.  Passwords  *)
(* and signatures are taken to do their work; an account is its name, its  *)
(* GitHub identity, its role and whether it is enabled.                    *)
(***************************************************************************)
EXTENDS Integers, FiniteSets

CONSTANTS
    Calls,        \* requests in flight
    MaxSessions,  \* bound: sessions issued
    MaxPatches    \* bound: edits of users

ASSUME SessionAssumption == MaxSessions \in Nat /\ MaxPatches \in Nat

VARIABLES
    account,     \* the users collection
    session,     \* cookies issued: whose, and whether still within its lifetime
    revoked,     \* rows of session_revocations
    signedOut,   \* sessions whose owner has signed out
    oauthState,  \* the oauth_states row a GitHub sign-in started
    claims,      \* callbacks that exchanged their code
    call,        \* per request: the route, its place in it, and what it carries
    witnessed,   \* per request: what was true at some moment of it
    patches

sessionVars == <<account, session, revoked, signedOut, oauthState, claims, call, witnessed, patches>>

Ids == 1..4
Sids == 1..MaxSessions
Names == {"ada", "bob", "cy", "cy-random"}
Profile == [id |-> "github", login |-> "cy"]
NoAccount == [name |-> "", github |-> "", role |-> "none", enabled |-> FALSE]
NoSession == [sub |-> 0, alive |-> FALSE]
Idle == [at |-> "idle", sid |-> 0, id |-> 0, role |-> "none", name |-> "", github |-> "",
         target |-> 0, nextRole |-> "user"]
Unseen == [session |-> FALSE, actor |-> FALSE, member |-> FALSE]

RoleRank(role) == CASE role = "user" -> 0 [] role = "admin" -> 1 [] role = "root" -> 2 [] OTHER -> -1

\* What each request in flight has witnessed to be true since it began: its session
\* in force, its actor enabled in the role it acts in, its target a member.
Watch ==
    witnessed' = [c \in Calls |-> LET k == call'[c] IN
        IF k.at = "idle" THEN Unseen
        ELSE [session |-> witnessed[c].session
                            \/ (k.sid # 0 /\ (k.sid \notin signedOut' \/ ~session'[k.sid].alive)),
              actor   |-> witnessed[c].actor
                            \/ (k.id # 0 /\ account'[k.id].enabled /\ account'[k.id].role = k.role),
              member  |-> witnessed[c].member \/ (k.target # 0 /\ account'[k.target].role = "user")]]

Goes(c, place) == call' = [call EXCEPT ![c].at = place]
Ends(c) == call' = [call EXCEPT ![c] = Idle]
tables == <<account, session, revoked, signedOut, oauthState, claims, patches>>

----------------------------------------------------------------------------
(* Sign-in *)

\* login: one read decides, the password is checked against what it returned.
Login(c) ==
    /\ call[c].at = "idle"
    /\ \E id \in Ids :
         /\ account[id].enabled
         /\ call' = [call EXCEPT ![c] = [Idle EXCEPT !.at = "issue", !.id = id]]
    /\ UNCHANGED tables /\ Watch

\* register and createUser's first look at the name.
Register(c) ==
    /\ call[c].at = "idle"
    /\ \E name \in {"bob", "cy"} :
         /\ \A id \in Ids : account[id].name # name
         /\ call' = [call EXCEPT ![c] = [Idle EXCEPT !.at = "insert", !.name = name]]
    /\ UNCHANGED tables /\ Watch

\* githubStart stores the state, once per attempt.
GithubStart ==
    /\ oauthState = "none" /\ oauthState' = "open"
    /\ UNCHANGED <<account, session, revoked, signedOut, claims, call, patches>> /\ Watch

\* A slip: the state is marked used but a used one is taken too.
BadClaimState(c) ==
    /\ call[c].at = "idle" /\ oauthState # "none"
    /\ oauthState' = "consumed" /\ claims' = claims + 1
    /\ call' = [call EXCEPT ![c] = [Idle EXCEPT !.at = "profile", !.github = Profile.id]]
    /\ UNCHANGED <<account, session, revoked, signedOut, patches>> /\ Watch

\* githubCallback claims it in one update, its expiry in the predicate.
ClaimState(c) ==
    /\ call[c].at = "idle" /\ oauthState = "open"
    /\ oauthState' = "consumed" /\ claims' = claims + 1
    /\ call' = [call EXCEPT ![c] = [Idle EXCEPT !.at = "profile", !.github = Profile.id]]
    /\ UNCHANGED <<account, session, revoked, signedOut, patches>> /\ Watch

\* Another attempt, and one left unused until it expires.
StateExpires ==
    /\ oauthState # "none" /\ oauthState' = "none" /\ claims' = 0
    /\ UNCHANGED <<account, session, revoked, signedOut, call, patches>> /\ Watch

\* Linked by the immutable id; a taken login gets a random ending.
FindProfile(c) ==
    /\ call[c].at = "profile"
    /\ \/ \E id \in Ids :
            /\ account[id].github = Profile.id
            /\ IF account[id].enabled
               THEN call' = [call EXCEPT ![c].at = "issue", ![c].id = id]
               ELSE Ends(c)
       \/ /\ \A id \in Ids : account[id].github # Profile.id
          /\ call' = [call EXCEPT ![c].at = "insert", ![c].name =
                 IF \E id \in Ids : account[id].name = Profile.login THEN "cy-random" ELSE Profile.login]
    /\ UNCHANGED tables /\ Watch

\* A slip: the transaction inserts without looking, and no index refuses.
BadIsUnique(c) == TRUE

\* createUser: the transaction looks again, and the unique indexes decide.
IsUnique(c) ==
    \A id \in Ids : /\ account[id].name # call[c].name
                    /\ account[id].github = "" \/ account[id].github # call[c].github

CreateUser(c) ==
    /\ call[c].at = "insert"
    /\ \/ /\ IsUnique(c)
          /\ \E id \in Ids :
               /\ account[id] = NoAccount
               /\ account' = [account EXCEPT ![id] =
                      [name |-> call[c].name, github |-> call[c].github, role |-> "user", enabled |-> TRUE]]
               /\ call' = [call EXCEPT ![c].at = "issue", ![c].id = id]
       \/ Ends(c) /\ UNCHANGED account
    /\ UNCHANGED <<session, revoked, signedOut, oauthState, claims, patches>> /\ Watch

\* createSession: nothing is stored, the cookie is the session.
CreateSession(c) ==
    /\ call[c].at = "issue"
    /\ \E sid \in Sids :
         /\ session[sid] = NoSession
         /\ session' = [session EXCEPT ![sid] = [sub |-> call[c].id, alive |-> TRUE]]
    /\ Ends(c)
    /\ UNCHANGED <<account, revoked, signedOut, oauthState, claims, patches>> /\ Watch

----------------------------------------------------------------------------
(* readSession and signing out *)

\* The signature and the lifetime in the cookie.
VerifyToken(c) ==
    /\ call[c].at = "idle"
    /\ \E sid \in Sids, route \in {"logout", "patch"} :
         /\ session[sid].alive
         /\ call' = [call EXCEPT ![c] = [Idle EXCEPT !.at = route, !.sid = sid]]
    /\ UNCHANGED tables /\ Watch

\* Then the revocations, after an await.
FindRevocation(c) ==
    /\ call[c].at \in {"logout", "patch"}
    /\ IF call[c].sid \in revoked THEN Ends(c)
       ELSE IF call[c].at = "logout" THEN Goes(c, "revoke")
       ELSE call' = [call EXCEPT ![c].at = "actor", ![c].id = session[call[c].sid].sub]
    /\ UNCHANGED tables /\ Watch

RevokeSession(c) ==
    /\ call[c].at = "revoke"
    /\ revoked' = revoked \cup {call[c].sid} /\ signedOut' = signedOut \cup {call[c].sid}
    /\ Ends(c)
    /\ UNCHANGED <<account, session, oauthState, claims, patches>> /\ Watch

SessionEnds(sid) ==
    /\ session[sid].alive /\ session' = [session EXCEPT ![sid].alive = FALSE]
    /\ UNCHANGED <<account, revoked, signedOut, oauthState, claims, call, patches>> /\ Watch

\* A slip: revocations are purged before the session they revoke has ended.
BadPurgeDue(sid) == TRUE

\* The TTL index removes a row at the date it holds: the session's own end.
PurgeDue(sid) == ~session[sid].alive

PurgeRevocation(sid) ==
    /\ sid \in revoked /\ PurgeDue(sid) /\ revoked' = revoked \ {sid}
    /\ UNCHANGED <<account, session, signedOut, oauthState, claims, call, patches>> /\ Watch

----------------------------------------------------------------------------
(* handleAdminRequest: PATCH users/<id> *)

\* No session: an API key's owner, as KeyAccess admits it.
AuthenticateByKey(c) ==
    /\ call[c].at = "idle"
    /\ \E id \in Ids :
         /\ account[id].enabled
         /\ call' = [call EXCEPT ![c] = [Idle EXCEPT !.at = "actor", !.id = id]]
    /\ UNCHANGED tables /\ Watch

\* A slip: the role is read, but a disabled or demoted row passes.
BadRequireAdmin(c) ==
    /\ call[c].at = "actor"
    /\ call' = [call EXCEPT ![c].at = "check", ![c].role = account[call[c].id].role]
    /\ UNCHANGED tables /\ Watch

\* requireAdmin acts in the role the row has now, not in the cookie's.
RequireAdmin(c) ==
    LET actor == account[call[c].id] IN
    /\ call[c].at = "actor"
    /\ IF actor.enabled /\ RoleRank(actor.role) >= RoleRank("admin")
       THEN call' = [call EXCEPT ![c].at = "check", ![c].role = actor.role]
       ELSE Ends(c)
    /\ UNCHANGED tables /\ Watch

\* "Administrators manage members; only root can create or change authorities."
AssertCanManageUser(c) ==
    /\ call[c].at = "check"
    /\ \E target \in Ids, nextRole \in {"user", "admin"} :
         /\ account[target] # NoAccount
         /\ IF call[c].role = "root" \/ (account[target].role = "user" /\ nextRole = "user")
            THEN call' = [call EXCEPT ![c].at = "write", ![c].target = target, ![c].nextRole = nextRole]
            ELSE Ends(c)
    /\ UNCHANGED tables /\ Watch

\* updateUser writes by id: what the checks saw is not in its filter.
UpdateUser(c) ==
    /\ call[c].at = "write"
    /\ patches < MaxPatches /\ patches' = patches + 1
    /\ \E enabled \in BOOLEAN :
         account' = [account EXCEPT ![call[c].target].role = call[c].nextRole,
                                    ![call[c].target].enabled = enabled]
    /\ Ends(c)
    /\ UNCHANGED <<session, revoked, signedOut, oauthState, claims>> /\ Watch

----------------------------------------------------------------------------
SessionInit ==
    /\ account = [id \in Ids |->
          CASE id = 1 -> [name |-> "ada", github |-> "", role |-> "root", enabled |-> TRUE]
            [] id = 2 -> [name |-> "bob", github |-> "", role |-> "admin", enabled |-> TRUE]
            [] OTHER -> NoAccount]
    /\ session = [sid \in Sids |-> NoSession]
    /\ revoked = {} /\ signedOut = {} /\ oauthState = "none" /\ claims = 0
    /\ call = [c \in Calls |-> Idle] /\ patches = 0
    /\ witnessed = [c \in Calls |-> Unseen]

SessionNext ==
    \/ \E c \in Calls :
         \/ Login(c) \/ Register(c) \/ ClaimState(c) \/ FindProfile(c) \/ CreateUser(c)
         \/ CreateSession(c) \/ VerifyToken(c) \/ FindRevocation(c) \/ RevokeSession(c)
         \/ AuthenticateByKey(c) \/ RequireAdmin(c) \/ AssertCanManageUser(c) \/ UpdateUser(c)
    \/ GithubStart \/ StateExpires
    \/ \E sid \in Sids : SessionEnds(sid) \/ PurgeRevocation(sid)

SessionSpec == SessionInit /\ [][SessionNext]_sessionVars

----------------------------------------------------------------------------
(* Properties *)

\* admin/guard.ts, admin/session.ts: a request about to write does so on a
\* session that was not signed out at some moment of it (or reached its end
\* while it ran), for an actor who was enabled and an administrator then, and
\* unless that was root, on an account that was a member's: neither a stale role
\* in the cookie nor a purged revocation lets a request through.
WritesAreAuthorised ==
    \A c \in Calls : call[c].at = "write" =>
        /\ call[c].sid # 0 => witnessed[c].session
        /\ witnessed[c].actor /\ RoleRank(call[c].role) >= 1
        /\ call[c].role = "root" \/ (witnessed[c].member /\ call[c].nextRole = "user")

\* admin/store.ts, db/indexes.ts: a name and a GitHub identity belong to one
\* account, however sign-ups interleave, and a sign-in attempt is exchanged
\* for one session only.
SignInsAreUnique ==
    /\ claims <= 1
    /\ \A i, j \in Ids : i # j /\ account[i] # NoAccount /\ account[j] # NoAccount =>
          /\ account[i].name # account[j].name
          /\ account[i].github = "" \/ account[i].github # account[j].github

ConsoleIsGuarded == WritesAreAuthorised /\ SignInsAreUnique

SessionTypeOK ==
    /\ account \in [Ids -> [name : Names \cup {""}, github : {"", Profile.id},
                            role : {"none", "user", "admin", "root"}, enabled : BOOLEAN]]
    /\ session \in [Sids -> [sub : 0..4, alive : BOOLEAN]]
    /\ revoked \subseteq signedOut /\ signedOut \subseteq Sids
    /\ oauthState \in {"none", "open", "consumed"} /\ patches \in 0..MaxPatches
=============================================================================
