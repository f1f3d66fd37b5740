---------------------------- MODULE Coordination ----------------------------
(***************************************************************************)
(* The coordination store behind buckets, locks, queues and the ledger     *)
(* that is settled later: its commands on MongoDB against Redis            *)
(* (redis/mongo.ts), and its scripts in either language (redis/scripts.ts, *)
(* redis/lua.ts).                                                          *)
(***************************************************************************)
EXTENDS CoordinationStore, ScriptTwins

\* The store's commands in memory and in MongoDB answer as Redis does, and a
\* script does the same in either language (redis/memory.ts, redis/mongo.ts,
\* redis/scripts.ts, redis/lua.ts).
CoordinationAgrees == StoreAgrees /\ TwinsAgree
==============================================================================
