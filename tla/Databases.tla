------------------------------ MODULE Databases ------------------------------
(***************************************************************************)
(* The database behind the gateway: MongoDB through one connection for     *)
(* each container (db/index.ts, db/mongo.ts), and the store that stands in *)
(* for it in memory (db/memory.ts).                                        *)
(***************************************************************************)
EXTENDS DatabaseConnection, DocumentStore, DocumentQueries

\* A connection is ready when it is handed out (db/index.ts, db/mongo.ts), and
\* the substitute in memory (db/memory.ts) answers single calls as MongoDB does
\* and lets callers see whole transactions only.
DatabaseAgrees == DatabaseIsReady /\ QueriesAgree /\ FinishedCallsOnly
==============================================================================
