----------------------------- MODULE MCUsageLog -----------------------------
(* Small instances of UsageLog: two requests of one user, a clock that may   *)
(* cross into the next month, and two scenes.  "overlap": two flushes at a   *)
(* time and two faults; "alone": one flush at a time and one fault.          *)
EXTENDS UsageLog, TLC

CONSTANTS u1, r1, r2, f1, f2, c1

OneUser == r1 :> u1 @@ r2 :> u1
TwoMonths == 0 :> 1 @@ 1 :> 2

VARIABLE scene

Alone == scene = "alone"

SceneInit == scene \in {"overlap", "alone"} /\ Init

\* Requests and flushes are interchangeable: name them in the order they begin.
NamedInOrder ==
    /\ caller[r1].pc = "todo" => caller'[r2].pc = "todo"
    /\ flusher[f1] = Idle /\ flusher[f2] = Idle => flusher'[f2] = Idle

\* One request that may be aborted is enough: the second one succeeds or fails.
SecondIsPlain ==
    caller[r2].pc = "todo" => caller'[r2].row.ok \/ caller'[r2].row.channel = NoChannel

SceneNext ==
    /\ Next
    /\ NamedInOrder /\ SecondIsPlain
    /\ Alone => flusher'[f2] = Idle /\ faults' < MaxFaults
    /\ UNCHANGED scene

SceneSpec ==
    /\ SceneInit /\ [][SceneNext]_<<scene, vars>>
    /\ WF_vars(Alone /\ FlusherStep(f1))
    /\ WF_vars(Alone /\ DeadLockExpires)

\* The liveness of the log, where one invocation runs at a time.
UsageSettlesAlone == Alone => UsageSettles
=============================================================================
