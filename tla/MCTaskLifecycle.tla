--------------------------- MODULE MCTaskLifecycle ---------------------------
(* A small instance of TaskLifecycle in two scenes.  "overlap": one job, two   *)
(* channels, two cron runs at a time, faults.  "alone": two jobs on one        *)
(* channel, one cron run at a time, no fault.                                  *)
EXTENDS TaskLifecycle, TLC

CONSTANTS r1, r2, c1, c2, p1, p2

VARIABLE scene

sceneVars == <<scene, vars>>
Alone == scene = "alone"

\* What a scene leaves out is over before it begins: in "overlap" the second
\* submission failed at its first step, in "alone" the second channel was passed
\* over and the faults are spent.
SceneInit ==
    /\ scene \in {"overlap", "alone"}
    /\ LET idle == IF Alone THEN {} ELSE {r2}
           faultless == IF Alone THEN {c2} ELSE {}
       IN  /\ pc = [r \in Requests |-> IF r \in idle THEN "failed" ELSE "new"]
           /\ struck = idle
           /\ tried = [r \in Requests |-> faultless]
           /\ gone = faultless
           /\ faults = IF Alone THEN MaxFaults ELSE 0
    /\ reserved = {} /\ linked = {} /\ line = <<>>
    /\ hold = [r \in Requests |-> [phase |-> "none", charge |-> 0]]
    /\ accepted = [r \in Requests |-> {}]
    /\ job = [r \in Requests |-> "none"]
    /\ rows = [r \in Requests |-> {}]
    /\ status = [r \in Requests |-> "none"]
    /\ polls = [r \in Requests |-> 0]
    /\ age = [r \in Requests |-> IF Alone \/ r = r1 THEN "young" ELSE "old"]
    /\ poller = [p \in Pollers |-> Resting]

\* Channels and invocations are interchangeable: name them in the order they are
\* used.
NamedInOrder ==
    /\ tried'[r1] # {c2}
    /\ poller[p1] = Resting /\ poller[p2] = Resting => poller'[p2] = Resting

SceneNext ==
    /\ Next
    /\ IF Alone THEN poller'[p2] = poller[p2] ELSE NamedInOrder
    /\ UNCHANGED scene

SceneSpec ==
    /\ SceneInit /\ [][SceneNext]_sceneVars
    /\ WF_vars(Alone /\ PollStep(p1))
    /\ \A r \in Requests :
          /\ WF_vars(Alone /\ SubmitStep(r))
          /\ WF_vars(Alone /\ FallsDue(r)) /\ WF_vars(Alone /\ GrowsOld(r))

\* With one invocation at a time a final status stays and no provider is asked
\* again about a task that has ended (pollDueTasks; overlapping invocations
\* write late answers over it).
EndedTasksRest ==
    [][Alone =>
          /\ \A r \in Requests : status[r] \in Terminal => status'[r] = status[r]
          /\ \A p \in Pollers : \A e \in poller[p].batch :
                Ask(p, e) => status[e.task] \notin Terminal]_vars

\* The liveness of a task, where nothing fails.
TasksSettleAlone == Alone => TasksSettle
=============================================================================
