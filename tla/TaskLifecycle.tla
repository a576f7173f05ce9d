---------------------------- MODULE TaskLifecycle ----------------------------
(***************************************************************************)
(* What the task subsystem promises about the status of a task, whoever    *)
(* works on it: it is created queued (by Resolve) or ready (by a mirror),  *)
(* then only follows the edges of TaskStatus, and may be forgotten.  The   *)
(* file lags behind by whole saves: it holds the statuses as they were at  *)
(* some earlier moment, and a restart goes back exactly to that moment.    *)
(***************************************************************************)
EXTENDS TaskStatus

CONSTANT Task

VARIABLES status,  \* what GET /api/v1/tasks/{id} reports
          saved    \* what the tasks file says

lifecycleVars == <<status, saved>>

Unborn == [t \in Task |-> "absent"]

Init == status = Unborn /\ saved = Unborn

Become(t, s) == status' = [status EXCEPT ![t] = s]

Create(t) == status[t] = "absent" /\ \E s \in {"queued", "ready"} : Become(t, s)

Follow(t) ==
  status[t] # "absent" /\ \E s \in transitions[status[t]] : Become(t, s)

Forget(t) == status[t] # "absent" /\ Become(t, "absent")

\* Every change is saved at once or, when saving fails, not at all; a later
\* save catches up.
Change ==
  /\ (\E t \in Task : Create(t) \/ Follow(t) \/ Forget(t)) \/ UNCHANGED status
  /\ saved' = saved \/ saved' = status'

Restart == status' = saved /\ UNCHANGED saved

Next == Change \/ Restart

Spec == Init /\ [][Next]_lifecycleVars
=============================================================================
