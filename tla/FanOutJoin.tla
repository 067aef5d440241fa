----------------------------- MODULE FanOutJoin -----------------------------
(***************************************************************************)
(* What code generation promises its caller (spec 4.4): a set of tasks is *)
(* run, each at most once; the caller returns only when no task is still  *)
(* running; it returns normally only if every task succeeded, and when it  *)
(* raises, the error is that of a failed task or the caller's own.  Which *)
(* tasks run, in what order and how many at a time is left open.           *)
(***************************************************************************)
CONSTANTS
    AllTasks,   \* every task there could be
    None,       \* no result yet
    OwnError    \* an error of the caller itself, not of a task

VARIABLES
    tasks,      \* the tasks to run
    status,     \* status[t]: "idle", "running", "ok" or "failed"
    result      \* None, "ok", a failed task (its error), or OwnError

vars == <<tasks, status, result>>

Init ==
    /\ tasks \in SUBSET AllTasks
    /\ status = [t \in AllTasks |-> "idle"]
    /\ result = None

\* A task starts, at most once, while the caller has not returned.
Start(t) ==
    /\ result = None
    /\ t \in tasks
    /\ status[t] = "idle"
    /\ status' = [status EXCEPT ![t] = "running"]
    /\ UNCHANGED <<tasks, result>>

\* A running task ends with success or failure.
Finish(t) ==
    /\ status[t] = "running"
    /\ status' \in {[status EXCEPT ![t] = s] : s \in {"ok", "failed"}}
    /\ UNCHANGED <<tasks, result>>

\* The caller returns once no task is running: normally if every task
\* succeeded, or raising the error of a failed task, or its own.
Return ==
    /\ result = None
    /\ \A t \in AllTasks : status[t] # "running"
    /\ \/ /\ \A t \in tasks : status[t] = "ok"
          /\ result' = "ok"
       \/ \E t \in AllTasks : status[t] = "failed" /\ result' = t
       \/ result' = OwnError
    /\ UNCHANGED <<tasks, status>>

Next ==
    \/ \E t \in AllTasks : Start(t) \/ Finish(t)
    \/ Return

Spec == Init /\ [][Next]_vars

\* The caller eventually returns or raises.
Terminates == <>(result # None)
=============================================================================
