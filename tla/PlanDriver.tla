----------------------------- MODULE PlanDriver -----------------------------
(***************************************************************************)
(* What the driver of a plan collection promises (spec 4.5): invocations   *)
(* come one after another; each walks the plans in registration order,    *)
(* skips a plan a non-empty target list does not name, and takes every    *)
(* other through CREATED -> PREPARING -> EXECUTING -> CLEANING_UP ->       *)
(* SUCCEEDED or FAILED.  PREPARING and EXECUTING may raise; CLEANING_UP   *)
(* runs on every exit path; a plan fails exactly when one of its phases   *)
(* raised, and the driver goes on to no later plan after a failure.       *)
(* A test driver may also skip a selected plan when the run is scoped to   *)
(* changes and none are found, and gates a plan's coverage after its      *)
(* cleanup (4.6), which may fail the plan.  The driver's own steps between *)
(* plans (reading or writing the manifest, services, a signal) may end an  *)
(* invocation, but never in the middle of a plan's lifecycle.             *)
(***************************************************************************)
EXTENDS Naturals, Sequences

CONSTANTS
    Names,          \* the plan names, in registration order
    TargetChoices,  \* the target-name lists an invocation may be given
    ScopeChoices,   \* whether an invocation may be scoped to changed plans
    Gating          \* a coverage gate follows each plan's cleanup

Idx == DOMAIN Names

VARIABLES
    run,       \* "idle", "running" or "done"
    targets,   \* the target names of the current invocation
    scoped,    \* the invocation runs only plans with changes
    st,        \* st[i]: the lifecycle state of plan i in this invocation
    raised     \* the plan being handled raised in PREPARING or EXECUTING

vars == <<run, targets, scoped, st, raised>>

Init ==
    /\ run = "idle"
    /\ targets = {}
    /\ scoped = FALSE
    /\ st = [i \in Idx |-> "created"]
    /\ raised = FALSE

\* Plan i is the one the driver is at: every plan before it is settled.
Current(i) ==
    /\ run = "running"
    /\ st[i] = "created"
    /\ \A j \in Idx : j < i => st[j] \in {"skipped", "succeeded"}

Selected(i) == targets = {} \/ Names[i] \in targets

\* An invocation starts with a fresh set of plans.
Start ==
    /\ run \in {"idle", "done"}
    /\ run' = "running"
    /\ targets' \in TargetChoices
    /\ scoped' \in ScopeChoices
    /\ st' = [i \in Idx |-> "created"]
    /\ raised' = FALSE

\* Not named by the targets, or (scoped) no change found under the plan.
Skip(i) ==
    /\ Current(i) /\ (~Selected(i) \/ scoped)
    /\ st' = [st EXCEPT ![i] = "skipped"]
    /\ UNCHANGED <<run, targets, scoped, raised>>

Prepare(i) ==
    /\ Current(i) /\ Selected(i)
    /\ st' = [st EXCEPT ![i] = "preparing"]
    /\ UNCHANGED <<run, targets, scoped, raised>>

Execute(i) ==
    /\ st[i] = "preparing"
    /\ st' = [st EXCEPT ![i] = "executing"]
    /\ UNCHANGED <<run, targets, scoped, raised>>

\* PREPARING or EXECUTING ends, normally (only EXECUTING) or by raising.
EndPhase(i) ==
    /\ \/ st[i] = "executing" /\ raised' = FALSE
       \/ st[i] \in {"preparing", "executing"} /\ raised' = TRUE
    /\ st' = [st EXCEPT ![i] = "cleaning_up"]
    /\ UNCHANGED <<run, targets, scoped>>

\* A plan's failure propagates out of the driver, which ends at once or
\* after unwinding (End).
Fail(i) ==
    /\ st' = [st EXCEPT ![i] = "failed"]
    /\ run' \in {run, "done"}

\* CLEANING_UP ends: the plan fails if a phase raised or cleanup itself
\* raised; otherwise it succeeds, or its coverage is gated next.
Finish(i) ==
    /\ st[i] = "cleaning_up"
    /\ \/ /\ ~raised
          /\ st' = [st EXCEPT ![i] = IF Gating THEN "gating" ELSE "succeeded"]
          /\ UNCHANGED run
       \/ Fail(i)
    /\ UNCHANGED <<targets, scoped, raised>>

\* The coverage gate passes, or fails the plan.
Gate(i) ==
    /\ st[i] = "gating"
    /\ \/ st' = [st EXCEPT ![i] = "succeeded"] /\ UNCHANGED run
       \/ Fail(i)
    /\ UNCHANGED <<targets, scoped, raised>>

\* The invocation ends after a failure or once every plan is settled.
End ==
    /\ run = "running"
    /\ \/ \E i \in Idx : st[i] = "failed"
       \/ \A i \in Idx : st[i] \in {"skipped", "succeeded"}
    /\ run' = "done"
    /\ UNCHANGED <<targets, scoped, st, raised>>

\* The driver's own step between plans raises and ends the invocation.
Abort ==
    /\ run = "running"
    /\ \A i \in Idx : st[i] \in {"created", "skipped", "succeeded"}
    /\ run' = "done"
    /\ UNCHANGED <<targets, scoped, st, raised>>

Next ==
    \/ Start \/ End \/ Abort
    \/ \E i \in Idx : Skip(i) \/ Prepare(i) \/ Execute(i) \/ EndPhase(i)
                     \/ Finish(i) \/ Gate(i)

Spec == Init /\ [][Next]_vars
=============================================================================
