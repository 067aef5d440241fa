--------------------------- MODULE MC_GoWorkspace ---------------------------
(* Instantiates GoWorkspace for TLC: two module directories, two module   *)
(* identities, and the go.work files each run considers; and composes it  *)
(* with the Go test plan (GoTestPlan) built on the modules it discovers.  *)
EXTENDS GoWorkspace

CONSTANTS p1, p2, m1, m2, NoTotal

MC_Paths == {p1, p2}
MC_Idents == {m1, m2}

\* go.work files of the spec's format.
MC_WellFormedWorks == WellFormedWorks

\* Every go.work of up to three lines, of the format or not.
MC_AnyWorks == AnyWorks

\* GolangWorkspaceTestPlan.__init__ keeps what workspace_modules returns;
\* every go test passes and every profile's total is 40.
Plan == INSTANCE GoTestPlan
            WITH NameOf <- (m1 :> "n1") @@ (m2 :> "n2"), ModuleLists <- {},
                 Pcts <- {40}, modules <- workspace_modules(work, gomod).modules,
                 passed <- [p \in Paths |-> TRUE], cover <- [p \in Paths |-> 40]

\* Spec 4.3, 4.6 and 6: building the Go test plan raises GoWorkspaceException
\* (a workspace structure failure) unless go.work is of the spec's format;
\* a plan that is built then ends with a failed command, a missing coverage
\* total, or the coverage it hands to the gate, and with no other error.
GoPlanFollowsSpec ==
    \/ workspace_modules(work, gomod).error
    \/ /\ work # Absent /\ WellFormedWork(work)
       /\ Plan!PlanOutcome.raised
              \in {"none", "CommandException", "TestException"}
=============================================================================
