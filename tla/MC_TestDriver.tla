--------------------------- MODULE MC_TestDriver ---------------------------
(* Model of beagle test invocations over two test plans.  fetch_coverage *)
(* returns 0.0 (the yarn plan without a coverage summary), 78.5 (exactly  *)
(* at the tolerance below 80.0), 78.6 (inside it) or 80.0; the stores     *)
(* start with any manifest a previous beagle could have persisted.        *)
EXTENDS TestDriver, TLC

CONSTANTS a, b, z, r1, r2, MC_Runs

MC_TestPlans == <<a, b>>
\* No targets, plan b, or a word naming no plan: parse_known_args hands
\* every argument it does not know, a mistyped flag included, to run_tests
\* as a target.
MC_TargetChoices == {{}, {b}, {z}}
MC_Coverage == {0, 785, 786, 800}
MC_Symmetry == Permutations(MC_Runs)

\* A single invocation uses one of the two stores, so both start with the
\* same manifest, any one a previous beagle could have persisted.  With two
\* overlapping invocations the stores start empty or with an 80.0%
\* baseline per plan, in the current pickle format.
MC_InitStores ==
    IF Cardinality(Runs) = 1
    THEN {[k \in Stores |-> m] : m \in [legacy : BOOLEAN, cov : [Plans -> {Absent} \cup Coverage]]}
    ELSE [Stores -> [legacy : {FALSE}, cov : [Plans -> {Absent, 800}]]]

MC_Init ==
    /\ store \in MC_InitStores
    /\ pc = [r \in Runs |-> "idle"]
    /\ flags = [r \in Runs |-> [local |-> TRUE, targeted |-> FALSE, upload |-> FALSE,
                                targets |-> {}]]
    /\ idx = [r \in Runs |-> 1]
    /\ manifest = [r \in Runs |-> EmptyManifest]
    /\ pending = [r \in Runs |-> None]
    /\ err = [r \in Runs |-> None]
    /\ firstErr = [r \in Runs |-> None]
    /\ exitCode = [r \in Runs |-> None]
    /\ cleanups = [r \in Runs |-> [p \in Plans |-> 0]]
    /\ prepared = [r \in Runs |-> {}]
    /\ gated = [r \in Runs |-> {}]
    /\ skipped = [r \in Runs |-> {}]
    /\ wrote = [r \in Runs |-> FALSE]

MC_Spec == MC_Init /\ [][Next \/ (Done /\ UNCHANGED vars)]_vars
=============================================================================
