---------------------------- MODULE MCAgentQueue ----------------------------
(* The orders of one Spark for TLC: orders that meet each other. *)
EXTENDS AgentQueue

Order(kind, ordinal, target) == [kind |-> kind, intent |-> ordinal, target |-> target]

\* A service is started, stopped by a newer intent and started again.
RestartPlan == <<Order("start", 1, "a"), Order("stop", 2, "a"), Order("start", 2, "b")>>

\* A job, the Stop of a newer profile that covers it, and that profile's transfer.
JobPlan == <<Order("job", 1, "a"), Order("stop", 2, "a"), Order("transfer", 2, "b")>>

\* A build, its own cleanup and an upgrade.
BuildPlan == <<Order("build", 0, "a"), Order("build-cleanup", 0, "a"), Order("upgrade", 0, "")>>

AllPlans == {RestartPlan, JobPlan, BuildPlan}
=============================================================================
