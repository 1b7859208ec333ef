-------------------------- MODULE MCAgentUpgrades --------------------------
(* Instances of AgentUpgrades for the model checker. *)
EXTENDS AgentUpgrades, TLC

\* One request, and two requests for different builds.
OneRollout == <<1>>
TwoRollouts == <<1, 2>>

SparkSymmetry == Permutations(Sparks)
=============================================================================
