-------------------------- MODULE MCCapabilityTool --------------------------
(* Model-checking instances of CapabilityTool.                              *)
EXTENDS CapabilityTool, TLC

ToolSymmetry == Permutations(Gated) \cup Permutations(Tasks \ Gated)

=============================================================================
