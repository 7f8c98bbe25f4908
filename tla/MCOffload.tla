------------------------------ MODULE MCOffload ------------------------------
(* A cache that has room for one of its models, or for two small ones.      *)
EXTENDS Offload, TLC

CONSTANTS big, small, c1, c2

MCModels == {big, small}
MCSizeOf == big :> 2 @@ small :> 1
MCSymmetry == Permutations(Callers)
=============================================================================
