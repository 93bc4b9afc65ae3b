------------------------------ MODULE MCPQueue ------------------------------
(* The heap with six entries (three levels). The entries are              *)
(* interchangeable: nothing orders them but their priorities.              *)
EXTENDS PQueue, TLC

ItemSymmetry == Permutations(Items)
=============================================================================
