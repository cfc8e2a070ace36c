----------------------------- MODULE MCModules -----------------------------
(***************************************************************************)
(* Model values for WrenModules.                                            *)
(***************************************************************************)
EXTENDS WrenModules, TLC

ModuleSymmetry == Permutations(Module)

=============================================================================
