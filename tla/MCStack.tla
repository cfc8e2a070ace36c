------------------------------ MODULE MCStack ------------------------------
(***************************************************************************)
(* Model values for WrenStack.  The upvalues are interchangeable.           *)
(***************************************************************************)
EXTENDS WrenStack, TLC

StackSymmetry == Permutations(Upvalue)

=============================================================================
