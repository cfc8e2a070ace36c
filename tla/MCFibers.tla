------------------------------ MODULE MCFibers ------------------------------
(***************************************************************************)
(* Model values for WrenFibers.  The fibers are interchangeable, so the     *)
(* runs that check no liveness use their permutations as a symmetry.        *)
(***************************************************************************)
EXTENDS WrenFibers, TLC

FiberSymmetry == Permutations(Fiber)

=============================================================================
