------------------------------- MODULE MCMap --------------------------------
(***************************************************************************)
(* A small table for WrenMap: capacities 4 and 8 take the place of 16 and   *)
(* 32.  Two keys share a hash, and the other ones follow at its heels or    *)
(* wrap around the end of the small table.                                  *)
(***************************************************************************)
EXTENDS WrenMap, TLC

CONSTANTS k1, k2, k3, k4

MCHash == k1 :> 2 @@ k2 :> 2 @@ k3 :> 3 @@ k4 :> 7

=============================================================================
