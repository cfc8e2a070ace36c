------------------------------- MODULE MCHeap -------------------------------
(***************************************************************************)
(* The kinds of scripts for WrenHeap: those features together that refer to *)
(* each other's objects, and enough objects for one use of each.            *)
(***************************************************************************)
EXTENDS WrenHeap

HeapScripts ==
  {[uses |-> {"class", "closure"}, objects |-> 8],
   [uses |-> {"closure", "fiber"}, objects |-> 7],
   [uses |-> {"container", "handle"}, objects |-> 6],
   [uses |-> {"class", "handle"}, objects |-> 7],
   [uses |-> {"range"}, objects |-> 8],
   [uses |-> {"import"}, objects |-> 10],
   [uses |-> {"interpret", "handle"}, objects |-> 10]}

=============================================================================
