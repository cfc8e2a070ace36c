------------------------------ MODULE WrenDict ------------------------------
(***************************************************************************)
(* What a Map promises to a script: each key has at most one value, setting *)
(* a key replaces its value, and the other keys are left alone.  The values *)
(* a key has are a set, empty or a singleton, so that a table which holds a *)
(* key twice cannot pass for a map.                                         *)
(***************************************************************************)
CONSTANTS Key, Value

VARIABLE dict

Init == dict = [k \in Key |-> {}]

Put(k, v) == dict' = [dict EXCEPT ![k] = {v}]

Delete(k) == dict' = [dict EXCEPT ![k] = {}]

Erase == dict' = [k \in Key |-> {}]

Next ==
  \/ \E k \in Key, v \in Value : Put(k, v)
  \/ \E k \in Key : Delete(k)
  \/ Erase

Spec == Init /\ [][Next]_dict
=============================================================================
