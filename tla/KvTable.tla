------------------------------- MODULE KvTable -------------------------------
(***************************************************************************)
(* What the table of the key-value server is to its users: a map, and the  *)
(* last copy of it that was dumped.  Loading a copy adds the keys the map  *)
(* does not have and changes no value.                                     *)
(***************************************************************************)
CONSTANTS Key, Value, Default, None

VARIABLES
  map,    \* [Key -> Value, or None for an absent key]
  copy    \* the same, or None before the first dump

Map == [Key -> Value \cup {None}]

Init == map = [k \in Key |-> None] /\ copy = None

(* map[k] = v; map[k], which creates the key; insert; remove.              *)
Assign(k, v) == map' = [map EXCEPT ![k] = v] /\ UNCHANGED copy
Touch(k) ==
  /\ map' = [map EXCEPT ![k] = IF @ = None THEN Default ELSE @]
  /\ UNCHANGED copy
Insert(k, v) ==
  /\ map' = [map EXCEPT ![k] = IF @ = None THEN v ELSE @]
  /\ UNCHANGED copy
Remove(k) == map' = [map EXCEPT ![k] = None] /\ UNCHANGED copy

Clear == map' = [k \in Key |-> None] /\ UNCHANGED copy
Dump == copy' = map /\ UNCHANGED map
Load ==
  /\ copy # None
  /\ map' = [k \in Key |-> IF map[k] = None THEN copy[k] ELSE map[k]]
  /\ UNCHANGED copy

Next ==
  \/ \E k \in Key : Touch(k) \/ Remove(k)
  \/ \E k \in Key, v \in Value : Assign(k, v) \/ Insert(k, v)
  \/ Clear \/ Dump \/ Load

Spec == Init /\ [][Next]_<<map, copy>>
=============================================================================
