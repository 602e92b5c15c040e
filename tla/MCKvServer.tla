----------------------------- MODULE MCKvServer -----------------------------
(* Instances of KvServer for TLC. *)
EXTENDS KvInvariants

CONSTANTS c1, c2

OneClient == {c1}
TwoClients == {c1, c2}
Symmetry == Permutations(Client)

Puts == {"put"}
PutsAndGets == {"put", "get"}
=============================================================================
