------------------------------ MODULE KvStore -------------------------------
(***************************************************************************)
(* What the cluster promises about puts: a put takes effect once, at some  *)
(* moment between its call and its return, and all effects are in one      *)
(* order.                                                                  *)
(***************************************************************************)
EXTENDS Integers, Sequences

CONSTANTS
  Client,
  Request   \* the numbers clients give their puts, from 1 on

VARIABLES
  pending,   \* the put each client waits for, 0 for none
  order      \* the puts <<client, request>> in the order of their effects

vars == <<pending, order>>

Effects == LET o == order IN {o[k] : k \in 1..Len(o)}
TookEffect(put) == put \in Effects

Init == pending = [c \in Client |-> 0] /\ order = <<>>

Put(c, r) ==
  /\ pending[c] = 0
  /\ \A e \in Effects : e[1] = c => e[2] < r
  /\ pending' = [pending EXCEPT ![c] = r]
  /\ UNCHANGED order

Effect(c) ==
  /\ pending[c] # 0 /\ ~TookEffect(<<c, pending[c]>>)
  /\ order' = Append(order, <<c, pending[c]>>)
  /\ UNCHANGED pending

Return(c) ==
  /\ pending[c] # 0 /\ TookEffect(<<c, pending[c]>>)
  /\ pending' = [pending EXCEPT ![c] = 0]
  /\ UNCHANGED order

Next == \E c \in Client : Effect(c) \/ Return(c) \/ \E r \in Request : Put(c, r)

Spec == Init /\ [][Next]_vars
=============================================================================
