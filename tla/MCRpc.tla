------------------------------- MODULE MCRpc -------------------------------
(***************************************************************************)
(* Instances of RpcProperties: who calls, through which channel, what.     *)
(***************************************************************************)
EXTENDS RpcProperties, TLC

CONSTANTS t1, t2, peer1, peer2

Apart == t1 :> peer1 @@ t2 :> peer2       \* every caller has a channel
Together == t1 :> peer1 @@ t2 :> peer1    \* two threads of raft, one peer

NodeAndClerk ==
  t1 :> {"appendEntries", "requestVote"} @@ t2 :> {"put", "get"}
Heartbeats == t1 :> {"appendEntries"} @@ t2 :> {"appendEntries"}

TwoAndOne == t1 :> 2 @@ t2 :> 1
OneEach == t1 :> 1 @@ t2 :> 1
=============================================================================
