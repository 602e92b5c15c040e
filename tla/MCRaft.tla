------------------------------- MODULE MCRaft -------------------------------
(***************************************************************************)
(* Raft on small instances.  Elections are explored from the empty cluster *)
(* (Spec); replication and snapshots from a cluster that has elected its   *)
(* first leader (ElectedSpec), the state Spec reaches once Leader has won  *)
(* term 1 with every vote and every thread of that election has ended;     *)
(* restarts from the state that follows once the leader's first command is *)
(* on every node (OneCrashSpec).                                           *)
(***************************************************************************)
EXTENDS RaftInvariants, RaftClaims, TLC

CONSTANTS
  Leader,   \* who has won term 1
  Behind    \* who ends and starts again (OneCrashSpec)

ASSUME LeaderAssumption == Leader \in Server /\ Behind \in Server \ {Leader}

\* Leader stays apart: the initial state names it.
Symmetry == Permutations(Server \ {Leader}) \cup Permutations(Command)
ServerSymmetry == Permutations(Server)

\* The log is on all nodes; the leader has counted that, committed and applied it, and
\* starts a round to tell.  Rounds are counted from here.
ElectedWith(log) ==
  /\ term = [i \in Server |-> 1]
  /\ vote4 = [i \in Server |-> Leader]
  /\ identity = [i \in Server |-> IF i = Leader THEN "leader" ELSE "follower"]
  /\ logs = [i \in Server |-> log]
  /\ lastSnapshotIndex = [i \in Server |-> 0]
  /\ lastSnapshotTerm = [i \in Server |-> 0]
  /\ commitIndex = [i \in Server |-> IF i = Leader THEN Len(log) ELSE 0]
  /\ appliedIndex = commitIndex
  /\ nextIndex = [i \in Server |-> [j \in Server |->
       CASE i # Leader -> 0 [] j = i -> 1 [] OTHER -> Len(log) + 1]]
  /\ matchIndex = [i \in Server |-> [j \in Server |->
       IF i = Leader /\ j # i THEN Len(log) ELSE 0]]
  \* the votes counted after the one that made the majority
  /\ voteNum = [i \in Server |-> IF i = Leader THEN Cardinality(Server) - Majority ELSE 0]
  /\ round = [i \in Server |-> 0]
  /\ appendNum = [i \in Server |-> [r \in 1..MaxRounds |-> 0]]
  /\ disk = [i \in Server |-> Dump(i)]
  /\ boot = [i \in Server |-> 0]
  /\ fault = [i \in Server |-> "none"]
  /\ voteRequests = {} /\ voteReplies = {}
  /\ appendRequests = {} /\ appendReplies = {}
  /\ snapshotThreads = {} /\ snapshotRequests = {} /\ snapshotReplies = {}
  /\ ballots = {<<1, i, Leader>> : i \in Server}
  /\ counted = [i \in Server |-> IF i = Leader THEN Server ELSE {}]
  /\ leaders = {<<1, Leader>>}

ElectedInit == ElectedWith(<<>>)
LoggedInit == \E c \in Command : ElectedWith(<<[term |-> 1, command |-> c]>>)

ElectedSpec == ElectedInit /\ [][Step]_vars
\* Only Behind is started again.
OneCrashSpec == LoggedInit /\ [][Step \/ Restart(Behind)]_vars
=============================================================================
