----------------------------- MODULE RaftClaims -----------------------------
(***************************************************************************)
(* What comments of the sources say of the consensus core and the code     *)
(* does not keep.  ElectionSafety of module Raft belongs here too once     *)
(* nodes restart (CrashSpec).                                              *)
(***************************************************************************)
EXTENDS Raft

\* Entry index of node i's log, with its term, is in the log of j or covered by
\* the snapshot of j.
Replicated(i, index, j) ==
  \/ index <= lastSnapshotIndex[j]
  \/ index <= LastLogIndex(j) /\ LogTerm(j, index) = LogTerm(i, index)

\* raft.h:314: what is committed, more than half of the nodes have replicated,
\* "this entry and those before it".
CommittedIsReplicated ==
  \A i \in Server : \A index \in (lastSnapshotIndex[i] + 1)..commitIndex[i] :
    2 * Cardinality({j \in Server : Replicated(i, index, j)}) > Cardinality(Server)
=============================================================================
