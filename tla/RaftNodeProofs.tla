--------------------------- MODULE RaftNodeProofs ---------------------------
(***************************************************************************)
(* What a single node keeps, for every cluster and through restarts.       *)
(*                                                                         *)
(* NothingTakenBack: no node takes anything back between two restarts.     *)
(* Terms and votes need the types only; that the commit index of a         *)
(* follower grows needs IndexOrder too: the handler cuts the leader's      *)
(* commit index to the follower's log.  A log never gets shorter either.   *)
(*                                                                         *)
(* Durable: the state file holds the state whenever _M_mutex is free.  It  *)
(* is inductive with the types: a handler that ends with _M_persist writes *)
(* the whole of its own node, the others leave both the file and the       *)
(* persistent fields alone.                                                *)
(***************************************************************************)
EXTENDS RaftProofs

\* What a step does to the term and the vote, and to the indexes, of node j.
BallotKept(j) ==
  /\ term'[j] >= term[j]
  /\ term'[j] = term[j] /\ vote4[j] # Nil => vote4'[j] = vote4[j]
IndexesGrow(j) ==
  /\ commitIndex'[j] >= commitIndex[j]
  /\ appliedIndex'[j] >= appliedIndex[j]
  /\ lastSnapshotIndex'[j] >= lastSnapshotIndex[j]

\* The types the lemmas use.
LEMMA NodeTypes ==
  ASSUME TypeOK
  PROVE  /\ term \in [Server -> Nat] /\ vote4 \in [Server -> Server \cup {Nil}]
         /\ commitIndex \in [Server -> Nat] /\ appliedIndex \in [Server -> Nat]
         /\ lastSnapshotIndex \in [Server -> Nat]
BY DEF TypeOK

-----------------------------------------------------------------------------
(* Terms and votes. *)

LEMMA SameBallots ==
  ASSUME TypeOK, UNCHANGED <<term, vote4>>
  PROVE  \A j \in Server : BallotKept(j)
BY NodeTypes DEF BallotKept

\* A node falls back to a later term only (the sending threads of raft.cpp).
LEMMA StepDownKeeps ==
  ASSUME TypeOK, NEW i \in Server, NEW t \in Nat, t > term[i], StepDown(i, t)
  PROVE  \A j \in Server : BallotKept(j)
<1> TAKE j \in Server
<1>1. /\ term' = [term EXCEPT ![i] = t] /\ vote4' = [vote4 EXCEPT ![i] = Nil]
  BY DEF StepDown
<1> QED
  BY <1>1, NodeTypes DEF BallotKept

\* A handler that follows the sender keeps its vote in the same term.
LEMMA AdoptKeeps ==
  ASSUME TypeOK, NEW i \in Server, NEW t \in Nat, AdoptTerm(i, t)
  PROVE  \A j \in Server : BallotKept(j)
<1> TAKE j \in Server
<1>1. /\ term' = [term EXCEPT ![i] = Larger(@, t)]
      /\ vote4' = [vote4 EXCEPT ![i] = IF t > term[i] THEN Nil ELSE @]
  BY DEF AdoptTerm
<1> QED
  BY <1>1, NodeTypes DEF BallotKept, Larger

\* A candidacy is for a new term.
LEMMA StandKeeps ==
  ASSUME TypeOK, NEW i \in Server, Stand4Election(i)
  PROVE  \A j \in Server : BallotKept(j)
<1> TAKE j \in Server
<1>1. /\ term' = [term EXCEPT ![i] = @ + 1] /\ vote4' = [vote4 EXCEPT ![i] = i]
  BY DEF Stand4Election
<1> QED
  BY <1>1, NodeTypes DEF BallotKept

\* _L_requestVote votes once per term.
LEMMA VoteRequestKeepsBallots ==
  ASSUME TypeOK, NEW m \in voteRequests, HandleVoteRequest(m.dst, m)
  PROVE  \A j \in Server : BallotKept(j)
<1> TAKE j \in Server
<1> DEFINE i == m.dst
<1>1. i \in Server /\ m.term \in Nat /\ m.src \in Server
  BY DEF TypeOK, VoteRequests
<1>2. /\ term' = [term EXCEPT ![i] = Larger(@, m.term)]
      /\ vote4' = [vote4 EXCEPT ![i] = IF Grants(i, m) THEN m.src
                                       ELSE IF m.term > term[i] THEN Nil ELSE @]
  BY DEF HandleVoteRequest
<1>3. Grants(i, m) => m.term > term[i] \/ vote4[i] \in {Nil, m.src}
  BY DEF Grants
<1> HIDE DEF i
<1> QED
  BY <1>1, <1>2, <1>3, NodeTypes DEF BallotKept, Larger

\* Whoever wins keeps the vote it gave itself.
LEMMA VoteReplyKeepsBallots ==
  ASSUME TypeOK, NEW m \in voteReplies, HandleVoteReply(m.dst, m)
  PROVE  \A j \in Server : BallotKept(j)
<1>1. m.dst \in Server /\ m.term \in Nat
  BY DEF TypeOK, VoteReplies
<1>2. CASE m.term > term[m.dst] /\ StepDown(m.dst, m.term)
  BY <1>1, <1>2, StepDownKeeps
<1>3. CASE UNCHANGED electionVars
  BY <1>3, SameBallots DEF electionVars
<1>4. CASE CountVote(m.dst)
  BY <1>4, SameBallots DEF CountVote, TakeOffice, electionVars
<1> QED
  BY <1>2, <1>3, <1>4 DEF HandleVoteReply

LEMMA BallotsKept ==
  ASSUME TypeOK, Step
  PROVE  \A j \in Server : BallotKept(j)
<1>1. CASE \E i \in Server : Stand4Election(i)
  BY <1>1, StandKeeps
<1>2. CASE \E i \in Server : Heartbeat(i) \/ ApplierTick(i)
  BY <1>2, SameBallots DEF Heartbeat, ApplierTick, electionVars
<1>3. CASE \E i \in Server, c \in Command : Execute(i, c)
  BY <1>3, SameBallots DEF Execute, electionVars
<1>4. CASE \E i \in Server, index \in 1..MaxIndex : PersistSnapshot(i, index)
  BY <1>4, SameBallots DEF PersistSnapshot, electionVars
<1>5. CASE \E m \in voteRequests : HandleVoteRequest(m.dst, m)
  BY <1>5, VoteRequestKeepsBallots
<1>6. CASE \E m \in voteReplies : HandleVoteReply(m.dst, m)
  BY <1>6, VoteReplyKeepsBallots
<1>7. ASSUME NEW m \in appendRequests, HandleAppendEntries(m.dst, m)
      PROVE  \A j \in Server : BallotKept(j)
  <2>1. m.dst \in Server /\ m.term \in Nat
    BY DEF TypeOK, AppendRequests
  <2>2. UNCHANGED electionVars \/ AdoptTerm(m.dst, m.term)
    BY <1>7 DEF HandleAppendEntries
  <2> QED
    BY <2>1, <2>2, SameBallots, AdoptKeeps DEF electionVars
<1>8. ASSUME NEW m \in appendReplies, HandleAppendReply(m.dst, m)
      PROVE  \A j \in Server : BallotKept(j)
  <2>1. m.dst \in Server /\ m.term \in Nat
    BY DEF TypeOK, AppendReplies
  <2>2. UNCHANGED electionVars \/ (m.term > term[m.dst] /\ StepDown(m.dst, m.term))
    BY <1>8 DEF HandleAppendReply
  <2> QED
    BY <2>1, <2>2, SameBallots, StepDownKeeps DEF electionVars
<1>9. CASE \E th \in snapshotThreads : SendSnapshot(th.src, th)
  BY <1>9, SameBallots DEF SendSnapshot, electionVars
<1>10. ASSUME NEW m \in snapshotRequests, HandleInstallSnapshot(m.dst, m)
       PROVE  \A j \in Server : BallotKept(j)
  <2>1. m.dst \in Server /\ m.term \in Nat
    BY DEF TypeOK, SnapshotRequests
  <2>2. UNCHANGED electionVars \/ AdoptTerm(m.dst, m.term)
    BY <1>10 DEF HandleInstallSnapshot
  <2> QED
    BY <2>1, <2>2, SameBallots, AdoptKeeps DEF electionVars
<1>11. ASSUME NEW m \in snapshotReplies, HandleSnapshotReply(m.dst, m)
       PROVE  \A j \in Server : BallotKept(j)
  <2>1. m.dst \in Server /\ m.term \in Nat
    BY DEF TypeOK, SnapshotReplies
  <2>2. UNCHANGED electionVars \/ (m.term > term[m.dst] /\ StepDown(m.dst, m.term))
    BY <1>11 DEF HandleSnapshotReply
  <2> QED
    BY <2>1, <2>2, SameBallots, StepDownKeeps DEF electionVars
<1> QED
  BY <1>1, <1>2, <1>3, <1>4, <1>5, <1>6, <1>7, <1>8, <1>9, <1>10, <1>11 DEF Step

-----------------------------------------------------------------------------
(* Indexes. *)

LEMMA SameIndexes ==
  ASSUME TypeOK, UNCHANGED <<commitIndex, appliedIndex, lastSnapshotIndex>>
  PROVE  \A j \in Server : IndexesGrow(j)
BY NodeTypes DEF IndexesGrow

\* A follower commits as far as the leader has and its own log reaches: as its
\* commit index lay within the log, it does not fall (_L_appendEntries).
LEMMA AcceptGrows ==
  ASSUME TypeOK, IndexOrder, NEW m \in appendRequests,
         Accepts(m.dst, m), Accept(m.dst, m),
         UNCHANGED <<appliedIndex, lastSnapshotIndex>>
  PROVE  \A j \in Server : IndexesGrow(j)
<1> TAKE j \in Server
<1> DEFINE i == m.dst
           reach == lastSnapshotIndex[i] + Len(logs'[i])
           n == IF m.leaderCommit > commitIndex[i] THEN Smaller(m.leaderCommit, reach)
                                                   ELSE commitIndex[i]
<1>1. /\ i \in Server /\ m.leaderCommit \in Nat /\ m.prevIndex \in Nat
      /\ Len(m.entries) \in Nat
  <2>1. /\ i \in Server /\ m.leaderCommit \in Nat /\ m.prevIndex \in Nat
        /\ m.entries \in Seq(Entries)
    BY DEF TypeOK, AppendRequests
  <2> QED
    BY <2>1, LenProperties
<1>2. LastLogIndex(i) \in Nat
  BY <1>1, LogTypes DEF TypeOK
<1>3. reach = Larger(LastLogIndex(i), m.prevIndex + Len(m.entries))
  BY AcceptTypes
<1>4. commitIndex[i] \in Nat /\ commitIndex[i] <= LastLogIndex(i)
  BY <1>1, NodeTypes DEF IndexOrder
<1>5. commitIndex' = [commitIndex EXCEPT ![i] = n]
  BY DEF Accept
<1> HIDE DEF i, reach
<1>6. n >= commitIndex[i]
  BY <1>1, <1>2, <1>3, <1>4 DEF Smaller, Larger
<1> HIDE DEF n
<1> QED
  BY <1>1, <1>5, <1>6, NodeTypes DEF IndexesGrow

\* A leader commits what it counts, or nothing.
LEMMA CountGrows ==
  ASSUME TypeOK, NEW m \in appendReplies, CountAppend(m.dst, m),
         UNCHANGED <<appliedIndex, lastSnapshotIndex>>
  PROVE  \A j \in Server : IndexesGrow(j)
<1> TAKE j \in Server
<1>1. m.dst \in Server /\ m.lastIndex \in Nat
  BY DEF TypeOK, AppendReplies
<1>2. PICK n \in {commitIndex[m.dst], Larger(commitIndex[m.dst], m.lastIndex)} :
        commitIndex' = [commitIndex EXCEPT ![m.dst] = n]
  BY DEF CountAppend
<1>3. n >= commitIndex[m.dst]
  BY <1>1, <1>2, NodeTypes DEF Larger
<1> QED
  BY <1>1, <1>2, <1>3, NodeTypes DEF IndexesGrow

LEMMA ApplierGrows ==
  ASSUME TypeOK, NEW i \in Server, ApplierTick(i)
  PROVE  \A j \in Server : IndexesGrow(j)
<1> TAKE j \in Server
<1>1. /\ appliedIndex' = [appliedIndex EXCEPT ![i] = Larger(@, commitIndex[i])]
      /\ UNCHANGED <<commitIndex, lastSnapshotIndex>>
  BY DEF ApplierTick, logVars
<1> QED
  BY <1>1, NodeTypes DEF IndexesGrow, Larger

LEMMA PersistGrows ==
  ASSUME TypeOK, NEW i \in Server, NEW index \in 1..MaxIndex, PersistSnapshot(i, index)
  PROVE  \A j \in Server : IndexesGrow(j)
<1> TAKE j \in Server
<1>1. /\ lastSnapshotIndex' = [lastSnapshotIndex EXCEPT ![i] = index]
      /\ lastSnapshotIndex[i] + 1 <= index
      /\ UNCHANGED <<commitIndex, appliedIndex>>
  BY DEF PersistSnapshot, progressVars
<1>2. index \in Nat /\ lastSnapshotIndex[i] \in Nat
  BY NodeTypes
<1>3. index >= lastSnapshotIndex[i]
  BY <1>1, <1>2
<1> QED
  BY <1>1, <1>3, NodeTypes DEF IndexesGrow

\* Only a snapshot newer than the node's own is installed.
LEMMA InstallGrows ==
  ASSUME TypeOK, NEW m \in snapshotRequests, m.lastIndex > lastSnapshotIndex[m.dst],
         Install(m.dst, m)
  PROVE  \A j \in Server : IndexesGrow(j)
<1> TAKE j \in Server
<1>1. m.dst \in Server /\ m.lastIndex \in Nat
  BY DEF TypeOK, SnapshotRequests
<1>2. /\ commitIndex' = [commitIndex EXCEPT ![m.dst] = Larger(@, m.lastIndex)]
      /\ appliedIndex' = [appliedIndex EXCEPT ![m.dst] = Larger(@, m.lastIndex)]
      /\ lastSnapshotIndex' = [lastSnapshotIndex EXCEPT ![m.dst] = m.lastIndex]
  BY DEF Install
<1> QED
  BY <1>1, <1>2, NodeTypes DEF IndexesGrow, Larger

LEMMA IndexesGrown ==
  ASSUME TypeOK, IndexOrder, Step
  PROVE  \A j \in Server : IndexesGrow(j)
<1>1. CASE \E i \in Server : Stand4Election(i) \/ Heartbeat(i)
  BY <1>1, SameIndexes DEF Stand4Election, Heartbeat, logVars, progressVars
<1>2. CASE \E i \in Server : ApplierTick(i)
  BY <1>2, ApplierGrows
<1>3. CASE \E i \in Server, c \in Command : Execute(i, c)
  BY <1>3, SameIndexes DEF Execute, progressVars
<1>4. CASE \E i \in Server, index \in 1..MaxIndex : PersistSnapshot(i, index)
  BY <1>4, PersistGrows
<1>5. CASE \E m \in voteRequests : HandleVoteRequest(m.dst, m)
  BY <1>5, SameIndexes DEF HandleVoteRequest, logVars, progressVars
<1>6. CASE \E m \in voteReplies : HandleVoteReply(m.dst, m)
  BY <1>6, SameIndexes DEF HandleVoteReply, logVars, progressVars
<1>7. ASSUME NEW m \in appendRequests, HandleAppendEntries(m.dst, m)
      PROVE  \A j \in Server : IndexesGrow(j)
  <2>1. /\ UNCHANGED <<appliedIndex, lastSnapshotIndex>>
        /\ UNCHANGED commitIndex \/ (Accepts(m.dst, m) /\ Accept(m.dst, m))
    BY <1>7 DEF HandleAppendEntries
  <2> QED
    BY <2>1, SameIndexes, AcceptGrows
<1>8. ASSUME NEW m \in appendReplies, HandleAppendReply(m.dst, m)
      PROVE  \A j \in Server : IndexesGrow(j)
  <2>1. /\ UNCHANGED <<appliedIndex, lastSnapshotIndex>>
        /\ UNCHANGED commitIndex \/ CountAppend(m.dst, m)
    BY <1>8 DEF HandleAppendReply, logVars
  <2> QED
    BY <2>1, SameIndexes, CountGrows
<1>9. CASE \E th \in snapshotThreads : SendSnapshot(th.src, th)
  BY <1>9, SameIndexes DEF SendSnapshot, logVars, progressVars
<1>10. ASSUME NEW m \in snapshotRequests, HandleInstallSnapshot(m.dst, m)
       PROVE  \A j \in Server : IndexesGrow(j)
  <2>1. \/ UNCHANGED <<logVars, progressVars>>
        \/ m.lastIndex > lastSnapshotIndex[m.dst] /\ Install(m.dst, m)
    BY <1>10 DEF HandleInstallSnapshot
  <2> QED
    BY <2>1, SameIndexes, InstallGrows DEF logVars, progressVars
<1>11. CASE \E m \in snapshotReplies : HandleSnapshotReply(m.dst, m)
  BY <1>11, SameIndexes DEF HandleSnapshotReply, logVars, progressVars
<1> QED
  BY <1>1, <1>2, <1>3, <1>4, <1>5, <1>6, <1>7, <1>8, <1>9, <1>10, <1>11 DEF Step

-----------------------------------------------------------------------------

\* A node that restarts leaves the other nodes alone.
LEMMA RestartKeeps ==
  ASSUME TypeOK, NEW i \in Server, Restart(i), NEW j \in Server, boot'[j] = boot[j]
  PROVE  BallotKept(j) /\ IndexesGrow(j)
<1>1. boot' = [boot EXCEPT ![i] = @ + 1] /\ boot \in [Server -> Nat]
  BY DEF Restart, TypeOK
<1>2. j # i
  BY <1>1
<1>3. /\ term'[j] = term[j] /\ vote4'[j] = vote4[j] /\ commitIndex'[j] = commitIndex[j]
      /\ appliedIndex'[j] = appliedIndex[j]
      /\ lastSnapshotIndex'[j] = lastSnapshotIndex[j]
  BY <1>2, NodeTypes DEF Restart
<1> QED
  BY <1>3, NodeTypes DEF BallotKept, IndexesGrow

\* Between two restarts no node takes back a term, the vote of its term, a commit,
\* an applied command or a snapshot, whichever handlers and threads take turns.
THEOREM ProgressKept == CrashSpec => NothingTakenBack
<1> DEFINE Kept == \A i \in Server : boot'[i] = boot[i] =>
                     /\ term'[i] >= term[i]
                     /\ term'[i] = term[i] /\ vote4[i] # Nil => vote4'[i] = vote4[i]
                     /\ commitIndex'[i] >= commitIndex[i]
                     /\ appliedIndex'[i] >= appliedIndex[i]
                     /\ lastSnapshotIndex'[i] >= lastSnapshotIndex[i]
<1>1. TypeOK /\ IndexInv /\ [CrashStep]_vars => [Kept]_vars
  <2> SUFFICES ASSUME TypeOK, IndexInv, CrashStep, NEW j \in Server, boot'[j] = boot[j]
               PROVE  BallotKept(j) /\ IndexesGrow(j)
    BY DEF BallotKept, IndexesGrow
  <2>1. CASE Step
    BY <2>1, BallotsKept, IndexesGrown DEF IndexInv
  <2>2. CASE \E i \in Server : Restart(i)
    BY <2>2, RestartKeeps
  <2> QED
    BY <2>1, <2>2 DEF CrashStep
<1>2. CrashSpec => [][Kept]_vars
  BY <1>1, TypesAndIndexes, PTL DEF CrashSpec
<1> QED
  BY <1>2 DEF NothingTakenBack

-----------------------------------------------------------------------------
(* Logs. *)

\* What a step does to the log of node j and to its incarnation.
LogGrows(j) ==
  /\ boot'[j] >= boot[j]
  /\ boot'[j] = boot[j] => LastLogIndex(j)' >= LastLogIndex(j)

LEMMA LogEndTypes ==
  ASSUME TypeOK
  PROVE  /\ \A j \in Server : LastLogIndex(j) \in Nat /\ boot[j] \in Nat
         /\ logs \in [Server -> Seq(Entries)] /\ lastSnapshotIndex \in [Server -> Nat]
BY LogTypes DEF TypeOK

LEMMA SameLogs ==
  ASSUME TypeOK, UNCHANGED <<logs, lastSnapshotIndex, boot>>
  PROVE  \A j \in Server : LogGrows(j)
BY LogEndTypes DEF LogGrows, LastLogIndex

\* A step that touches the log of one node and does not shorten it.
LEMMA OneLogGrows ==
  ASSUME TypeOK, UNCHANGED boot, NEW i \in Server, NEW log, NEW index,
         logs' = [logs EXCEPT ![i] = log],
         lastSnapshotIndex' = [lastSnapshotIndex EXCEPT ![i] = index],
         index + Len(log) >= LastLogIndex(i)
  PROVE  \A j \in Server : LogGrows(j)
<1> TAKE j \in Server
<1>1. CASE j = i
  <2>1. LastLogIndex(j)' = index + Len(log)
    BY <1>1, LogEndTypes DEF LastLogIndex
  <2> QED
    BY <1>1, <2>1, LogEndTypes DEF LogGrows
<1>2. CASE j # i
  <2>1. LastLogIndex(j)' = LastLogIndex(j)
    BY <1>2, LogEndTypes DEF LastLogIndex
  <2> QED
    BY <2>1, LogEndTypes DEF LogGrows
<1> QED
  BY <1>1, <1>2

LEMMA ExecuteGrows ==
  ASSUME TypeOK, NEW i \in Server, NEW c \in Command, Execute(i, c)
  PROVE  \A j \in Server : LogGrows(j)
<1> DEFINE entry == [term |-> term[i], command |-> c]
<1>1. logs[i] \in Seq(Entries) /\ entry \in Entries
  BY DEF TypeOK, Entries
<1>2. Len(Append(logs[i], entry)) = Len(logs[i]) + 1 /\ Len(logs[i]) \in Nat
  BY <1>1, AppendProperties, LenProperties
<1>3. lastSnapshotIndex[i] + Len(Append(logs[i], entry)) >= LastLogIndex(i)
  BY <1>2, LogEndTypes DEF LastLogIndex
<1>4. /\ logs' = [logs EXCEPT ![i] = Append(logs[i], entry)]
      /\ lastSnapshotIndex' = [lastSnapshotIndex EXCEPT ![i] = lastSnapshotIndex[i]]
      /\ UNCHANGED boot
  BY LogEndTypes DEF Execute
<1> QED
  BY <1>3, <1>4, OneLogGrows

\* Merging what a leader sends replaces entries but cuts none (_L_appendEntries).
LEMMA AcceptKeepsLength ==
  ASSUME TypeOK, NEW m \in appendRequests, Accepts(m.dst, m), Accept(m.dst, m),
         UNCHANGED <<lastSnapshotIndex, boot>>
  PROVE  /\ \A j \in Server : LogGrows(j)
         /\ LastLogIndex(m.dst)' >= m.prevIndex + Len(m.entries)
<1> DEFINE i == m.dst
           end == m.prevIndex + Len(m.entries)
<1>1. i \in Server /\ end \in Nat
  <2>1. i \in Server /\ m.prevIndex \in Nat /\ m.entries \in Seq(Entries)
    BY DEF TypeOK, AppendRequests
  <2> QED
    BY <2>1, LenProperties
<1>2. lastSnapshotIndex[i] + Len(logs'[i]) = Larger(LastLogIndex(i), end)
  BY AcceptTypes
<1>3. logs' = [logs EXCEPT ![i] = logs'[i]]
  BY <1>1, LogEndTypes DEF Accept
<1>4. lastSnapshotIndex' = [lastSnapshotIndex EXCEPT ![i] = lastSnapshotIndex[i]]
  BY <1>1, LogEndTypes
<1>5. LastLogIndex(i) \in Nat
  BY <1>1, LogEndTypes
<1> HIDE DEF i, end
<1>6. Larger(LastLogIndex(i), end) >= LastLogIndex(i) /\ Larger(LastLogIndex(i), end) >= end
  BY <1>1, <1>5 DEF Larger
<1>7. lastSnapshotIndex[i] + Len(logs'[i]) >= LastLogIndex(i)
  BY <1>2, <1>6
<1>8. \A j \in Server : LogGrows(j)
  BY <1>1, <1>3, <1>4, <1>7, OneLogGrows
<1>9. LastLogIndex(i)' >= end
  BY <1>2, <1>6 DEF LastLogIndex
<1> QED
  BY <1>8, <1>9 DEF i, end

LEMMA PersistKeepsLength ==
  ASSUME TypeOK, IndexOrder, NEW i \in Server, NEW index \in 1..MaxIndex,
         PersistSnapshot(i, index)
  PROVE  \A j \in Server : LogGrows(j)
<1>1. /\ lastSnapshotIndex[i] + 1 <= index /\ index <= commitIndex[i]
      /\ commitIndex[i] <= LastLogIndex(i)
  BY DEF PersistSnapshot, IndexOrder
<1>2. /\ index \in Nat /\ lastSnapshotIndex[i] \in Nat /\ commitIndex[i] \in Nat
      /\ LastLogIndex(i) \in Nat /\ logs[i] \in Seq(Entries)
  BY LogEndTypes, NodeTypes
<1>3. index >= lastSnapshotIndex[i]
  BY <1>1, <1>2
<1>4. index + Len(Discard(i, index)) = Larger(index, LastLogIndex(i))
  BY <1>2, <1>3, DiscardTypes
<1>5. index + Len(Discard(i, index)) >= LastLogIndex(i)
  BY <1>2, <1>4 DEF Larger
<1>6. /\ logs' = [logs EXCEPT ![i] = Discard(i, index)]
      /\ lastSnapshotIndex' = [lastSnapshotIndex EXCEPT ![i] = index]
      /\ UNCHANGED boot
  BY DEF PersistSnapshot
<1> QED
  BY <1>5, <1>6, OneLogGrows

\* A snapshot is installed in front of the entries it does not cover.
LEMMA InstallKeepsLength ==
  ASSUME TypeOK, NEW m \in snapshotRequests, m.lastIndex > lastSnapshotIndex[m.dst],
         Install(m.dst, m), UNCHANGED boot
  PROVE  /\ \A j \in Server : LogGrows(j)
         /\ LastLogIndex(m.dst)' >= m.lastIndex
<1> DEFINE i == m.dst
<1>1. i \in Server /\ m.lastIndex \in Nat
  BY DEF TypeOK, SnapshotRequests
<1>2. m.lastIndex + Len(logs'[i]) = Larger(m.lastIndex, LastLogIndex(i))
  BY InstallTypes
<1>3. LastLogIndex(i) \in Nat
  BY <1>1, LogEndTypes
<1>4. /\ m.lastIndex + Len(logs'[i]) >= LastLogIndex(i)
      /\ m.lastIndex + Len(logs'[i]) >= m.lastIndex
  BY <1>1, <1>2, <1>3 DEF Larger
<1>5. logs' = [logs EXCEPT ![i] = logs'[i]]
  BY <1>1, LogEndTypes DEF Install
<1>6. /\ lastSnapshotIndex' = [lastSnapshotIndex EXCEPT ![i] = m.lastIndex]
      /\ lastSnapshotIndex'[i] = m.lastIndex
  BY <1>1, LogEndTypes DEF Install
<1>7. \A j \in Server : LogGrows(j)
  BY <1>1, <1>4, <1>5, <1>6, OneLogGrows
<1>8. LastLogIndex(i)' >= m.lastIndex
  BY <1>4, <1>6 DEF LastLogIndex
<1> QED
  BY <1>7, <1>8

LEMMA RestartIsNewBoot ==
  ASSUME TypeOK, NEW i \in Server, Restart(i)
  PROVE  \A j \in Server : LogGrows(j)
<1> TAKE j \in Server
<1>1. boot' = [boot EXCEPT ![i] = @ + 1] /\ boot \in [Server -> Nat]
  BY DEF Restart, TypeOK
<1>2. CASE j = i
  BY <1>1, <1>2 DEF LogGrows
<1>3. CASE j # i
  <2>1. LastLogIndex(j)' = LastLogIndex(j)
    BY <1>3, LogEndTypes DEF Restart, LastLogIndex
  <2> QED
    BY <1>1, <1>3, <2>1, LogEndTypes DEF LogGrows
<1> QED
  BY <1>2, <1>3

\* Between two of its restarts the log of a node never gets shorter: conflicting
\* entries are replaced, and a snapshot counts for what it covers.
LEMMA LogsGrow ==
  ASSUME TypeOK, IndexOrder, CrashStep
  PROVE  \A j \in Server : LogGrows(j)
<1>1. CASE \E i \in Server : Stand4Election(i) \/ Heartbeat(i) \/ ApplierTick(i)
  BY <1>1, SameLogs DEF Stand4Election, Heartbeat, ApplierTick, logVars
<1>2. CASE \E i \in Server, c \in Command : Execute(i, c)
  BY <1>2, ExecuteGrows
<1>3. CASE \E i \in Server, index \in 1..MaxIndex : PersistSnapshot(i, index)
  BY <1>3, PersistKeepsLength
<1>4. CASE \E m \in voteRequests : HandleVoteRequest(m.dst, m)
  BY <1>4, SameLogs DEF HandleVoteRequest, logVars
<1>5. CASE \E m \in voteReplies : HandleVoteReply(m.dst, m)
  BY <1>5, SameLogs DEF HandleVoteReply, logVars
<1>6. ASSUME NEW m \in appendRequests, HandleAppendEntries(m.dst, m)
      PROVE  \A j \in Server : LogGrows(j)
  <2>1. /\ UNCHANGED <<lastSnapshotIndex, boot>>
        /\ UNCHANGED logs \/ (Accepts(m.dst, m) /\ Accept(m.dst, m))
    BY <1>6 DEF HandleAppendEntries
  <2> QED
    BY <2>1, SameLogs, AcceptKeepsLength
<1>7. CASE \E m \in appendReplies : HandleAppendReply(m.dst, m)
  BY <1>7, SameLogs DEF HandleAppendReply, logVars
<1>8. CASE \E th \in snapshotThreads : SendSnapshot(th.src, th)
  BY <1>8, SameLogs DEF SendSnapshot, logVars
<1>9. ASSUME NEW m \in snapshotRequests, HandleInstallSnapshot(m.dst, m)
      PROVE  \A j \in Server : LogGrows(j)
  <2>1. /\ UNCHANGED boot
        /\ \/ UNCHANGED logVars
           \/ m.lastIndex > lastSnapshotIndex[m.dst] /\ Install(m.dst, m)
    BY <1>9 DEF HandleInstallSnapshot
  <2> QED
    BY <2>1, SameLogs, InstallKeepsLength DEF logVars
<1>10. CASE \E m \in snapshotReplies : HandleSnapshotReply(m.dst, m)
  BY <1>10, SameLogs DEF HandleSnapshotReply, logVars
<1>11. CASE \E i \in Server : Restart(i)
  BY <1>11, RestartIsNewBoot
<1> QED
  BY <1>1, <1>2, <1>3, <1>4, <1>5, <1>6, <1>7, <1>8, <1>9, <1>10, <1>11 DEF CrashStep, Step

-----------------------------------------------------------------------------
(* The state file. *)

stateVars == <<term, vote4, logs, lastSnapshotIndex, lastSnapshotTerm>>

\* Only node i may change its persistent fields.
OnlyStateOf(i) == \A j \in Server \ {i} :
  /\ term'[j] = term[j] /\ vote4'[j] = vote4[j] /\ logs'[j] = logs[j]
  /\ lastSnapshotIndex'[j] = lastSnapshotIndex[j]
  /\ lastSnapshotTerm'[j] = lastSnapshotTerm[j]

LEMMA StateTypes ==
  ASSUME TypeOK
  PROVE  /\ term \in [Server -> Nat] /\ vote4 \in [Server -> Server \cup {Nil}]
         /\ logs \in [Server -> Seq(Entries)]
         /\ lastSnapshotIndex \in [Server -> Nat] /\ lastSnapshotTerm \in [Server -> Nat]
BY DEF TypeOK

\* A handler that changes no persistent field need not save.
LEMMA NothingToSave ==
  ASSUME Durable, UNCHANGED <<stateVars, disk>>
  PROVE  Durable'
BY DEF Durable, Dump, Load, stateVars

\* _M_persist writes what the constructor would load.
LEMMA SavedIsHeld ==
  ASSUME TypeOK, TypeOK', Durable, NEW i \in Server, Persist(i), OnlyStateOf(i)
  PROVE  Durable'
<1>1. Dump(i)' \in StateFiles
  BY DEF TypeOK, Dump, StateFiles
<1>2. Load(Dump(i)') = Dump(i)'
  BY <1>1, FileAssumption DEF Load
<1> SUFFICES ASSUME NEW j \in Server
             PROVE  Load(disk'[j]) = Dump(j)'
  BY DEF Durable, Load
<1>3. disk' = [disk EXCEPT ![i] = Dump(i)'] /\ disk \in [Server -> StateFiles \cup {Nil}]
  BY DEF Persist, TypeOK
<1>4. CASE j = i
  BY <1>2, <1>3, <1>4
<1>5. CASE j # i
  <2>1. disk'[j] = disk[j]
    BY <1>3, <1>5
  <2>2. Dump(j)' = Dump(j)
    BY <1>5 DEF OnlyStateOf, Dump
  <2> QED
    BY <2>1, <2>2 DEF Durable
<1> QED
  BY <1>4, <1>5

-----------------------------------------------------------------------------
(* What the parts of the handlers change. *)

LEMMA StepDownIsOwn ==
  ASSUME TypeOK, NEW i \in Server, NEW t, StepDown(i, t), UNCHANGED logVars
  PROVE  OnlyStateOf(i) /\ Persist(i)
BY StateTypes DEF StepDown, OnlyStateOf, logVars

LEMMA AdoptIsOwn ==
  ASSUME TypeOK, NEW i \in Server, NEW t, AdoptTerm(i, t), NEW j \in Server \ {i}
  PROVE  term'[j] = term[j] /\ vote4'[j] = vote4[j]
BY StateTypes DEF AdoptTerm

\* A call saves its node's state or changes none of it.
Saves(i) == \/ Persist(i) /\ OnlyStateOf(i)
            \/ UNCHANGED <<stateVars, disk>>

LEMMA StandSaves ==
  ASSUME TypeOK, NEW i \in Server, Stand4Election(i)
  PROVE  Saves(i)
<1>1. /\ term' = [term EXCEPT ![i] = @ + 1] /\ vote4' = [vote4 EXCEPT ![i] = i]
      /\ UNCHANGED logVars /\ Persist(i)
  BY DEF Stand4Election
<1> QED
  BY <1>1, StateTypes DEF Saves, OnlyStateOf, logVars

LEMMA ExecuteSaves ==
  ASSUME TypeOK, NEW i \in Server, NEW c \in Command, Execute(i, c)
  PROVE  Saves(i)
<1>1. /\ logs' = [logs EXCEPT ![i] = Append(@, [term |-> term[i], command |-> c])]
      /\ UNCHANGED <<term, vote4, lastSnapshotIndex, lastSnapshotTerm>> /\ Persist(i)
  BY DEF Execute, electionVars
<1> QED
  BY <1>1, StateTypes DEF Saves, OnlyStateOf

LEMMA PersistSnapshotSaves ==
  ASSUME TypeOK, NEW i \in Server, NEW index \in 1..MaxIndex, PersistSnapshot(i, index)
  PROVE  Saves(i)
<1>1. /\ lastSnapshotIndex' = [lastSnapshotIndex EXCEPT ![i] = index]
      /\ lastSnapshotTerm' = [lastSnapshotTerm EXCEPT ![i] = LogTerm(i, index)]
      /\ logs' = [logs EXCEPT ![i] = Discard(i, index)]
      /\ UNCHANGED <<term, vote4>> /\ Persist(i)
  BY DEF PersistSnapshot, electionVars
<1> QED
  BY <1>1, StateTypes DEF Saves, OnlyStateOf

LEMMA VoteRequestSaves ==
  ASSUME TypeOK, NEW m \in voteRequests, HandleVoteRequest(m.dst, m)
  PROVE  Saves(m.dst)
<1>1. PICK t, v : /\ term' = [term EXCEPT ![m.dst] = t]
                  /\ vote4' = [vote4 EXCEPT ![m.dst] = v]
  BY DEF HandleVoteRequest
<1>2. UNCHANGED logVars /\ Persist(m.dst)
  BY DEF HandleVoteRequest
<1> QED
  BY <1>1, <1>2, StateTypes DEF Saves, OnlyStateOf, logVars

LEMMA VoteReplySaves ==
  ASSUME TypeOK, NEW m \in voteReplies, HandleVoteReply(m.dst, m)
  PROVE  Saves(m.dst)
<1>1. UNCHANGED logVars /\ m.dst \in Server
  BY DEF HandleVoteReply, TypeOK, VoteReplies
<1>2. CASE StepDown(m.dst, m.term)
  BY <1>1, <1>2, StepDownIsOwn DEF Saves
<1>3. CASE UNCHANGED <<electionVars, disk>>
  BY <1>1, <1>3 DEF Saves, stateVars, electionVars, logVars
<1>4. CASE TakeOffice(m.dst)
  <2>1. UNCHANGED <<term, vote4>> /\ Persist(m.dst)
    BY <1>4 DEF TakeOffice
  <2> QED
    BY <1>1, <2>1 DEF Saves, OnlyStateOf, logVars
<1>5. \/ StepDown(m.dst, m.term) \/ UNCHANGED <<electionVars, disk>>
      \/ TakeOffice(m.dst)
  BY DEF HandleVoteReply, CountVote
<1> QED
  BY <1>2, <1>3, <1>4, <1>5

LEMMA AppendEntriesSaves ==
  ASSUME TypeOK, NEW m \in appendRequests, HandleAppendEntries(m.dst, m)
  PROVE  Saves(m.dst)
<1>1. /\ m.dst \in Server
      /\ UNCHANGED <<lastSnapshotIndex, lastSnapshotTerm>>
  BY DEF HandleAppendEntries, TypeOK, AppendRequests
<1>2. CASE UNCHANGED <<electionVars, logs, disk>>
  BY <1>1, <1>2 DEF Saves, stateVars, electionVars
<1>3. CASE /\ AdoptTerm(m.dst, m.term) /\ Persist(m.dst)
           /\ UNCHANGED logs \/ Accept(m.dst, m)
  <2> SUFFICES ASSUME NEW j \in Server \ {m.dst}
               PROVE  logs'[j] = logs[j] /\ term'[j] = term[j] /\ vote4'[j] = vote4[j]
    BY <1>1, <1>3 DEF Saves, OnlyStateOf
  <2>1. logs'[j] = logs[j]
    BY <1>3, StateTypes DEF Accept
  <2>2. AdoptTerm(m.dst, m.term)
    BY <1>3
  <2> QED
    BY <1>1, <2>1, <2>2, AdoptIsOwn
<1>4. \/ UNCHANGED <<electionVars, logs, disk>>
      \/ /\ AdoptTerm(m.dst, m.term) /\ Persist(m.dst)
         /\ UNCHANGED logs \/ Accept(m.dst, m)
  BY DEF HandleAppendEntries
<1> QED
  BY <1>2, <1>3, <1>4

LEMMA AppendReplySaves ==
  ASSUME TypeOK, NEW m \in appendReplies, HandleAppendReply(m.dst, m)
  PROVE  Saves(m.dst)
<1>1. /\ m.dst \in Server /\ UNCHANGED logVars
      /\ StepDown(m.dst, m.term) \/ UNCHANGED <<electionVars, disk>>
  BY DEF HandleAppendReply, TypeOK, AppendReplies
<1>2. CASE UNCHANGED <<electionVars, disk>>
  BY <1>1, <1>2 DEF Saves, stateVars, electionVars, logVars
<1> QED
  BY <1>1, <1>2, StepDownIsOwn DEF Saves

LEMMA InstallSnapshotSaves ==
  ASSUME TypeOK, NEW m \in snapshotRequests, HandleInstallSnapshot(m.dst, m)
  PROVE  Saves(m.dst)
<1>1. m.dst \in Server
  BY DEF TypeOK, SnapshotRequests
<1>2. CASE UNCHANGED <<electionVars, logVars, disk>>
  BY <1>2 DEF Saves, stateVars, electionVars, logVars
<1>3. CASE /\ AdoptTerm(m.dst, m.term) /\ Persist(m.dst)
           /\ UNCHANGED logVars \/ Install(m.dst, m)
  <2> SUFFICES ASSUME NEW j \in Server \ {m.dst}
               PROVE  /\ term'[j] = term[j] /\ vote4'[j] = vote4[j]
                      /\ logs'[j] = logs[j]
                      /\ lastSnapshotIndex'[j] = lastSnapshotIndex[j]
                      /\ lastSnapshotTerm'[j] = lastSnapshotTerm[j]
    BY <1>3 DEF Saves, OnlyStateOf
  <2>1. /\ logs'[j] = logs[j]
        /\ lastSnapshotIndex'[j] = lastSnapshotIndex[j]
        /\ lastSnapshotTerm'[j] = lastSnapshotTerm[j]
    BY <1>3, StateTypes DEF Install, logVars
  <2>2. AdoptTerm(m.dst, m.term)
    BY <1>3
  <2> QED
    BY <1>1, <2>1, <2>2, AdoptIsOwn
<1>4. \/ UNCHANGED <<electionVars, logVars, disk>>
      \/ /\ AdoptTerm(m.dst, m.term) /\ Persist(m.dst)
         /\ UNCHANGED logVars \/ Install(m.dst, m)
  BY DEF HandleInstallSnapshot
<1> QED
  BY <1>2, <1>3, <1>4

LEMMA SnapshotReplySaves ==
  ASSUME TypeOK, NEW m \in snapshotReplies, HandleSnapshotReply(m.dst, m)
  PROVE  Saves(m.dst)
<1>1. /\ m.dst \in Server /\ UNCHANGED logVars
      /\ StepDown(m.dst, m.term) \/ UNCHANGED <<electionVars, disk>>
  BY DEF HandleSnapshotReply, TypeOK, SnapshotReplies
<1>2. CASE UNCHANGED <<electionVars, disk>>
  BY <1>1, <1>2 DEF Saves, stateVars, electionVars, logVars
<1> QED
  BY <1>1, <1>2, StepDownIsOwn DEF Saves

LEMMA StepSaves ==
  ASSUME TypeOK, Step
  PROVE  \E i \in Server : Saves(i)
<1>0. /\ \A m \in voteRequests : m.dst \in Server
      /\ \A m \in voteReplies : m.dst \in Server
      /\ \A m \in appendRequests : m.dst \in Server
      /\ \A m \in appendReplies : m.dst \in Server
      /\ \A m \in snapshotRequests : m.dst \in Server
      /\ \A m \in snapshotReplies : m.dst \in Server
      /\ \A th \in snapshotThreads : th.src \in Server
  BY DEF TypeOK, VoteRequests, VoteReplies, AppendRequests, AppendReplies,
         SnapshotRequests, SnapshotReplies, SnapshotThreads
<1>1. CASE \E i \in Server : Stand4Election(i)
  BY <1>1, StandSaves
<1>2. CASE \E i \in Server : Heartbeat(i)
  BY <1>2 DEF Heartbeat, Saves, stateVars, electionVars, logVars
<1>3. CASE \E i \in Server : ApplierTick(i)
  BY <1>3 DEF ApplierTick, Saves, stateVars, electionVars, logVars
<1>4. CASE \E i \in Server, c \in Command : Execute(i, c)
  BY <1>4, ExecuteSaves
<1>5. CASE \E i \in Server, index \in 1..MaxIndex : PersistSnapshot(i, index)
  BY <1>5, PersistSnapshotSaves
<1>6. CASE \E m \in voteRequests : HandleVoteRequest(m.dst, m)
  BY <1>0, <1>6, VoteRequestSaves
<1>7. CASE \E m \in voteReplies : HandleVoteReply(m.dst, m)
  BY <1>0, <1>7, VoteReplySaves
<1>8. CASE \E m \in appendRequests : HandleAppendEntries(m.dst, m)
  BY <1>0, <1>8, AppendEntriesSaves
<1>9. CASE \E m \in appendReplies : HandleAppendReply(m.dst, m)
  BY <1>0, <1>9, AppendReplySaves
<1>10. CASE \E th \in snapshotThreads : SendSnapshot(th.src, th)
  BY <1>0, <1>10 DEF SendSnapshot, Saves, stateVars, electionVars, logVars
<1>11. CASE \E m \in snapshotRequests : HandleInstallSnapshot(m.dst, m)
  BY <1>0, <1>11, InstallSnapshotSaves
<1>12. CASE \E m \in snapshotReplies : HandleSnapshotReply(m.dst, m)
  BY <1>0, <1>12, SnapshotReplySaves
<1> QED
  BY <1>1, <1>2, <1>3, <1>4, <1>5, <1>6, <1>7, <1>8, <1>9, <1>10, <1>11, <1>12 DEF Step

\* The constructor empties the file and starts from the blank state.
LEMMA RestartIsBlank ==
  ASSUME TypeOK, Durable, NEW i \in Server, Restart(i)
  PROVE  Durable'
<1> SUFFICES ASSUME NEW j \in Server
             PROVE  Load(disk'[j]) = Dump(j)'
  BY DEF Durable, Load
<1>1. /\ term' = [term EXCEPT ![i] = 0] /\ vote4' = [vote4 EXCEPT ![i] = Nil]
      /\ logs' = [logs EXCEPT ![i] = <<>>]
      /\ lastSnapshotIndex' = [lastSnapshotIndex EXCEPT ![i] = 0]
      /\ lastSnapshotTerm' = [lastSnapshotTerm EXCEPT ![i] = 0]
      /\ disk' = [disk EXCEPT ![i] = Nil]
  BY DEF Restart, Load, Blank
<1>2. disk \in [Server -> StateFiles \cup {Nil}]
  BY DEF TypeOK
<1>3. CASE j = i
  BY <1>1, <1>2, <1>3, StateTypes DEF Load, Blank, Dump
<1>4. CASE j # i
  <2>1. disk'[j] = disk[j]
    BY <1>1, <1>2, <1>4
  <2>2. Dump(j)' = Dump(j)
    BY <1>1, <1>4, StateTypes DEF Dump
  <2> QED
    BY <2>1, <2>2 DEF Durable
<1> QED
  BY <1>3, <1>4

-----------------------------------------------------------------------------

\* Whenever no handler holds _M_mutex, what the file would load is the state of the
\* node: every path of every handler that changes a persistent field ends in
\* _M_persist.
THEOREM AlwaysSaved == CrashSpec => []Durable
<1>1. Init => Durable
  BY DEF Init, Durable, Load, Blank, Dump
<1>2. TypeOK /\ TypeOK' /\ Durable /\ [CrashStep]_vars => Durable'
  <2> SUFFICES ASSUME TypeOK, TypeOK', Durable, [CrashStep]_vars
               PROVE  Durable'
    OBVIOUS
  <2>1. CASE Step
    BY <2>1, StepSaves, SavedIsHeld, NothingToSave DEF Saves
  <2>2. CASE \E i \in Server : Restart(i)
    BY <2>2, RestartIsBlank
  <2>3. CASE UNCHANGED vars
    BY <2>3, NothingToSave DEF vars, stateVars, electionVars, logVars
  <2> QED
    BY <2>1, <2>2, <2>3 DEF CrashStep
<1> QED
  BY <1>1, <1>2, TypesAndIndexes, PTL DEF CrashSpec
=============================================================================
