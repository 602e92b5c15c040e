-------------------------- MODULE RaftCommitProofs --------------------------
(***************************************************************************)
(* AckedIsHeld and CommitIsHeld of CrashSpec, for every cluster and        *)
(* through restarts, from ReplicationInv:                                  *)
(*   - a log only grows until its node restarts (RaftNodeProofs), so what  *)
(*     was acknowledged stays held however late the answer is read;        *)
(*   - a round's counter counts each peer once, because a round asks each  *)
(*     peer once and its counters are reset once a term: a leader cannot   *)
(*     win its own term twice;                                             *)
(*   - so the answer that completes a majority commits what a majority     *)
(*     holds, and followers and snapshots only pass on what was committed. *)
(***************************************************************************)
EXTENDS RaftNodeProofs

\* Holds after the step, of a value it may have computed.
HoldsNext(j, x) == boot'[j] > 0 \/ x <= LastLogIndex(j)'

LEMMA HeldStays ==
  ASSUME TypeOK, TypeOK', \A j \in Server : LogGrows(j)
  PROVE  \A j \in Server, x \in Nat : Holds(j, x) => HoldsNext(j, x)
<1> TAKE j \in Server, x \in Nat
<1>1. LastLogIndex(j) \in Nat /\ boot[j] \in Nat
  BY LogEndTypes
<1>2. boot'[j] \in Nat /\ LastLogIndex(j)' \in Nat
  <2>1. boot'[j] \in Nat /\ logs'[j] \in Seq(Entries) /\ lastSnapshotIndex'[j] \in Nat
    BY DEF TypeOK
  <2> QED
    BY <2>1, LenProperties DEF LastLogIndex
<1>3. LogGrows(j)
  OBVIOUS
<1>4. CASE boot'[j] = boot[j]
  BY <1>1, <1>2, <1>3, <1>4 DEF LogGrows, Holds, HoldsNext
<1>5. CASE boot'[j] # boot[j]
  BY <1>1, <1>2, <1>3, <1>5 DEF LogGrows, HoldsNext
<1> QED
  BY <1>4, <1>5

LEMMA HoldersFinite ==
  ASSUME NEW S, S \subseteq Server
  PROVE  IsFiniteSet(S) /\ Cardinality(S) \in Nat /\ Cardinality(S) <= Cardinality(Server)
         /\ Cardinality(Server) \in Nat
BY FS_Subset, FS_CardinalityType, ServerAssumption

\* A larger set of holders is no smaller a majority.
LEMMA MajorityGrows ==
  ASSUME NEW S, NEW T, S \subseteq T, T \subseteq Server,
         2 * Cardinality(S) > Cardinality(Server)
  PROVE  2 * Cardinality(T) > Cardinality(Server)
<1>1. IsFiniteSet(T) /\ Cardinality(S) \in Nat /\ Cardinality(T) \in Nat
      /\ Cardinality(Server) \in Nat
  BY HoldersFinite
<1>2. Cardinality(S) <= Cardinality(T)
  BY <1>1, FS_Subset
<1> QED
  BY <1>1, <1>2

\* What a majority holds it goes on holding.
LEMMA MajorityStays ==
  ASSUME TypeOK, TypeOK', \A j \in Server : LogGrows(j), NEW x \in Nat, HeldByMajority(x)
  PROVE  2 * Cardinality({j \in Server : HoldsNext(j, x)}) > Cardinality(Server)
<1>1. {j \in Server : Holds(j, x)} \subseteq {j \in Server : HoldsNext(j, x)}
  BY HeldStays
<1> QED
  BY <1>1, MajorityGrows DEF HeldByMajority

\* A majority that holds an index holds those below it.
LEMMA MajorityBelow ==
  ASSUME TypeOK, NEW x \in Nat, NEW y \in Nat, x <= y, HeldByMajority(y)
  PROVE  HeldByMajority(x)
<1>1. {j \in Server : Holds(j, y)} \subseteq {j \in Server : Holds(j, x)}
  BY LogEndTypes DEF Holds
<1> QED
  BY <1>1, MajorityGrows DEF HeldByMajority

\* Everybody holds index 0.
LEMMA MajorityOfNothing ==
  ASSUME TypeOK
  PROVE  HeldByMajority(0)
<1>1. {j \in Server : Holds(j, 0)} = Server
  BY LogEndTypes DEF Holds
<1>2. Cardinality(Server) \in Nat /\ Cardinality(Server) # 0
  BY FS_CardinalityType, FS_EmptySet, ServerAssumption
<1> QED
  BY <1>1, <1>2 DEF HeldByMajority

-----------------------------------------------------------------------------
(* What is acknowledged and what is committed is held. *)

\* A step whose new acknowledgements are of what is held, and whose new commits are
\* of what a majority holds.
LEMMA HeldFrame ==
  ASSUME TypeOK, TypeOK', AcksAreHeld, CommitsAreHeld, \A j \in Server : LogGrows(j),
         \A i, j \in Server :
           matchIndex'[i][j] = matchIndex[i][j] \/ HoldsNext(j, matchIndex'[i][j]),
         \A m \in appendReplies' :
           m.success => m \in appendReplies \/ HoldsNext(m.src, m.lastIndex),
         \A m \in snapshotReplies' :
           m.term <= m.sentTerm => m \in snapshotReplies \/ HoldsNext(m.src, m.lastIndex),
         \A i \in Server :
           commitIndex'[i] = commitIndex[i] \/ HeldByMajority(commitIndex'[i]),
         \A m \in appendRequests' : m \in appendRequests \/ HeldByMajority(m.leaderCommit),
         \A m \in snapshotRequests' : m \in snapshotRequests \/ HeldByMajority(m.lastIndex)
  PROVE  AcksAreHeld' /\ CommitsAreHeld'
<1>1. ASSUME NEW i \in Server, NEW j \in Server
      PROVE  HoldsNext(j, matchIndex'[i][j])
  <2>1. matchIndex[i][j] \in Nat
    BY DEF TypeOK
  <2>2. Holds(j, matchIndex[i][j])
    BY DEF AcksAreHeld
  <2> QED
    BY <2>1, <2>2, HeldStays
<1>2. ASSUME NEW m \in appendReplies', m.success
      PROVE  HoldsNext(m.src, m.lastIndex)
  <2>1. CASE m \in appendReplies
    <3>1. m.src \in Server /\ m.lastIndex \in Nat
      BY <2>1 DEF TypeOK, AppendReplies
    <3>2. Holds(m.src, m.lastIndex)
      BY <1>2, <2>1 DEF AcksAreHeld
    <3> QED
      BY <3>1, <3>2, HeldStays
  <2> QED
    BY <1>2, <2>1
<1>3. ASSUME NEW m \in snapshotReplies', m.term <= m.sentTerm
      PROVE  HoldsNext(m.src, m.lastIndex)
  <2>1. CASE m \in snapshotReplies
    <3>1. m.src \in Server /\ m.lastIndex \in Nat
      BY <2>1 DEF TypeOK, SnapshotReplies
    <3>2. Holds(m.src, m.lastIndex)
      BY <1>3, <2>1 DEF AcksAreHeld
    <3> QED
      BY <3>1, <3>2, HeldStays
  <2> QED
    BY <1>3, <2>1
<1>4. AcksAreHeld'
  BY <1>1, <1>2, <1>3 DEF AcksAreHeld, Holds, HoldsNext
<1>5. ASSUME NEW i \in Server
      PROVE  HeldByMajority(commitIndex[i])'
  <2>1. commitIndex'[i] \in Nat
    BY DEF TypeOK
  <2>2. HeldByMajority(commitIndex'[i])
    BY DEF CommitsAreHeld
  <2>3. 2 * Cardinality({j \in Server : HoldsNext(j, commitIndex'[i])}) > Cardinality(Server)
    BY <2>1, <2>2, MajorityStays
  <2> QED
    BY <2>3 DEF HeldByMajority, Holds, HoldsNext
<1>6. ASSUME NEW m \in appendRequests'
      PROVE  HeldByMajority(m.leaderCommit)'
  <2>1. m.leaderCommit \in Nat
    BY DEF TypeOK, AppendRequests
  <2>2. HeldByMajority(m.leaderCommit)
    BY DEF CommitsAreHeld
  <2>3. 2 * Cardinality({j \in Server : HoldsNext(j, m.leaderCommit)}) > Cardinality(Server)
    BY <2>1, <2>2, MajorityStays
  <2> QED
    BY <2>3 DEF HeldByMajority, Holds, HoldsNext
<1>7. ASSUME NEW m \in snapshotRequests'
      PROVE  HeldByMajority(m.lastIndex)'
  <2>1. m.lastIndex \in Nat
    BY DEF TypeOK, SnapshotRequests
  <2>2. HeldByMajority(m.lastIndex)
    BY DEF CommitsAreHeld
  <2>3. 2 * Cardinality({j \in Server : HoldsNext(j, m.lastIndex)}) > Cardinality(Server)
    BY <2>1, <2>2, MajorityStays
  <2> QED
    BY <2>3 DEF HeldByMajority, Holds, HoldsNext
<1> QED
  BY <1>4, <1>5, <1>6, <1>7 DEF CommitsAreHeld

\* A step that acknowledges and commits nothing.
LEMMA QuietHeld ==
  ASSUME TypeOK, TypeOK', AcksAreHeld, CommitsAreHeld, \A j \in Server : LogGrows(j),
         UNCHANGED <<matchIndex, commitIndex>>,
         appendRequests' \subseteq appendRequests, appendReplies' \subseteq appendReplies,
         snapshotRequests' \subseteq snapshotRequests, snapshotReplies' \subseteq snapshotReplies
  PROVE  AcksAreHeld' /\ CommitsAreHeld'
<1>1. \A i, j \in Server : matchIndex'[i][j] = matchIndex[i][j]
  OBVIOUS
<1>2. \A i \in Server : commitIndex'[i] = commitIndex[i]
  OBVIOUS
<1> QED
  BY <1>1, <1>2, HeldFrame

\* A heartbeat tells the leader's commit index, which a majority holds.
LEMMA HeartbeatHeld ==
  ASSUME TypeOK, TypeOK', AcksAreHeld, CommitsAreHeld, \A j \in Server : LogGrows(j),
         NEW i \in Server, Heartbeat(i)
  PROVE  AcksAreHeld' /\ CommitsAreHeld'
<1>1. UNCHANGED <<matchIndex, commitIndex, appendReplies, snapshotRequests, snapshotReplies>>
  BY DEF Heartbeat, progressVars
<1>2. ASSUME NEW m \in appendRequests', m \notin appendRequests
      PROVE  HeldByMajority(m.leaderCommit)
  <2>1. PICK j \in Server, r \in 1..MaxRounds : m = AppendRequest(i, j, r)
    BY <1>2, HeartbeatCalls
  <2>2. m.leaderCommit = commitIndex[i]
    BY <2>1 DEF AppendRequest
  <2> QED
    BY <2>2 DEF CommitsAreHeld
<1>3. /\ \A k, j \in Server : matchIndex'[k][j] = matchIndex[k][j]
      /\ \A k \in Server : commitIndex'[k] = commitIndex[k]
  BY <1>1
<1> QED
  BY <1>1, <1>2, <1>3, HeldFrame

\* A new leader has counted nothing of its peers yet, and holds its own log.
LEMMA VoteReplyHeld ==
  ASSUME TypeOK, TypeOK', AcksAreHeld, CommitsAreHeld, \A j \in Server : LogGrows(j),
         NEW m \in voteReplies, HandleVoteReply(m.dst, m)
  PROVE  AcksAreHeld' /\ CommitsAreHeld'
<1> DEFINE i == m.dst
<1>1. /\ UNCHANGED <<commitIndex, appendRequests, appendReplies, snapshotRequests,
                     snapshotReplies>>
      /\ UNCHANGED <<logs, lastSnapshotIndex>>
  BY DEF HandleVoteReply, progressVars, appendCalls, snapshotCalls, logVars
<1>2. i \in Server
  BY DEF TypeOK, VoteReplies
<1>3. CASE UNCHANGED matchIndex
  BY <1>1, <1>3, QuietHeld
<1>4. CASE TakeOffice(i)
  <2>1. matchIndex' = [matchIndex EXCEPT ![i] =
                         [j \in Server |-> IF j = i THEN LastLogIndex(i) ELSE 0]]
    BY <1>4 DEF TakeOffice
  <2>2. ASSUME NEW k \in Server, NEW j \in Server
        PROVE  matchIndex'[k][j] = matchIndex[k][j] \/ HoldsNext(j, matchIndex'[k][j])
    <3>1. matchIndex \in [Server -> [Server -> Nat]]
      BY DEF TypeOK
    <3>2. CASE k # i
      BY <2>1, <3>1, <3>2
    <3>3. CASE k = i
      <4>1. matchIndex'[k][j] = IF j = i THEN LastLogIndex(i) ELSE 0
        BY <1>2, <2>1, <3>1, <3>3
      <4>2. LastLogIndex(j)' = LastLogIndex(j) /\ LastLogIndex(j) \in Nat
        BY <1>1, LogEndTypes DEF LastLogIndex
      <4> QED
        BY <4>1, <4>2 DEF HoldsNext
    <3> QED
      BY <3>2, <3>3
  <2>3. \A k \in Server : commitIndex'[k] = commitIndex[k]
    BY <1>1
  <2> HIDE DEF i
  <2> QED
    BY <1>1, <2>2, <2>3, HeldFrame
<1> QED
  BY <1>3, <1>4 DEF HandleVoteReply, CountVote, leaderVars

\* Whoever accepts a request holds what it acknowledges, and commits no more than
\* the leader has.
LEMMA AppendEntriesHeld ==
  ASSUME TypeOK, TypeOK', AcksAreHeld, CommitsAreHeld, \A j \in Server : LogGrows(j),
         NEW m \in appendRequests, HandleAppendEntries(m.dst, m)
  PROVE  AcksAreHeld' /\ CommitsAreHeld'
<1> DEFINE i == m.dst
<1>1. /\ UNCHANGED <<matchIndex, snapshotRequests, snapshotReplies, lastSnapshotIndex, boot>>
      /\ appendRequests' \subseteq appendRequests
  BY DEF HandleAppendEntries, leaderVars, snapshotCalls
<1>2. i \in Server /\ m.leaderCommit \in Nat
  BY DEF TypeOK, AppendRequests
<1>3. \A k, j \in Server : matchIndex'[k][j] = matchIndex[k][j]
  BY <1>1
<1>4. CASE /\ \E next \in Nat \cup {InvalidUpdateNextIndex} :
                appendReplies' = appendReplies \cup {AppendReply(i, m, FALSE, next)}
           /\ UNCHANGED commitIndex
  <2>1. \A n \in appendReplies' : n.success => n \in appendReplies
    BY <1>4 DEF AppendReply
  <2> QED
    BY <1>1, <1>3, <1>4, <2>1, HeldFrame
<1>5. CASE /\ Accepts(i, m) /\ Accept(i, m)
           /\ appendReplies' \subseteq appendReplies \cup {AppendReply(i, m, TRUE, 0)}
  <2>1. LastLogIndex(i)' >= m.prevIndex + Len(m.entries)
    BY <1>1, <1>5, AcceptKeepsLength
  <2>2. /\ AppendReply(i, m, TRUE, 0).src = i
        /\ AppendReply(i, m, TRUE, 0).lastIndex = m.prevIndex + Len(m.entries)
    BY DEF AppendReply
  <2>3. /\ m.prevIndex + Len(m.entries) \in Nat /\ LastLogIndex(i)' \in Nat
    <3>1. m.prevIndex \in Nat /\ m.entries \in Seq(Entries)
      BY DEF TypeOK, AppendRequests
    <3>2. logs'[i] \in Seq(Entries) /\ lastSnapshotIndex'[i] \in Nat
      BY <1>2 DEF TypeOK
    <3> QED
      BY <3>1, <3>2, LenProperties DEF LastLogIndex
  <2>4. \A n \in appendReplies' :
          n.success => n \in appendReplies \/ HoldsNext(n.src, n.lastIndex)
    BY <1>5, <2>1, <2>2, <2>3 DEF HoldsNext
  <2>5. ASSUME NEW k \in Server
        PROVE  commitIndex'[k] = commitIndex[k] \/ HeldByMajority(commitIndex'[k])
    <3> DEFINE reach == lastSnapshotIndex[i] + Len(logs'[i])
               n == IF m.leaderCommit > commitIndex[i]
                      THEN Smaller(m.leaderCommit, reach) ELSE commitIndex[i]
    <3>1. commitIndex' = [commitIndex EXCEPT ![i] = n] /\ commitIndex \in [Server -> Nat]
      BY <1>5 DEF Accept, TypeOK
    <3>2. reach \in Nat
      BY <1>1, <2>3 DEF LastLogIndex
    <3>3. n = commitIndex[i] \/ (n \in Nat /\ n <= m.leaderCommit)
      BY <1>2, <3>2 DEF Smaller
    <3> HIDE DEF n, i
    <3>4. CASE k = i /\ n # commitIndex[i]
      <4>1. n \in Nat /\ n <= m.leaderCommit /\ commitIndex'[k] = n
        BY <3>1, <3>3, <3>4
      <4>2. HeldByMajority(m.leaderCommit)
        BY DEF CommitsAreHeld
      <4>3. HeldByMajority(n)
        BY <1>2, <4>1, <4>2, MajorityBelow
      <4> QED
        BY <4>1, <4>3
    <3> QED
      BY <3>1, <3>4
  <2> HIDE DEF i
  <2> QED
    BY <1>1, <1>3, <2>4, <2>5, HeldFrame
<1>6. LastLogIndex(i) \in Nat /\ lastSnapshotIndex[i] \in Nat
  BY <1>2, LogEndTypes
<1>7. \A next \in lastSnapshotIndex[i]..(LastLogIndex(i) + 1) : next \in Nat
  BY <1>6
<1> QED
  BY <1>4, <1>5, <1>7 DEF HandleAppendEntries

\* What a node sends as its snapshot it has committed.
LEMMA SendSnapshotHeld ==
  ASSUME TypeOK, TypeOK', IndexOrder, AcksAreHeld, CommitsAreHeld,
         \A j \in Server : LogGrows(j), NEW th \in snapshotThreads, SendSnapshot(th.src, th)
  PROVE  AcksAreHeld' /\ CommitsAreHeld'
<1> DEFINE i == th.src
<1>1. /\ UNCHANGED <<matchIndex, commitIndex, appendRequests, appendReplies, snapshotReplies>>
      /\ i \in Server
  BY DEF SendSnapshot, leaderVars, progressVars, appendCalls, TypeOK, SnapshotThreads
<1>2. HeldByMajority(lastSnapshotIndex[i])
  <2>1. HeldByMajority(commitIndex[i])
    BY <1>1 DEF CommitsAreHeld
  <2>2. lastSnapshotIndex[i] \in Nat /\ commitIndex[i] \in Nat
        /\ lastSnapshotIndex[i] <= commitIndex[i]
    BY <1>1, IndexTypes
  <2> QED
    BY <2>1, <2>2, MajorityBelow
<1>3. \A m \in snapshotRequests' : m \in snapshotRequests \/ HeldByMajority(m.lastIndex)
  BY <1>2 DEF SendSnapshot
<1>4. /\ \A k, j \in Server : matchIndex'[k][j] = matchIndex[k][j]
      /\ \A k \in Server : commitIndex'[k] = commitIndex[k]
  BY <1>1
<1> QED
  BY <1>1, <1>3, <1>4, HeldFrame

\* Whoever answers a snapshot with no newer term holds what it covers: it has
\* installed it, or covered it already.
LEMMA InstallSnapshotHeld ==
  ASSUME TypeOK, TypeOK', AcksAreHeld, CommitsAreHeld, \A j \in Server : LogGrows(j),
         NEW m \in snapshotRequests, HandleInstallSnapshot(m.dst, m)
  PROVE  AcksAreHeld' /\ CommitsAreHeld'
<1> DEFINE i == m.dst
<1>1. /\ UNCHANGED <<matchIndex, appendRequests, appendReplies, boot>>
      /\ snapshotRequests' \subseteq snapshotRequests
  BY DEF HandleInstallSnapshot, leaderVars, appendCalls
<1>2. i \in Server /\ m.lastIndex \in Nat /\ m.term \in Nat /\ term[i] \in Nat
  BY DEF TypeOK, SnapshotRequests
<1>3. \A k, j \in Server : matchIndex'[k][j] = matchIndex[k][j]
  BY <1>1
<1>4. \A t : /\ SnapshotReply(i, m, t).src = i
             /\ SnapshotReply(i, m, t).lastIndex = m.lastIndex
             /\ SnapshotReply(i, m, t).sentTerm = m.term
             /\ SnapshotReply(i, m, t).term = t
  BY DEF SnapshotReply
<1>5. CASE /\ m.term < term[i] /\ UNCHANGED commitIndex
           /\ snapshotReplies' = snapshotReplies \cup {SnapshotReply(i, m, term[i])}
  <2>1. \A n \in snapshotReplies' : n.term <= n.sentTerm => n \in snapshotReplies
    BY <1>2, <1>4, <1>5
  <2> QED
    BY <1>1, <1>3, <1>5, <2>1, HeldFrame
<1>6. CASE /\ m.lastIndex <= lastSnapshotIndex[i] /\ UNCHANGED <<logVars, progressVars>>
           /\ snapshotReplies' = snapshotReplies \cup {SnapshotReply(i, m, 0)}
  <2>1. HoldsNext(i, m.lastIndex)
    <3>1. LastLogIndex(i)' = LastLogIndex(i)
      BY <1>6 DEF LastLogIndex, logVars
    <3>2. LastLogIndex(i) \in Nat /\ LastLogIndex(i) >= lastSnapshotIndex[i]
          /\ lastSnapshotIndex[i] \in Nat
      BY <1>2, LogTypes DEF TypeOK
    <3> QED
      BY <1>2, <1>6, <3>1, <3>2 DEF HoldsNext
  <2>2. \A n \in snapshotReplies' : n \in snapshotReplies \/ HoldsNext(n.src, n.lastIndex)
    BY <1>4, <1>6, <2>1
  <2>3. \A k \in Server : commitIndex'[k] = commitIndex[k]
    BY <1>6 DEF progressVars
  <2> QED
    BY <1>1, <1>3, <2>2, <2>3, HeldFrame
<1>7. CASE /\ m.lastIndex > lastSnapshotIndex[i] /\ Install(i, m)
           /\ snapshotReplies' = snapshotReplies \cup {SnapshotReply(i, m, m.term)}
  <2>1. HoldsNext(i, m.lastIndex)
    BY <1>1, <1>2, <1>7, InstallKeepsLength DEF HoldsNext
  <2>2. \A n \in snapshotReplies' : n \in snapshotReplies \/ HoldsNext(n.src, n.lastIndex)
    BY <1>4, <1>7, <2>1
  <2>3. HeldByMajority(m.lastIndex)
    BY DEF CommitsAreHeld
  <2>4. \A k \in Server : commitIndex'[k] = commitIndex[k] \/ commitIndex'[k] = m.lastIndex
    <3>1. commitIndex' = [commitIndex EXCEPT ![i] = Larger(commitIndex[i], m.lastIndex)]
          /\ commitIndex \in [Server -> Nat]
      BY <1>7 DEF Install, TypeOK
    <3> QED
      BY <1>2, <3>1 DEF Larger
  <2>5. \A k \in Server : commitIndex'[k] = commitIndex[k] \/ HeldByMajority(commitIndex'[k])
    BY <2>3, <2>4
  <2> QED
    BY <1>1, <1>3, <2>2, <2>5, HeldFrame
<1> QED
  BY <1>5, <1>6, <1>7 DEF HandleInstallSnapshot, progressVars

\* A leader that takes a snapshot answer at its word believes what the peer holds.
LEMMA SnapshotReplyHeld ==
  ASSUME TypeOK, TypeOK', AcksAreHeld, CommitsAreHeld, \A j \in Server : LogGrows(j),
         NEW m \in snapshotReplies, HandleSnapshotReply(m.dst, m)
  PROVE  AcksAreHeld' /\ CommitsAreHeld'
<1> DEFINE i == m.dst
<1>1. /\ UNCHANGED <<commitIndex, appendRequests, appendReplies, snapshotRequests>>
      /\ snapshotReplies' \subseteq snapshotReplies
  BY DEF HandleSnapshotReply, progressVars, appendCalls
<1>2. /\ i \in Server /\ m.src \in Server /\ m.lastIndex \in Nat
      /\ matchIndex \in [Server -> [Server -> Nat]]
  BY DEF TypeOK, SnapshotReplies
<1>3. CASE UNCHANGED matchIndex
  BY <1>1, <1>3, QuietHeld
<1>4. CASE /\ m.term <= term[i] /\ m.sentTerm = term[i]
           /\ matchIndex' = [matchIndex EXCEPT ![i][m.src] = m.lastIndex]
  <2>1. HoldsNext(m.src, m.lastIndex)
    <3>1. Holds(m.src, m.lastIndex)
      BY <1>4 DEF AcksAreHeld
    <3> QED
      BY <1>2, <3>1, HeldStays
  <2>2. ASSUME NEW k \in Server, NEW j \in Server
        PROVE  matchIndex'[k][j] = matchIndex[k][j] \/ HoldsNext(j, matchIndex'[k][j])
    <3>1. matchIndex' = [matchIndex EXCEPT ![i] = [matchIndex[i] EXCEPT ![m.src] = m.lastIndex]]
      BY <1>4
    <3>2. matchIndex[i] \in [Server -> Nat]
      BY <1>2
    <3>3. matchIndex'[k][j] = IF k = i /\ j = m.src THEN m.lastIndex ELSE matchIndex[k][j]
      BY <1>2, <3>1, <3>2
    <3> QED
      BY <2>1, <3>3
  <2>3. \A k \in Server : commitIndex'[k] = commitIndex[k]
    BY <1>1
  <2> QED
    BY <1>1, <2>2, <2>3, HeldFrame
<1> QED
  BY <1>3, <1>4 DEF HandleSnapshotReply

\* A restart takes back what the node itself believed, and excuses what it held.
LEMMA RestartHeld ==
  ASSUME TypeOK, TypeOK', AcksAreHeld, CommitsAreHeld, \A j \in Server : LogGrows(j),
         NEW i \in Server, Restart(i)
  PROVE  AcksAreHeld' /\ CommitsAreHeld'
<1>1. /\ appendRequests' \subseteq appendRequests /\ appendReplies' \subseteq appendReplies
      /\ snapshotRequests' \subseteq snapshotRequests
  BY DEF Restart
<1>2. ASSUME NEW k \in Server, NEW j \in Server
      PROVE  matchIndex'[k][j] = matchIndex[k][j] \/ HoldsNext(j, matchIndex'[k][j])
  <2>1. /\ matchIndex' = [matchIndex EXCEPT ![i] = [n \in Server |-> 0]]
        /\ matchIndex \in [Server -> [Server -> Nat]]
    BY DEF Restart, TypeOK
  <2>2. matchIndex'[k][j] = matchIndex[k][j] \/ matchIndex'[k][j] = 0
    BY <2>1
  <2>3. HoldsNext(j, 0)
    BY LogEndTypes, HeldStays DEF Holds
  <2> QED
    BY <2>2, <2>3
<1>3. ASSUME NEW m \in snapshotReplies', m \notin snapshotReplies
      PROVE  HoldsNext(m.src, m.lastIndex)
  <2>1. PICK q \in snapshotRequests : m = SnapshotReply(i, q, 0)
    BY <1>3 DEF Restart
  <2>2. m.src = i
    BY <2>1 DEF SnapshotReply
  <2>3. boot'[i] > 0
    BY DEF Restart, TypeOK
  <2> QED
    BY <2>2, <2>3 DEF HoldsNext
<1>4. \A k \in Server : commitIndex'[k] = commitIndex[k] \/ HeldByMajority(commitIndex'[k])
  <2>1. commitIndex' = [commitIndex EXCEPT ![i] = 0] /\ commitIndex \in [Server -> Nat]
    BY DEF Restart, TypeOK
  <2>2. \A k \in Server : commitIndex'[k] = commitIndex[k] \/ commitIndex'[k] = 0
    BY <2>1
  <2> QED
    BY <2>2, MajorityOfNothing
<1> QED
  BY <1>1, <1>2, <1>3, <1>4, HeldFrame

-----------------------------------------------------------------------------
(* What the shared counters count. *)

\* A step leaves node s in its incarnation and term, or takes it to a later one.
SameEra(s) == boot'[s] = boot[s] /\ term'[s] = term[s]
NewEra(s)  == boot'[s] > boot[s] \/ (boot'[s] = boot[s] /\ term'[s] > term[s])

LEMMA Eras ==
  ASSUME TypeOK, TypeOK', CrashStep, \A j \in Server : LogGrows(j)
  PROVE  \A s \in Server : SameEra(s) \/ NewEra(s)
<1> TAKE s \in Server
<1>1. boot'[s] >= boot[s]
  BY DEF LogGrows
<1>2. /\ boot[s] \in Nat /\ boot'[s] \in Nat
      /\ term[s] \in Nat /\ term'[s] \in Nat
  BY DEF TypeOK
<1>3. boot'[s] = boot[s] => term'[s] >= term[s]
  <2>1. CASE Step
    BY <2>1, BallotsKept DEF BallotKept
  <2>2. CASE \E i \in Server : Restart(i)
    BY <2>2, RestartKeeps DEF BallotKept
  <2> QED
    BY <2>1, <2>2 DEF CrashStep
<1> QED
  BY <1>1, <1>2, <1>3 DEF SameEra, NewEra

CountersOf(i) ==
  CandidacyIsSingle(i) /\ WonOnce(i) /\ RoundIsSingle(i) /\ RoundIsCounted(i)

\* A call of a living thread is of the present term of its node or of an earlier one.
LEMMA CallsOfTheEra ==
  ASSUME TypeOK, TypeOK', CallTermsKnown, NEW s \in Server, NewEra(s)
  PROVE  /\ \A m \in voteRequests \cup appendRequests :
              ~(m.src = s /\ m.boot = boot'[s] /\ m.term = term'[s])
         /\ \A m \in {n \in voteReplies : n.granted} \cup {n \in appendReplies : n.success} :
              ~(m.dst = s /\ m.boot = boot'[s] /\ m.term = term'[s])
<1>1. /\ boot[s] \in Nat /\ boot'[s] \in Nat
      /\ term[s] \in Nat /\ term'[s] \in Nat
  BY DEF TypeOK
<1>2. ASSUME NEW m \in voteRequests \cup appendRequests, m.src = s,
             m.boot = boot'[s], m.term = term'[s]
      PROVE  FALSE
  BY <1>1, <1>2 DEF CallTermsKnown, SentBy, NewEra
<1>3. ASSUME NEW m \in {n \in voteReplies : n.granted} \cup {n \in appendReplies : n.success},
             m.dst = s, m.boot = boot'[s], m.term = term'[s]
      PROVE  FALSE
  BY <1>1, <1>3 DEF CallTermsKnown, SentBy, NewEra
<1> QED
  BY <1>2, <1>3

\* Calls of the present term, and answers to calls that were there, keep the terms of
\* the calls known.
LEMMA KnownKept ==
  ASSUME TypeOK, TypeOK', CallTermsKnown, \A s \in Server : SameEra(s) \/ NewEra(s),
         \A m \in voteRequests' \cup appendRequests' :
           \/ m \in voteRequests \cup appendRequests
           \/ m.src \in Server /\ m.boot = boot'[m.src] /\ m.term = term'[m.src],
         \A m \in {n \in voteReplies' : n.granted} \cup {n \in appendReplies' : n.success} :
           \/ m \in {n \in voteReplies : n.granted} \cup {n \in appendReplies : n.success}
           \/ \E n \in voteRequests \cup appendRequests :
                n.src = m.dst /\ n.boot = m.boot /\ n.term = m.term
  PROVE  CallTermsKnown'
<1>1. \A s \in Server : /\ boot[s] \in Nat /\ boot'[s] \in Nat
                        /\ term[s] \in Nat /\ term'[s] \in Nat
  BY DEF TypeOK
<1>2. /\ \A m \in voteRequests \cup appendRequests :
           m.src \in Server /\ m.boot \in Nat /\ m.term \in Nat
      /\ \A m \in {n \in voteReplies : n.granted} \cup {n \in appendReplies : n.success} :
           m.dst \in Server /\ m.boot \in Nat /\ m.term \in Nat
  BY DEF TypeOK, VoteRequests, AppendRequests, VoteReplies, AppendReplies
<1>3. ASSUME NEW s \in Server, NEW b \in Nat, NEW t \in Nat,
             b <= boot[s], b = boot[s] => t <= term[s]
      PROVE  b <= boot'[s] /\ (b = boot'[s] => t <= term'[s])
  BY <1>1, <1>3 DEF SameEra, NewEra
<1>4. ASSUME NEW m \in voteRequests' \cup appendRequests'
      PROVE  m.boot <= boot'[m.src] /\ (m.boot = boot'[m.src] => m.term <= term'[m.src])
  <2>1. CASE m \in voteRequests \cup appendRequests
    BY <1>2, <1>3, <2>1 DEF CallTermsKnown, SentBy
  <2>2. CASE m.src \in Server /\ m.boot = boot'[m.src] /\ m.term = term'[m.src]
    BY <1>1, <2>2
  <2> QED
    BY <2>1, <2>2
<1>5. ASSUME NEW m \in {n \in voteReplies' : n.granted} \cup {n \in appendReplies' : n.success}
      PROVE  m.boot <= boot'[m.dst] /\ (m.boot = boot'[m.dst] => m.term <= term'[m.dst])
  <2>1. CASE m \in {n \in voteReplies : n.granted} \cup {n \in appendReplies : n.success}
    BY <1>2, <1>3, <2>1 DEF CallTermsKnown, SentBy
  <2>2. CASE \E n \in voteRequests \cup appendRequests :
               n.src = m.dst /\ n.boot = m.boot /\ n.term = m.term
    <3>1. PICK n \in voteRequests \cup appendRequests :
                 n.src = m.dst /\ n.boot = m.boot /\ n.term = m.term
      BY <2>2
    <3>2. /\ n.src \in Server /\ n.boot \in Nat /\ n.term \in Nat
          /\ n.boot <= boot[n.src] /\ (n.boot = boot[n.src] => n.term <= term[n.src])
      BY <1>2 DEF CallTermsKnown, SentBy
    <3> QED
      BY <1>3, <3>1, <3>2
  <2> QED
    BY <1>5, <2>1, <2>2
<1> QED
  BY <1>4, <1>5 DEF CallTermsKnown, SentBy

\* A node that enters a new term waits for nothing yet.
LEMMA FreshCounters ==
  ASSUME NEW s \in Server, VotesAsked(s)' = {}, VotesGranted(s)' = {},
         AppendsAsked(s)' = {}, AppendsAcked(s)' = {}, identity'[s] # "leader",
         voteNum'[s] <= Cardinality(counted'[s])
  PROVE  CountersOf(s)'
<1>1. Open(s)' = {}
  BY DEF Open
<1>2. CandidacyIsSingle(s)'
  BY DEF CandidacyIsSingle
<1>3. WonOnce(s)' /\ RoundIsSingle(s)'
  BY DEF WonOnce, InOffice, RoundIsSingle
<1>4. RoundIsCounted(s)'
  BY <1>1 DEF RoundIsCounted
<1> QED
  BY <1>2, <1>3, <1>4 DEF CountersOf

\* While fewer calls are open, those that hold what a round sent only get more.
LEMMA SettledGrows ==
  ASSUME TypeOK, TypeOK', \A j \in Server : LogGrows(j),
         NEW s \in Server, NEW r, NEW x \in Nat,
         \A o \in Open(s)' : o[1] = r => o \in Open(s)
  PROVE  /\ Settled(s, r, x) \subseteq Settled(s, r, x)'
         /\ Cardinality(Settled(s, r, x)) <= Cardinality(Settled(s, r, x)')
         /\ Cardinality(Settled(s, r, x)) \in Nat /\ Cardinality(Settled(s, r, x)') \in Nat
<1>1. Settled(s, r, x) \subseteq Settled(s, r, x)'
  <2> SUFFICES ASSUME NEW j \in Settled(s, r, x)
               PROVE  j \in Settled(s, r, x)'
    OBVIOUS
  <2>1. /\ j \in Peers(s) /\ j \in Server /\ Holds(j, x)
        /\ \A o \in Open(s) : ~(o[1] = r /\ o[2] = j)
    BY DEF Settled, Peers
  <2>2. Holds(j, x)'
    BY <2>1, HeldStays DEF Holds, HoldsNext
  <2>3. \A o \in Open(s)' : ~(o[1] = r /\ o[2] = j)
    BY <2>1
  <2> QED
    BY <2>1, <2>2, <2>3 DEF Settled
<1>2. Settled(s, r, x)' \subseteq Server
  BY DEF Settled, Peers
<1>3. IsFiniteSet(Settled(s, r, x)')
  BY <1>2, FS_Subset, ServerAssumption
<1> QED
  BY <1>1, <1>3, FS_Subset, FS_CardinalityType

LEMMA OpenTypes ==
  ASSUME TypeOK, NEW s \in Server, NEW o \in Open(s)
  PROVE  /\ o = <<o[1], o[2], o[3]>>
         /\ o[1] \in 1..MaxRounds /\ o[2] \in Server /\ o[3] \in Nat
<1>1. CASE o \in {<<m.round, m.dst, m.prevIndex + Len(m.entries)>> : m \in AppendsAsked(s)}
  <2>1. PICK m \in appendRequests : o = <<m.round, m.dst, m.prevIndex + Len(m.entries)>>
    BY <1>1 DEF AppendsAsked
  <2>2. /\ m.round \in 1..MaxRounds /\ m.dst \in Server /\ m.prevIndex \in Nat
        /\ m.entries \in Seq(Entries)
    BY DEF TypeOK, AppendRequests
  <2>3. m.prevIndex + Len(m.entries) \in Nat
    BY <2>2, LenProperties
  <2> QED
    BY <2>1, <2>2, <2>3
<1>2. CASE o \in {<<m.round, m.src, m.lastIndex>> : m \in AppendsAcked(s)}
  <2>1. PICK m \in appendReplies : o = <<m.round, m.src, m.lastIndex>>
    BY <1>2 DEF AppendsAcked
  <2>2. m.round \in 1..MaxRounds /\ m.src \in Server /\ m.lastIndex \in Nat
    BY DEF TypeOK, AppendReplies
  <2> QED
    BY <2>1, <2>2
<1> QED
  BY <1>1, <1>2 DEF Open

\* A round that nobody counts, and whose calls only disappear, stays counted.
LEMMA RoundsStay ==
  ASSUME TypeOK, TypeOK', \A j \in Server : LogGrows(j), NEW s \in Server,
         RoundIsCounted(s), Open(s)' \subseteq Open(s), appendNum'[s] = appendNum[s]
  PROVE  RoundIsCounted(s)'
<1>1. \A o, p \in Open(s)' : o[1] = p[1] => o[3] = p[3]
  BY DEF RoundIsCounted
<1>2. ASSUME NEW o \in Open(s)'
      PROVE  appendNum'[s][o[1]] <= 1 + Cardinality(Settled(s, o[1], o[3])')
  <2>1. o \in Open(s)
    OBVIOUS
  <2>2. o[1] \in 1..MaxRounds /\ o[3] \in Nat
    BY <2>1, OpenTypes
  <2>3. appendNum[s][o[1]] <= 1 + Cardinality(Settled(s, o[1], o[3]))
    BY <2>1 DEF RoundIsCounted
  <2>4. appendNum[s][o[1]] \in Nat
    <3>1. appendNum[s] \in [1..MaxRounds -> Nat]
      BY DEF TypeOK
    <3> QED
      BY <2>2, <3>1
  <2>5. /\ Cardinality(Settled(s, o[1], o[3])) <= Cardinality(Settled(s, o[1], o[3])')
        /\ Cardinality(Settled(s, o[1], o[3])) \in Nat
        /\ Cardinality(Settled(s, o[1], o[3])') \in Nat
    BY <2>2, SettledGrows
  <2> QED
    BY <2>3, <2>4, <2>5
<1> QED
  BY <1>1, <1>2 DEF RoundIsCounted

LEMMA CandidacyStays ==
  ASSUME NEW s \in Server, CandidacyIsSingle(s),
         VotesAsked(s)' \subseteq VotesAsked(s), VotesGranted(s)' \subseteq VotesGranted(s),
         voteNum'[s] = voteNum[s], counted'[s] = counted[s]
  PROVE  CandidacyIsSingle(s)'
BY DEF CandidacyIsSingle

LEMMA OfficeStays ==
  ASSUME TypeOK, TypeOK', \A j \in Server : LogGrows(j), NEW s \in Server,
         WonOnce(s), RoundIsSingle(s), RoundIsCounted(s),
         AppendsAsked(s)' \subseteq AppendsAsked(s), AppendsAcked(s)' \subseteq AppendsAcked(s),
         identity'[s] = "leader" => identity[s] = "leader",
         voteNum'[s] = voteNum[s], counted'[s] = counted[s],
         round'[s] = round[s], appendNum'[s] = appendNum[s]
  PROVE  WonOnce(s)' /\ RoundIsSingle(s)' /\ RoundIsCounted(s)'
<1>1. WonOnce(s)'
  BY DEF WonOnce, InOffice
<1>2. RoundIsSingle(s)'
  BY DEF RoundIsSingle
<1>3. Open(s)' \subseteq Open(s)
  BY DEF Open
<1>4. RoundIsCounted(s)'
  BY <1>3, RoundsStay
<1> QED
  BY <1>1, <1>2, <1>4

\* A node whose calls are only consumed, and whose counters stand, counts as before.
LEMMA SameCounters ==
  ASSUME TypeOK, TypeOK', \A j \in Server : LogGrows(j), NEW s \in Server, CountersOf(s),
         VotesAsked(s)' \subseteq VotesAsked(s), VotesGranted(s)' \subseteq VotesGranted(s),
         AppendsAsked(s)' \subseteq AppendsAsked(s), AppendsAcked(s)' \subseteq AppendsAcked(s),
         identity'[s] = "leader" => identity[s] = "leader",
         voteNum'[s] = voteNum[s], counted'[s] = counted[s],
         round'[s] = round[s], appendNum'[s] = appendNum[s]
  PROVE  CountersOf(s)'
<1>1. CandidacyIsSingle(s) /\ WonOnce(s) /\ RoundIsSingle(s) /\ RoundIsCounted(s)
  BY DEF CountersOf
<1>2. CandidacyIsSingle(s)'
  BY <1>1, CandidacyStays
<1>3. WonOnce(s)' /\ RoundIsSingle(s)' /\ RoundIsCounted(s)'
  BY <1>1, OfficeStays
<1> QED
  BY <1>2, <1>3 DEF CountersOf

\* What CallsOfTheEra says of the calls themselves.
LEMMA NothingAskedYet ==
  ASSUME TypeOK, TypeOK', CallTermsKnown, NEW s \in Server, NewEra(s)
  PROVE  /\ voteRequests' \subseteq voteRequests => VotesAsked(s)' = {}
         /\ appendRequests' \subseteq appendRequests => AppendsAsked(s)' = {}
         /\ (\A m \in voteReplies' : m.granted => m \in voteReplies) => VotesGranted(s)' = {}
         /\ (\A m \in appendReplies' : m.success => m \in appendReplies)
              => AppendsAcked(s)' = {}
BY CallsOfTheEra DEF VotesAsked, AppendsAsked, VotesGranted, AppendsAcked

\* A step that counts nothing: nodes stay in their term with fewer calls open, or
\* enter a new one with none.
LEMMA CountersFrame ==
  ASSUME TypeOK, TypeOK', CountersInv, \A j \in Server : LogGrows(j),
         \A s \in Server : SameEra(s) \/ NewEra(s),
         UNCHANGED <<voteNum, counted, round, appendNum>>,
         \A s \in Server :
           identity'[s] = "leader" => identity[s] = "leader" /\ SameEra(s),
         voteRequests' \subseteq voteRequests, appendRequests' \subseteq appendRequests,
         \A m \in voteReplies' : m.granted => m \in voteReplies,
         \A m \in appendReplies' : m.success => m \in appendReplies
  PROVE  CountersInv'
<1>1. CallTermsKnown /\ \A s \in Server : CountersOf(s)
  BY DEF CountersInv, CountersOf
<1>2. CallTermsKnown'
  BY <1>1, KnownKept
<1>3. ASSUME NEW s \in Server
      PROVE  CountersOf(s)'
  <2>1. CASE NewEra(s)
    <3>1. VotesAsked(s)' = {} /\ VotesGranted(s)' = {}
          /\ AppendsAsked(s)' = {} /\ AppendsAcked(s)' = {}
      BY <1>1, <2>1, NothingAskedYet
    <3>2. identity'[s] # "leader"
      <4>1. boot[s] \in Nat /\ boot'[s] \in Nat /\ term[s] \in Nat /\ term'[s] \in Nat
        BY DEF TypeOK
      <4> QED
        BY <2>1, <4>1 DEF SameEra, NewEra
    <3>3. voteNum'[s] <= Cardinality(counted'[s])
      BY <1>1 DEF CountersOf, CandidacyIsSingle
    <3> QED
      BY <3>1, <3>2, <3>3, FreshCounters
  <2>2. CASE SameEra(s)
    <3>1. /\ VotesAsked(s)' \subseteq VotesAsked(s)
          /\ VotesGranted(s)' \subseteq VotesGranted(s)
          /\ AppendsAsked(s)' \subseteq AppendsAsked(s)
          /\ AppendsAcked(s)' \subseteq AppendsAcked(s)
      BY <2>2 DEF SameEra, VotesAsked, VotesGranted, AppendsAsked, AppendsAcked
    <3> QED
      BY <1>1, <3>1, SameCounters
  <2> QED
    BY <2>1, <2>2
<1> QED
  BY <1>2, <1>3 DEF CountersInv, CountersOf

\* A candidacy asks every peer once, in a term nothing was asked in yet.
LEMMA StandCounters ==
  ASSUME TypeOK, TypeOK', CountersInv, \A j \in Server : LogGrows(j),
         NEW i \in Server, Stand4Election(i)
  PROVE  CountersInv'
<1> DEFINE ask(j) == [src |-> i, dst |-> j, boot |-> boot[i], term |-> term[i] + 1,
                      lastIndex |-> LastLogIndex(i), lastTerm |-> LastLogTerm(i)]
<1>1. CallTermsKnown /\ \A s \in Server : CountersOf(s)
  BY DEF CountersInv, CountersOf
<1>2. /\ UNCHANGED <<boot, voteReplies, appendRequests, appendReplies, round, appendNum>>
      /\ voteRequests' = voteRequests \cup {ask(j) : j \in Peers(i)}
      /\ term' = [term EXCEPT ![i] = term[i] + 1]
      /\ identity' = [identity EXCEPT ![i] = "candidate"]
      /\ voteNum' = [voteNum EXCEPT ![i] = 1]
      /\ counted' = [counted EXCEPT ![i] = {i}]
  BY DEF Stand4Election, appendCalls, leaderVars
<1>3. \A j \in Peers(i) : /\ ask(j).src = i /\ ask(j).dst = j /\ ask(j).boot = boot[i]
                          /\ ask(j).term = term[i] + 1
  OBVIOUS
<1> HIDE DEF ask
<1>4. /\ term'[i] = term[i] + 1 /\ identity'[i] = "candidate" /\ voteNum'[i] = 1
      /\ counted'[i] = {i} /\ term[i] \in Nat
      /\ \A s \in Server \ {i} :
           /\ term'[s] = term[s] /\ identity'[s] = identity[s]
           /\ voteNum'[s] = voteNum[s] /\ counted'[s] = counted[s]
  BY <1>2 DEF TypeOK
<1>5. NewEra(i) /\ \A s \in Server \ {i} : SameEra(s)
  BY <1>2, <1>4 DEF NewEra, SameEra
<1>6. CallTermsKnown'
  <2>1. \A m \in voteRequests' \cup appendRequests' :
           \/ m \in voteRequests \cup appendRequests
           \/ m.src \in Server /\ m.boot = boot'[m.src] /\ m.term = term'[m.src]
    BY <1>2, <1>3, <1>4
  <2> QED
    BY <1>1, <1>2, <1>5, <2>1, KnownKept
<1>7. CountersOf(i)'
  <2>1. VotesGranted(i)' = {} /\ AppendsAsked(i)' = {} /\ AppendsAcked(i)' = {}
    BY <1>1, <1>2, <1>5, NothingAskedYet
  <2>2. \A m \in VotesAsked(i)' : \E j \in Peers(i) : m = ask(j)
    BY <1>1, <1>2, <1>5, CallsOfTheEra DEF VotesAsked
  <2>3. /\ \A m, n \in VotesAsked(i)' : m.dst = n.dst => m = n
        /\ \A m \in VotesAsked(i)' : m.dst \notin counted'[i]
    BY <1>3, <1>4, <2>2 DEF Peers
  <2>4. voteNum'[i] <= Cardinality(counted'[i])
    <3>1. Cardinality({i}) = 1
      BY FS_Singleton
    <3> QED
      BY <1>4, <3>1
  <2>5. CandidacyIsSingle(i)'
    BY <2>1, <2>3, <2>4 DEF CandidacyIsSingle
  <2>6. Open(i)' = {}
    BY <2>1 DEF Open
  <2>7. WonOnce(i)' /\ RoundIsSingle(i)' /\ RoundIsCounted(i)'
    BY <1>4, <2>1, <2>6 DEF WonOnce, InOffice, RoundIsSingle, RoundIsCounted
  <2> QED
    BY <2>5, <2>7 DEF CountersOf
<1>8. ASSUME NEW s \in Server, s # i
      PROVE  CountersOf(s)'
  <2>1. /\ VotesAsked(s)' \subseteq VotesAsked(s)
        /\ VotesGranted(s)' \subseteq VotesGranted(s)
        /\ AppendsAsked(s)' \subseteq AppendsAsked(s)
        /\ AppendsAcked(s)' \subseteq AppendsAcked(s)
    BY <1>2, <1>3, <1>4, <1>8 DEF VotesAsked, VotesGranted, AppendsAsked, AppendsAcked
  <2> QED
    BY <1>1, <1>2, <1>4, <1>8, <2>1, SameCounters
<1> QED
  BY <1>6, <1>7, <1>8 DEF CountersInv, CountersOf

\* A vote granted takes the place of the request it answers.
LEMMA VoteRequestCounters ==
  ASSUME TypeOK, TypeOK', CountersInv, \A j \in Server : LogGrows(j),
         \A s \in Server : SameEra(s) \/ NewEra(s),
         NEW m \in voteRequests, HandleVoteRequest(m.dst, m)
  PROVE  CountersInv'
<1> DEFINE i == m.dst
           answer == [src |-> i, dst |-> m.src, boot |-> m.boot,
                      term |-> Larger(term[i], m.term), granted |-> Grants(i, m)]
<1>1. CallTermsKnown /\ \A s \in Server : CountersOf(s)
  BY DEF CountersInv, CountersOf
<1>2. /\ UNCHANGED <<boot, appendRequests, appendReplies, round, appendNum, voteNum, counted>>
      /\ voteRequests' = voteRequests \ {m}
      /\ voteReplies' = voteReplies \cup {answer}
      /\ term' = [term EXCEPT ![i] = Larger(@, m.term)]
      /\ identity' = [identity EXCEPT ![i] = IF m.term > term[i] THEN "follower" ELSE @]
  BY DEF HandleVoteRequest, appendCalls, leaderVars, history
<1>3. /\ i \in Server /\ m.src \in Server /\ m.term \in Nat /\ term[i] \in Nat
      /\ boot[i] \in Nat
  BY DEF TypeOK, VoteRequests
<1>4. answer.granted => /\ answer.src = m.dst /\ answer.dst = m.src
                        /\ answer.boot = m.boot /\ answer.term = m.term
  BY <1>3 DEF Grants, Larger
<1>5. ASSUME NEW s \in Server, NewEra(s)
      PROVE  identity'[s] # "leader"
  <2>1. /\ boot[s] \in Nat /\ term[s] \in Nat /\ boot'[s] = boot[s]
        /\ term \in [Server -> Nat]
    BY <1>2 DEF TypeOK
  <2>2. term'[s] > term[s]
    BY <1>5, <2>1 DEF NewEra
  <2>3. s = i
    BY <1>2, <2>1, <2>2
  <2>4. m.term > term[i]
    BY <1>2, <1>3, <2>1, <2>2, <2>3 DEF Larger
  <2> QED
    BY <1>2, <1>3, <2>3, <2>4 DEF TypeOK
<1>6. \A s \in Server : identity'[s] = "leader" => identity[s] = "leader"
  BY <1>2, <1>3 DEF TypeOK
<1> HIDE DEF answer, i
<1>7. CallTermsKnown'
  <2>1. \A q \in {n \in voteReplies' : n.granted} \cup {n \in appendReplies' : n.success} :
          \/ q \in {n \in voteReplies : n.granted} \cup {n \in appendReplies : n.success}
          \/ \E n \in voteRequests \cup appendRequests :
               n.src = q.dst /\ n.boot = q.boot /\ n.term = q.term
    BY <1>2, <1>4
  <2> QED
    BY <1>1, <1>2, <2>1, KnownKept
<1>8. ASSUME NEW s \in Server, NewEra(s)
      PROVE  CountersOf(s)'
  <2>1. VotesAsked(s)' = {} /\ AppendsAsked(s)' = {} /\ AppendsAcked(s)' = {}
    BY <1>1, <1>2, <1>8, NothingAskedYet
  <2>2. VotesGranted(s)' = {}
    <3>1. ~(m.src = s /\ m.boot = boot'[s] /\ m.term = term'[s])
      BY <1>1, <1>8, CallsOfTheEra
    <3>2. \A n \in voteReplies : n.granted =>
            ~(n.dst = s /\ n.boot = boot'[s] /\ n.term = term'[s])
      BY <1>1, <1>8, CallsOfTheEra
    <3> QED
      BY <1>2, <1>4, <3>1, <3>2 DEF VotesGranted
  <2>3. voteNum'[s] <= Cardinality(counted'[s])
    BY <1>1, <1>2 DEF CountersOf, CandidacyIsSingle
  <2> QED
    BY <1>5, <1>8, <2>1, <2>2, <2>3, FreshCounters
<1>9. ASSUME NEW s \in Server, SameEra(s)
      PROVE  CountersOf(s)'
  <2>1. /\ VotesAsked(s)' = VotesAsked(s) \ {m}
        /\ VotesGranted(s)' \subseteq VotesGranted(s) \cup {answer}
        /\ answer \in VotesGranted(s)' /\ answer \notin VotesGranted(s) =>
             /\ m \in VotesAsked(s)
             /\ answer.src = m.dst
        /\ AppendsAsked(s)' \subseteq AppendsAsked(s)
        /\ AppendsAcked(s)' \subseteq AppendsAcked(s)
    BY <1>2, <1>4, <1>9 DEF SameEra, VotesAsked, VotesGranted, AppendsAsked, AppendsAcked
  <2>2. CandidacyIsSingle(s)
    BY <1>1 DEF CountersOf
  <2>3. CASE answer \in VotesGranted(s)' /\ answer \notin VotesGranted(s)
    <3>1. m \in VotesAsked(s) /\ answer.src = m.dst
      BY <2>1, <2>3
    <3>2. \A n \in VotesGranted(s) : n.src # answer.src
      BY <2>2, <3>1 DEF CandidacyIsSingle
    <3>3. \A q \in VotesAsked(s)' : q \in VotesAsked(s) /\ q.dst # answer.src
      BY <2>1, <2>2, <3>1 DEF CandidacyIsSingle
    <3>4. answer.src \notin counted[s]
      BY <2>2, <3>1 DEF CandidacyIsSingle
    <3>5. CandidacyIsSingle(s)'
      BY <1>2, <2>1, <2>2, <3>2, <3>3, <3>4 DEF CandidacyIsSingle
    <3> QED
      BY <1>1, <1>2, <1>6, <2>1, <3>5, OfficeStays DEF CountersOf
  <2>4. CASE VotesGranted(s)' \subseteq VotesGranted(s)
    BY <1>1, <1>2, <1>6, <2>1, <2>4, SameCounters
  <2> QED
    BY <2>1, <2>3, <2>4
<1> QED
  BY <1>7, <1>8, <1>9 DEF CountersInv, CountersOf

LEMMA MajorityFacts ==
  /\ Majority \in Nat /\ Cardinality(Server) \in Nat
  /\ 2 * Majority > Cardinality(Server)
<1>1. Cardinality(Server) \in Nat
  BY FS_CardinalityType, ServerAssumption
<1> QED
  BY <1>1 DEF Majority

\* The vote that completes a majority comes once a term: afterwards too few peers are
\* left to complete another (the threads of _L_sendRequestVote, whoever falls back).
LEMMA CountedVoteCounters ==
  ASSUME TypeOK, TypeOK', CountersInv, \A j \in Server : LogGrows(j),
         NEW m \in voteReplies, m.boot = boot[m.dst], m.term = term[m.dst], m.granted,
         voteReplies' = voteReplies \ {m},
         UNCHANGED <<boot, voteRequests, appendRequests, appendReplies>>,
         counted' = [counted EXCEPT ![m.dst] = @ \cup {m.src}], CountVote(m.dst)
  PROVE  CountersInv'
<1> DEFINE i == m.dst
           won == voteNum[i] + 1 >= Majority
<1>1. CallTermsKnown /\ \A s \in Server : CountersOf(s)
  BY DEF CountersInv, CountersOf
<1>2. i \in Server /\ m.src \in Server
  BY DEF TypeOK, VoteReplies
<1>3. UNCHANGED term
  BY DEF CountVote, TakeOffice, electionVars
<1>4. \A s \in Server : SameEra(s)
  BY <1>3 DEF SameEra
<1>5. m \in VotesGranted(i)
  BY DEF VotesGranted
<1>6. /\ counted'[i] = counted[i] \cup {m.src} /\ m.src \notin counted[i]
      /\ \A s \in Server \ {i} : counted'[s] = counted[s]
  <2>1. counted \in [Server -> SUBSET Server]
    BY DEF TypeOK
  <2>2. m.src \notin counted[i]
    BY <1>1, <1>2, <1>5 DEF CountersOf, CandidacyIsSingle
  <2> QED
    BY <1>2, <2>1, <2>2
<1>7. /\ Cardinality(counted[i]) \in Nat
      /\ Cardinality(counted'[i]) = Cardinality(counted[i]) + 1
      /\ Cardinality(counted'[i]) <= Cardinality(Server)
  <2>1. counted[i] \subseteq Server /\ counted'[i] \subseteq Server
    BY <1>2 DEF TypeOK
  <2>2. IsFiniteSet(counted[i]) /\ Cardinality(counted[i]) \in Nat
        /\ Cardinality(counted'[i]) <= Cardinality(Server)
    BY <2>1, HoldersFinite
  <2> QED
    BY <1>6, <2>2, FS_AddElement
<1>8. /\ voteNum[i] \in Nat /\ voteNum[i] <= Cardinality(counted[i])
      /\ voteNum'[i] = IF won THEN 0 ELSE voteNum[i] + 1
      /\ \A s \in Server \ {i} : voteNum'[s] = voteNum[s]
  <2>1. voteNum \in [Server -> Nat]
    BY DEF TypeOK
  <2>2. voteNum' = [voteNum EXCEPT ![i] = IF won THEN 0 ELSE @ + 1]
    BY DEF CountVote
  <2>3. voteNum[i] <= Cardinality(counted[i])
    BY <1>1, <1>2 DEF CountersOf, CandidacyIsSingle
  <2> QED
    BY <1>2, <2>1, <2>2, <2>3
<1>9. InOffice(i) => ~won
  <2>1. InOffice(i) => voteNum[i] + Majority <= Cardinality(counted[i])
    BY <1>1, <1>2 DEF CountersOf, WonOnce
  <2> QED
    BY <1>7, <1>8, <2>1, MajorityFacts
<1>10. /\ won => TakeOffice(i)
       /\ ~won => UNCHANGED <<identity, round, appendNum>>
  BY <1>9 DEF CountVote, InOffice, electionVars, leaderVars
<1>11. \A s \in Server \ {i} :
         /\ identity'[s] = identity[s] /\ round'[s] = round[s]
         /\ appendNum'[s] = appendNum[s]
  <2>1. DOMAIN identity = Server /\ DOMAIN round = Server /\ DOMAIN appendNum = Server
    BY DEF TypeOK
  <2> QED
    BY <1>10, <2>1 DEF TakeOffice
<1> HIDE DEF i
<1>12. /\ VotesAsked(i)' = VotesAsked(i) /\ VotesGranted(i)' = VotesGranted(i) \ {m}
       /\ AppendsAsked(i)' = AppendsAsked(i) /\ AppendsAcked(i)' = AppendsAcked(i)
  BY <1>3 DEF VotesAsked, VotesGranted, AppendsAsked, AppendsAcked
<1>13. CandidacyIsSingle(i)'
  <2>1. CandidacyIsSingle(i)
    BY <1>1, <1>2 DEF CountersOf
  <2>2. /\ \A q \in VotesAsked(i) : q.dst # m.src
        /\ \A q \in VotesGranted(i) : q # m => q.src # m.src
    BY <1>5, <2>1 DEF CandidacyIsSingle
  <2>3. /\ \A q \in VotesAsked(i)' : q.dst \notin counted'[i]
        /\ \A q \in VotesGranted(i)' : q.src \notin counted'[i]
    BY <1>6, <1>12, <2>1, <2>2 DEF CandidacyIsSingle
  <2>4. voteNum'[i] <= Cardinality(counted'[i])
    BY <1>7, <1>8
  <2> QED
    BY <1>12, <2>1, <2>3, <2>4 DEF CandidacyIsSingle
<1>14. WonOnce(i)' /\ RoundIsSingle(i)' /\ RoundIsCounted(i)'
  <2>1. CASE won
    <3>1. AppendsAsked(i)' = {} /\ AppendsAcked(i)' = {}
      BY <1>9, <1>12, <2>1 DEF InOffice
    <3>2. voteNum'[i] + Majority <= Cardinality(counted'[i])
      BY <1>7, <1>8, <2>1, MajorityFacts
    <3>3. Open(i)' = {}
      BY <3>1 DEF Open
    <3> QED
      BY <3>1, <3>2, <3>3 DEF WonOnce, RoundIsSingle, RoundIsCounted
  <2>2. CASE ~won
    <3>1. WonOnce(i) /\ RoundIsSingle(i) /\ RoundIsCounted(i)
      BY <1>1, <1>2 DEF CountersOf
    <3>2. InOffice(i)' => InOffice(i)
      BY <1>10, <1>12, <2>2 DEF InOffice
    <3>3. WonOnce(i)'
      BY <1>7, <1>8, <2>2, <3>1, <3>2, MajorityFacts DEF WonOnce
    <3>4. RoundIsSingle(i)'
      BY <1>10, <1>12, <2>2, <3>1 DEF RoundIsSingle
    <3>5. Open(i)' \subseteq Open(i)
      BY <1>12 DEF Open
    <3>6. RoundIsCounted(i)'
      BY <1>2, <1>10, <2>2, <3>1, <3>5, RoundsStay
    <3> QED
      BY <3>3, <3>4, <3>6
  <2> QED
    BY <2>1, <2>2
<1>15. ASSUME NEW s \in Server, s # i
       PROVE  CountersOf(s)'
  <2>1. /\ VotesAsked(s)' \subseteq VotesAsked(s)
        /\ VotesGranted(s)' \subseteq VotesGranted(s)
        /\ AppendsAsked(s)' \subseteq AppendsAsked(s)
        /\ AppendsAcked(s)' \subseteq AppendsAcked(s)
    BY <1>3 DEF VotesAsked, VotesGranted, AppendsAsked, AppendsAcked
  <2> QED
    BY <1>1, <1>6, <1>8, <1>11, <1>15, <2>1, SameCounters
<1>16. CallTermsKnown'
  BY <1>1, <1>4, KnownKept
<1> QED
  BY <1>13, <1>14, <1>15, <1>16 DEF CountersInv, CountersOf

LEMMA VoteReplyCounters ==
  ASSUME TypeOK, TypeOK', CountersInv, \A j \in Server : LogGrows(j),
         \A s \in Server : SameEra(s) \/ NewEra(s),
         NEW m \in voteReplies, HandleVoteReply(m.dst, m)
  PROVE  CountersInv'
<1>1. /\ m.boot = boot[m.dst] /\ voteReplies' = voteReplies \ {m}
      /\ UNCHANGED <<boot, voteRequests, appendRequests, appendReplies>>
  BY DEF HandleVoteReply, appendCalls
<1>2. m.dst \in Server /\ m.term \in Nat
  BY DEF TypeOK, VoteReplies
<1>3. CASE /\ \/ UNCHANGED electionVars
              \/ m.term > term[m.dst] /\ StepDown(m.dst, m.term)
           /\ UNCHANGED <<leaderVars, voteNum, counted>>
  <2>1. \A s \in Server : identity'[s] = "leader" => identity[s] = "leader" /\ SameEra(s)
    BY <1>1, <1>2, <1>3 DEF TypeOK, SameEra, StepDown, electionVars
  <2> QED
    BY <1>1, <1>3, <2>1, CountersFrame DEF leaderVars
<1>4. CASE /\ m.term = term[m.dst] /\ m.granted
           /\ counted' = [counted EXCEPT ![m.dst] = @ \cup {m.src}]
           /\ CountVote(m.dst)
  BY <1>1, <1>4, CountedVoteCounters
<1> QED
  BY <1>3, <1>4 DEF HandleVoteReply

\* What a heartbeat sends: one request to a peer, of the next round, up to the end of
\* the leader's log.
LEMMA RoundAsks ==
  ASSUME TypeOK, NEW i \in Server, Heartbeat(i),
         NEW m \in appendRequests', m \notin appendRequests
  PROVE  /\ m.dst \in Peers(i) /\ m = AppendRequest(i, m.dst, round[i] + 1)
         /\ m.src = i /\ m.boot = boot[i] /\ m.term = term[i] /\ m.round = round[i] + 1
         /\ m.prevIndex + Len(m.entries) = LastLogIndex(i)
<1>1. PICK j \in Server, r \in 1..MaxRounds :
        /\ nextIndex[i][j] > lastSnapshotIndex[i] /\ nextIndex[i][j] <= LastLogIndex(i) + 1
        /\ m = AppendRequest(i, j, r)
  BY HeartbeatCalls
<1>2. m.prevIndex + Len(m.entries) = LastLogIndex(i)
  BY <1>1, AppendRequestType
<1>3. PICK k \in Peers(i) : m = AppendRequest(i, k, round[i] + 1)
  BY DEF Heartbeat
<1>4. /\ m.dst = k /\ m.src = i /\ m.boot = boot[i] /\ m.term = term[i]
      /\ m.round = round[i] + 1
  BY <1>3 DEF AppendRequest
<1> QED
  BY <1>2, <1>3, <1>4

\* A new round has its own counter, which counts the leader, and the open calls of
\* earlier rounds go on under theirs.
LEMMA HeartbeatCounters ==
  ASSUME TypeOK, TypeOK', CountersInv, \A j \in Server : LogGrows(j),
         NEW i \in Server, Heartbeat(i)
  PROVE  CountersInv'
<1> DEFINE r == round[i] + 1
<1>1. CallTermsKnown /\ \A s \in Server : CountersOf(s)
  BY DEF CountersInv, CountersOf
<1>2. UNCHANGED <<term, boot, identity, voteNum, counted, voteRequests, voteReplies,
                  appendReplies, logs, lastSnapshotIndex>>
  BY DEF Heartbeat, electionVars, voteCalls, history, logVars
<1>3. /\ identity[i] = "leader"
      /\ round' = [round EXCEPT ![i] = r]
      /\ appendNum' = [appendNum EXCEPT ![i] = [appendNum[i] EXCEPT ![r] = 1]]
  BY DEF Heartbeat
<1>4. /\ round[i] \in Nat /\ r \in 1..MaxRounds /\ round'[i] = r
      /\ appendNum'[i] = [appendNum[i] EXCEPT ![r] = 1]
      /\ appendNum[i] \in [1..MaxRounds -> Nat]
      /\ \A s \in Server \ {i} : round'[s] = round[s] /\ appendNum'[s] = appendNum[s]
  <2>1. round[i] \in Nat /\ r \in 1..MaxRounds
    BY NextRound
  <2>2. round \in [Server -> 0..MaxRounds] /\ appendNum \in [Server -> [1..MaxRounds -> Nat]]
    BY DEF TypeOK
  <2> QED
    BY <1>3, <2>1, <2>2
<1>5. \A s \in Server : SameEra(s)
  BY <1>2 DEF SameEra
<1>6. \A m \in appendRequests' : m \in appendRequests \/
        /\ m.dst \in Peers(i) /\ m = AppendRequest(i, m.dst, r)
        /\ m.src = i /\ m.boot = boot[i] /\ m.term = term[i] /\ m.round = r
        /\ m.prevIndex + Len(m.entries) = LastLogIndex(i)
  BY RoundAsks
<1> HIDE DEF r
<1>7. CallTermsKnown'
  BY <1>1, <1>2, <1>5, <1>6, KnownKept
<1>8. ASSUME NEW s \in Server, s # i
      PROVE  CountersOf(s)'
  <2>1. /\ VotesAsked(s)' \subseteq VotesAsked(s)
        /\ VotesGranted(s)' \subseteq VotesGranted(s)
        /\ AppendsAsked(s)' \subseteq AppendsAsked(s)
        /\ AppendsAcked(s)' \subseteq AppendsAcked(s)
    BY <1>2, <1>6, <1>8 DEF VotesAsked, VotesGranted, AppendsAsked, AppendsAcked
  <2> QED
    BY <1>1, <1>2, <1>4, <1>8, <2>1, SameCounters
<1>9. CandidacyIsSingle(i) /\ WonOnce(i) /\ RoundIsSingle(i) /\ RoundIsCounted(i)
  BY <1>1 DEF CountersOf
<1>10. CandidacyIsSingle(i)'
  <2>1. VotesAsked(i)' = VotesAsked(i) /\ VotesGranted(i)' = VotesGranted(i)
    BY <1>2 DEF VotesAsked, VotesGranted
  <2> QED
    BY <1>2, <1>9, <2>1, CandidacyStays
<1>11. WonOnce(i)'
  BY <1>2, <1>3, <1>9 DEF WonOnce, InOffice
<1>12. /\ AppendsAcked(i)' = AppendsAcked(i)
       /\ \A m \in AppendsAsked(i)' : m \in AppendsAsked(i) \/
            /\ m.dst \in Peers(i) /\ m = AppendRequest(i, m.dst, r) /\ m.round = r
            /\ m.prevIndex + Len(m.entries) = LastLogIndex(i)
  BY <1>2, <1>6 DEF AppendsAsked, AppendsAcked
<1>13. /\ \A m \in AppendsAsked(i) : m.round \in Nat /\ m.round < r
       /\ \A m \in AppendsAcked(i) : m.round \in Nat /\ m.round < r
  <2>1. /\ \A m \in AppendsAsked(i) : m.round \in 1..MaxRounds /\ m.round <= round[i]
        /\ \A m \in AppendsAcked(i) : m.round \in 1..MaxRounds /\ m.round <= round[i]
    BY <1>9 DEF TypeOK, AppendRequests, AppendReplies, AppendsAsked, AppendsAcked,
       RoundIsSingle
  <2> QED
    BY <1>4, <2>1, BoundsAssumption DEF r
<1>14. RoundIsSingle(i)'
  <2>1. /\ \A m \in AppendsAsked(i)' : m.round <= round'[i] /\ m.dst # i
        /\ \A m \in AppendsAcked(i)' : m.round <= round'[i] /\ m.src # i
    BY <1>4, <1>9, <1>12, <1>13 DEF RoundIsSingle, Peers
  <2>2. /\ \A m, n \in AppendsAsked(i)' : m.round = n.round /\ m.dst = n.dst => m = n
        /\ \A m, n \in AppendsAcked(i)' : m.round = n.round /\ m.src = n.src => m = n
        /\ \A m \in AppendsAsked(i)', n \in AppendsAcked(i)' :
             m.round = n.round => m.dst # n.src
    BY <1>4, <1>9, <1>12, <1>13 DEF RoundIsSingle
  <2> QED
    BY <2>1, <2>2 DEF RoundIsSingle
<1>15. /\ \A o \in Open(i)' : o \in Open(i) \/ (o[1] = r /\ o[3] = LastLogIndex(i))
       /\ \A o \in Open(i) : o[1] # r
  <2>1. ASSUME NEW o \in Open(i)'
        PROVE  o \in Open(i) \/ (o[1] = r /\ o[3] = LastLogIndex(i))
    <3>1. CASE \E m \in AppendsAsked(i)' : o = <<m.round, m.dst, m.prevIndex + Len(m.entries)>>
      BY <1>12, <3>1 DEF Open
    <3>2. CASE \E m \in AppendsAcked(i)' : o = <<m.round, m.src, m.lastIndex>>
      BY <1>12, <3>2 DEF Open
    <3> QED
      BY <3>1, <3>2 DEF Open
  <2>2. \A o \in Open(i) : o[1] # r
    BY <1>4, <1>13 DEF Open
  <2> QED
    BY <2>1, <2>2
<1>16. RoundIsCounted(i)'
  <2>1. \A o, p \in Open(i)' : o[1] = p[1] => o[3] = p[3]
    BY <1>9, <1>15 DEF RoundIsCounted
  <2>2. ASSUME NEW o \in Open(i)'
        PROVE  appendNum'[i][o[1]] <= 1 + Cardinality(Settled(i, o[1], o[3])')
    <3>1. CASE o[1] = r
      <4>1. appendNum'[i][o[1]] = 1
        BY <1>4, <3>1
      <4>2. Cardinality(Settled(i, o[1], o[3])') \in Nat
        <5>1. Settled(i, o[1], o[3])' \subseteq Server
          BY DEF Settled, Peers
        <5> QED
          BY <5>1, HoldersFinite
      <4> QED
        BY <4>1, <4>2
    <3>2. CASE o[1] # r
      <4>1. o \in Open(i)
        BY <1>15, <3>2
      <4>2. o[1] \in 1..MaxRounds /\ o[3] \in Nat
        BY <4>1, OpenTypes
      <4>3. appendNum'[i][o[1]] = appendNum[i][o[1]] /\ appendNum[i][o[1]] \in Nat
        BY <1>4, <3>2, <4>2
      <4>4. appendNum[i][o[1]] <= 1 + Cardinality(Settled(i, o[1], o[3]))
        BY <1>9, <4>1 DEF RoundIsCounted
      <4>5. \A q \in Open(i)' : q[1] = o[1] => q \in Open(i)
        BY <1>15, <3>2
      <4>6. /\ Cardinality(Settled(i, o[1], o[3])) <= Cardinality(Settled(i, o[1], o[3])')
            /\ Cardinality(Settled(i, o[1], o[3])) \in Nat
            /\ Cardinality(Settled(i, o[1], o[3])') \in Nat
        BY <4>2, <4>5, SettledGrows
      <4> QED
        BY <4>3, <4>4, <4>6
    <3> QED
      BY <3>1, <3>2
  <2> QED
    BY <2>1, <2>2 DEF RoundIsCounted
<1>17. CountersOf(i)'
  BY <1>10, <1>11, <1>14, <1>16 DEF CountersOf
<1> QED
  BY <1>7, <1>8, <1>17 DEF CountersInv, CountersOf

\* A success takes the place of the request it answers.
LEMMA AppendEntriesCounters ==
  ASSUME TypeOK, TypeOK', CountersInv, \A j \in Server : LogGrows(j),
         \A s \in Server : SameEra(s) \/ NewEra(s),
         NEW m \in appendRequests, HandleAppendEntries(m.dst, m)
  PROVE  CountersInv'
<1> DEFINE i == m.dst
           answer == AppendReply(i, m, TRUE, 0)
<1>1. CallTermsKnown /\ \A s \in Server : CountersOf(s)
  BY DEF CountersInv, CountersOf
<1>2. /\ UNCHANGED <<boot, voteRequests, voteReplies, round, appendNum, voteNum, counted>>
      /\ appendRequests' = appendRequests \ {m}
  BY DEF HandleAppendEntries, voteCalls, leaderVars, history
<1>3. /\ i \in Server /\ m.src \in Server /\ m.term \in Nat /\ term[i] \in Nat
  BY DEF TypeOK, AppendRequests
<1>4. /\ \A n \in appendReplies' : n.success => n \in appendReplies \/ n = answer
      /\ answer \in appendReplies' /\ answer \notin appendReplies => m.term >= term[i]
  <2>1. CASE \E next : appendReplies' = appendReplies \cup {AppendReply(i, m, FALSE, next)}
    <3>1. \A next : AppendReply(i, m, FALSE, next).success = FALSE /\ answer.success = TRUE
      BY DEF AppendReply
    <3> QED
      BY <2>1, <3>1
  <2>2. CASE /\ m.term >= term[i]
             /\ appendReplies' \subseteq appendReplies \cup {answer}
    BY <2>2
  <2> QED
    BY <2>1, <2>2 DEF HandleAppendEntries
<1>5. /\ answer.src = m.dst /\ answer.dst = m.src /\ answer.boot = m.boot
      /\ answer.round = m.round /\ answer.lastIndex = m.prevIndex + Len(m.entries)
      /\ answer.success = TRUE
      /\ m.term >= term[i] => answer.term = m.term
  BY <1>3 DEF AppendReply, Larger
<1>6. \A s \in Server : identity'[s] = "leader" => identity[s] = "leader" /\ SameEra(s)
  <2>1. CASE UNCHANGED electionVars
    BY <1>2, <2>1 DEF electionVars, SameEra
  <2>2. CASE /\ term' = [term EXCEPT ![i] = Larger(@, m.term)]
             /\ identity' = [identity EXCEPT ![i] = "follower"]
    BY <1>2, <1>3, <2>2 DEF TypeOK, SameEra
  <2> QED
    BY <2>1, <2>2 DEF HandleAppendEntries, AdoptTerm
<1> HIDE DEF answer, i
<1>7. CallTermsKnown'
  <2>1. \A q \in {n \in voteReplies' : n.granted} \cup {n \in appendReplies' : n.success} :
          \/ q \in {n \in voteReplies : n.granted} \cup {n \in appendReplies : n.success}
          \/ \E n \in voteRequests \cup appendRequests :
               n.src = q.dst /\ n.boot = q.boot /\ n.term = q.term
    BY <1>2, <1>4, <1>5
  <2> QED
    BY <1>1, <1>2, <2>1, KnownKept
<1>8. ASSUME NEW s \in Server, NewEra(s)
      PROVE  CountersOf(s)'
  <2>1. VotesAsked(s)' = {} /\ AppendsAsked(s)' = {} /\ VotesGranted(s)' = {}
    BY <1>1, <1>2, <1>8, NothingAskedYet
  <2>2. AppendsAcked(s)' = {}
    <3>1. ~(m.src = s /\ m.boot = boot'[s] /\ m.term = term'[s])
      BY <1>1, <1>8, CallsOfTheEra
    <3>2. \A n \in appendReplies : n.success =>
            ~(n.dst = s /\ n.boot = boot'[s] /\ n.term = term'[s])
      BY <1>1, <1>8, CallsOfTheEra
    <3> QED
      BY <1>4, <1>5, <3>1, <3>2 DEF AppendsAcked
  <2>3. voteNum'[s] <= Cardinality(counted'[s])
    BY <1>1, <1>2 DEF CountersOf, CandidacyIsSingle
  <2>4. identity'[s] # "leader"
    <3>1. boot[s] \in Nat /\ boot'[s] \in Nat /\ term[s] \in Nat /\ term'[s] \in Nat
      BY DEF TypeOK
    <3> QED
      BY <1>6, <1>8, <3>1 DEF SameEra, NewEra
  <2> QED
    BY <2>1, <2>2, <2>3, <2>4, FreshCounters
<1>9. ASSUME NEW s \in Server, SameEra(s)
      PROVE  CountersOf(s)'
  <2>1. /\ VotesAsked(s)' \subseteq VotesAsked(s)
        /\ VotesGranted(s)' \subseteq VotesGranted(s)
        /\ AppendsAsked(s)' = AppendsAsked(s) \ {m}
        /\ AppendsAcked(s)' \subseteq AppendsAcked(s) \cup {answer}
        /\ answer \in AppendsAcked(s)' /\ answer \notin AppendsAcked(s) =>
             m \in AppendsAsked(s)
    BY <1>2, <1>4, <1>5, <1>9 DEF SameEra, VotesAsked, VotesGranted, AppendsAsked, AppendsAcked
  <2>2. /\ CandidacyIsSingle(s) /\ WonOnce(s) /\ RoundIsSingle(s) /\ RoundIsCounted(s)
    BY <1>1 DEF CountersOf
  <2>3. CASE answer \in AppendsAcked(s)' /\ answer \notin AppendsAcked(s)
    <3>1. m \in AppendsAsked(s)
      BY <2>1, <2>3
    <3>2. /\ m.round <= round[s] /\ m.dst # s
          /\ \A n \in AppendsAsked(s) : n.round = m.round /\ n.dst = m.dst => n = m
          /\ \A n \in AppendsAcked(s) : n.round = m.round => n.src # m.dst
      BY <2>2, <3>1 DEF RoundIsSingle
    <3>3. RoundIsSingle(s)'
      <4>1. /\ \A n \in AppendsAsked(s)' : n.round <= round'[s] /\ n.dst # s
            /\ \A n \in AppendsAcked(s)' : n.round <= round'[s] /\ n.src # s
        BY <1>2, <1>5, <2>1, <2>2, <3>2 DEF RoundIsSingle
      <4>2. /\ \A n, q \in AppendsAsked(s)' : n.round = q.round /\ n.dst = q.dst => n = q
            /\ \A n, q \in AppendsAcked(s)' : n.round = q.round /\ n.src = q.src => n = q
            /\ \A n \in AppendsAsked(s)', q \in AppendsAcked(s)' :
                 n.round = q.round => n.dst # q.src
        BY <1>5, <2>1, <2>2, <3>2 DEF RoundIsSingle
      <4> QED
        BY <4>1, <4>2 DEF RoundIsSingle
    <3>4. WonOnce(s)'
      <4>1. InOffice(s)
        BY <3>1 DEF InOffice
      <4> QED
        BY <1>2, <2>2, <4>1 DEF WonOnce
    <3>5. Open(s)' \subseteq Open(s)
      <4>1. <<answer.round, answer.src, answer.lastIndex>> =
              <<m.round, m.dst, m.prevIndex + Len(m.entries)>>
        BY <1>5
      <4> QED
        BY <2>1, <3>1, <4>1 DEF Open
    <3>6. RoundIsCounted(s)'
      BY <1>2, <2>2, <3>5, RoundsStay
    <3>7. CandidacyIsSingle(s)'
      BY <1>2, <2>1, <2>2, CandidacyStays
    <3> QED
      BY <3>3, <3>4, <3>6, <3>7 DEF CountersOf
  <2>4. CASE AppendsAcked(s)' \subseteq AppendsAcked(s)
    BY <1>1, <1>2, <1>6, <2>1, <2>4, SameCounters
  <2> QED
    BY <2>1, <2>3, <2>4
<1> QED
  BY <1>7, <1>8, <1>9 DEF CountersInv, CountersOf

\* A success counted is of a peer that holds what the round sent and was not counted.
LEMMA CountAppendCounters ==
  ASSUME TypeOK, TypeOK', CountersInv, AcksAreHeld, \A j \in Server : LogGrows(j),
         NEW m \in appendReplies, m.boot = boot[m.dst], m.term = term[m.dst], m.success,
         appendReplies' = appendReplies \ {m},
         UNCHANGED <<term, identity, boot, voteNum, counted, round, voteRequests,
                     voteReplies, appendRequests>>,
         CountAppend(m.dst, m)
  PROVE  CountersInv'
<1> DEFINE i == m.dst
           r == m.round
<1>1. CallTermsKnown /\ \A s \in Server : CountersOf(s)
  BY DEF CountersInv, CountersOf
<1>2. i \in Server /\ m.src \in Server /\ r \in 1..MaxRounds /\ m.lastIndex \in Nat
  BY DEF TypeOK, AppendReplies
<1>3. \A s \in Server : SameEra(s)
  BY DEF SameEra
<1>4. m \in AppendsAcked(i)
  BY DEF AppendsAcked
<1>5. /\ CandidacyIsSingle(i) /\ WonOnce(i) /\ RoundIsSingle(i) /\ RoundIsCounted(i)
  BY <1>1, <1>2 DEF CountersOf
<1>6. PICK n \in {0, appendNum[i][r] + 1} :
        appendNum' = [appendNum EXCEPT ![i] = [appendNum[i] EXCEPT ![r] = n]]
  BY DEF CountAppend
<1>7. /\ appendNum[i] \in [1..MaxRounds -> Nat] /\ appendNum[i][r] \in Nat
      /\ appendNum'[i] = [appendNum[i] EXCEPT ![r] = n]
      /\ \A s \in Server \ {i} : appendNum'[s] = appendNum[s]
  <2>1. appendNum \in [Server -> [1..MaxRounds -> Nat]]
    BY DEF TypeOK
  <2>2. appendNum[i] \in [1..MaxRounds -> Nat]
    BY <1>2, <2>1
  <2> QED
    BY <1>2, <1>6, <2>1, <2>2
<1> HIDE DEF i
<1>8. ASSUME NEW s \in Server
      PROVE  /\ VotesAsked(s)' = VotesAsked(s) /\ VotesGranted(s)' = VotesGranted(s)
             /\ AppendsAsked(s)' = AppendsAsked(s)
             /\ AppendsAcked(s)' = AppendsAcked(s) \ {m}
  BY DEF VotesAsked, VotesGranted, AppendsAsked, AppendsAcked
<1>9. ASSUME NEW s \in Server, s # i
      PROVE  CountersOf(s)'
  BY <1>1, <1>7, <1>8, <1>9, SameCounters
<1>10. CandidacyIsSingle(i)' /\ WonOnce(i)' /\ RoundIsSingle(i)'
  <2>1. CandidacyIsSingle(i)'
    BY <1>2, <1>5, <1>8, CandidacyStays
  <2>2. WonOnce(i)'
    BY <1>2, <1>5, <1>8 DEF WonOnce, InOffice
  <2>3. RoundIsSingle(i)'
    BY <1>2, <1>5, <1>8 DEF RoundIsSingle
  <2> QED
    BY <2>1, <2>2, <2>3
<1>11. /\ Open(i)' \subseteq Open(i)
       /\ <<r, m.src, m.lastIndex>> \in Open(i)
       /\ \A o \in Open(i)' : o[1] = r => o[2] # m.src
  <2>1. Open(i)' \subseteq Open(i) /\ <<r, m.src, m.lastIndex>> \in Open(i)
    BY <1>2, <1>4, <1>8 DEF Open
  <2>2. /\ \A q \in AppendsAsked(i)' : q.round = r => q.dst # m.src
        /\ \A q \in AppendsAcked(i)' : q.round = r => q.src # m.src
    BY <1>2, <1>4, <1>5, <1>8 DEF RoundIsSingle
  <2>3. \A o \in Open(i)' : o[1] = r => o[2] # m.src
    BY <2>2 DEF Open
  <2> QED
    BY <2>1, <2>3
<1>12. \A o, p \in Open(i)' : o[1] = p[1] => o[3] = p[3]
  BY <1>5, <1>11 DEF RoundIsCounted
<1>13. ASSUME NEW o \in Open(i)'
       PROVE  appendNum'[i][o[1]] <= 1 + Cardinality(Settled(i, o[1], o[3])')
  <2> DEFINE S == Settled(i, o[1], o[3])
             T == Settled(i, o[1], o[3])'
  <2>1. o \in Open(i)
    BY <1>11
  <2>2. o[1] \in 1..MaxRounds /\ o[3] \in Nat
    BY <1>2, <2>1, OpenTypes
  <2>3. /\ S \subseteq T /\ Cardinality(S) <= Cardinality(T)
        /\ Cardinality(S) \in Nat /\ Cardinality(T) \in Nat
    BY <1>2, <1>11, <2>2, SettledGrows
  <2>4. appendNum[i][o[1]] <= 1 + Cardinality(S) /\ appendNum[i][o[1]] \in Nat
    BY <1>5, <1>7, <2>1, <2>2 DEF RoundIsCounted
  <2>5. CASE o[1] # r
    <3>1. appendNum'[i][o[1]] = appendNum[i][o[1]]
      BY <1>7, <2>2, <2>5
    <3> QED
      BY <2>3, <2>4, <3>1
  <2>6. CASE o[1] = r
    <3>1. o[3] = m.lastIndex
      BY <1>5, <1>11, <2>1, <2>6 DEF RoundIsCounted
    <3>2. m.src \notin S
      BY <1>11, <2>6 DEF Settled
    <3>3. m.src \in T
      <4>1. m.src \in Peers(i)
        BY <1>2, <1>4, <1>5 DEF RoundIsSingle, Peers
      <4>2. Holds(m.src, m.lastIndex)'
        <5>1. Holds(m.src, m.lastIndex)
          BY DEF AcksAreHeld
        <5> QED
          BY <1>2, <5>1, HeldStays DEF Holds, HoldsNext
      <4> QED
        BY <1>11, <2>6, <3>1, <4>1, <4>2 DEF Settled
    <3>4. Cardinality(S) + 1 <= Cardinality(T)
      <4>1. S \subseteq Server /\ T \subseteq Server
        BY DEF Settled, Peers
      <4>2. IsFiniteSet(S) /\ IsFiniteSet(T)
        BY <4>1, HoldersFinite
      <4>3. Cardinality(S \cup {m.src}) = Cardinality(S) + 1
        BY <3>2, <4>2, FS_AddElement
      <4>4. Cardinality(S \cup {m.src}) <= Cardinality(T)
        BY <2>3, <3>3, <4>2, FS_Subset
      <4> QED
        BY <4>3, <4>4
    <3>5. appendNum'[i][o[1]] = n
      BY <1>2, <1>7, <2>6
    <3>6. n = 0 \/ n = appendNum[i][o[1]] + 1
      BY <2>6
    <3> HIDE DEF S, T
    <3>7. n <= 1 + Cardinality(T)
      BY <2>3, <2>4, <3>4, <3>6
    <3> QED
      BY <3>5, <3>7 DEF T
  <2> QED
    BY <2>5, <2>6
<1>14. CountersOf(i)'
  BY <1>10, <1>12, <1>13 DEF CountersOf, RoundIsCounted
<1>15. CallTermsKnown'
  BY <1>1, <1>3, KnownKept
<1> QED
  BY <1>9, <1>14, <1>15 DEF CountersInv, CountersOf

\* The answer that completes a majority commits what the leader, the answering peer and
\* all peers counted before hold.
LEMMA CountAppendHeld ==
  ASSUME TypeOK, TypeOK', IndexInv, CountersInv, AcksAreHeld, CommitsAreHeld,
         \A j \in Server : LogGrows(j),
         NEW m \in appendReplies, m.boot = boot[m.dst], m.term = term[m.dst], m.success,
         appendReplies' \subseteq appendReplies,
         UNCHANGED <<appendRequests, snapshotRequests, snapshotReplies>>,
         CountAppend(m.dst, m)
  PROVE  AcksAreHeld' /\ CommitsAreHeld'
<1> DEFINE i == m.dst
           r == m.round
           x == m.lastIndex
<1>1. i \in Server /\ m.src \in Server /\ r \in 1..MaxRounds /\ x \in Nat
  BY DEF TypeOK, AppendReplies
<1>2. Holds(m.src, x)
  BY DEF AcksAreHeld
<1>3. ASSUME NEW k \in Server, NEW j \in Server
      PROVE  matchIndex'[k][j] = matchIndex[k][j] \/ HoldsNext(j, matchIndex'[k][j])
  <2>1. PICK n \in {matchIndex[i][m.src], x} :
          matchIndex' = [matchIndex EXCEPT ![i] = [matchIndex[i] EXCEPT ![m.src] = n]]
    BY DEF CountAppend, Larger
  <2>2. matchIndex \in [Server -> [Server -> Nat]] /\ matchIndex[i] \in [Server -> Nat]
    <3>1. matchIndex \in [Server -> [Server -> Nat]]
      BY DEF TypeOK
    <3> QED
      BY <1>1, <3>1
  <2>3. matchIndex'[k][j] = IF k = i /\ j = m.src THEN n ELSE matchIndex[k][j]
    BY <1>1, <2>1, <2>2
  <2>4. HoldsNext(m.src, x)
    BY <1>1, <1>2, HeldStays
  <2> QED
    BY <2>1, <2>3, <2>4
<1>4. appendNum[i][r] + 1 >= Majority => HeldByMajority(x)
  <2> SUFFICES ASSUME appendNum[i][r] + 1 >= Majority
               PROVE  HeldByMajority(x)
    OBVIOUS
  <2> DEFINE S == Settled(i, r, x)
             H == {j \in Server : Holds(j, x)}
             o == <<r, m.src, x>>
  <2>1. RoundIsCounted(i) /\ RoundIsSingle(i)
    BY <1>1 DEF CountersInv
  <2>2. m \in AppendsAcked(i)
    BY DEF AppendsAcked
  <2>3. o \in Open(i)
    BY <2>2 DEF Open
  <2>4. appendNum[i][r] <= 1 + Cardinality(S)
    <3>1. appendNum[i][o[1]] <= 1 + Cardinality(Settled(i, o[1], o[3]))
      BY <2>1, <2>3 DEF RoundIsCounted
    <3> QED
      BY <3>1
  <2>5. m.src # i
    BY <2>1, <2>2 DEF RoundIsSingle
  <2>6. m.src \notin S /\ i \notin S
    BY <2>3 DEF Settled, Peers
  <2>7. Holds(i, x)
    BY DEF IndexInv, AppendCallsWithinLog, Holds
  <2>8. S \cup {m.src, i} \subseteq H /\ H \subseteq Server
    BY <1>1, <1>2, <2>7 DEF Settled, Peers
  <2>9. Cardinality(S) + 2 <= Cardinality(H) /\ Cardinality(S) \in Nat
        /\ Cardinality(H) \in Nat
    <3> HIDE DEF S, H
    <3>1. S \subseteq Server /\ H \subseteq Server
      BY <2>8
    <3>2. IsFiniteSet(S) /\ IsFiniteSet(H) /\ Cardinality(S) \in Nat /\ Cardinality(H) \in Nat
      BY <3>1, HoldersFinite
    <3>3. IsFiniteSet(S \cup {m.src}) /\ Cardinality(S \cup {m.src}) = Cardinality(S) + 1
      BY <2>6, <3>2, FS_AddElement
    <3>4. i \notin S \cup {m.src}
      BY <2>5, <2>6
    <3>5. Cardinality((S \cup {m.src}) \cup {i}) = Cardinality(S) + 2
      <4> DEFINE W == S \cup {m.src}
      <4>1. IsFiniteSet(W) /\ Cardinality(W) = Cardinality(S) + 1 /\ i \notin W
        BY <3>3, <3>4
      <4> HIDE DEF W
      <4>2. Cardinality(W \cup {i}) = Cardinality(W) + 1
        BY <4>1, FS_AddElement
      <4>3. Cardinality(W \cup {i}) = Cardinality(S) + 2
        BY <3>2, <4>1, <4>2
      <4> QED
        BY <4>3 DEF W
    <3>6. (S \cup {m.src}) \cup {i} \subseteq H
      BY <2>8
    <3>7. Cardinality((S \cup {m.src}) \cup {i}) <= Cardinality(H)
      BY <3>2, <3>6, FS_Subset
    <3> QED
      BY <3>2, <3>5, <3>7
  <2>10. appendNum[i][r] \in Nat
    <3>1. appendNum[i] \in [1..MaxRounds -> Nat]
      BY <1>1 DEF TypeOK
    <3> QED
      BY <1>1, <3>1
  <2> HIDE DEF S, H
  <2>11. 2 * Cardinality(H) > Cardinality(Server)
    BY <2>4, <2>9, <2>10, MajorityFacts
  <2> QED
    BY <2>11 DEF HeldByMajority, H
<1>5. ASSUME NEW k \in Server
      PROVE  commitIndex'[k] = commitIndex[k] \/ HeldByMajority(commitIndex'[k])
  <2>1. PICK n \in {commitIndex[i], x} :
          /\ commitIndex' = [commitIndex EXCEPT ![i] = n]
          /\ n = commitIndex[i] \/ appendNum[i][r] + 1 >= Majority
    BY DEF CountAppend, Larger
  <2>2. commitIndex \in [Server -> Nat]
    BY DEF TypeOK
  <2> HIDE DEF i, x, r
  <2>3. commitIndex'[k] = commitIndex[k] \/ (commitIndex'[k] = n /\ n # commitIndex[i])
    BY <2>1, <2>2
  <2> QED
    BY <1>4, <2>1, <2>3
<1> QED
  BY <1>3, <1>5, HeldFrame

LEMMA AppendReplyReplicates ==
  ASSUME TypeOK, TypeOK', IndexInv, ReplicationInv, \A j \in Server : LogGrows(j),
         \A s \in Server : SameEra(s) \/ NewEra(s),
         NEW m \in appendReplies, HandleAppendReply(m.dst, m)
  PROVE  ReplicationInv'
<1>1. /\ m.boot = boot[m.dst] /\ appendReplies' = appendReplies \ {m}
      /\ UNCHANGED <<boot, round, voteNum, counted, voteRequests, voteReplies,
                     appendRequests, snapshotRequests, snapshotReplies>>
  BY DEF HandleAppendReply, voteCalls, snapshotCalls, history
<1>2. m.dst \in Server /\ m.term \in Nat
  BY DEF TypeOK, AppendReplies
<1>3. CASE /\ \/ UNCHANGED electionVars
              \/ m.term > term[m.dst] /\ StepDown(m.dst, m.term)
           /\ UNCHANGED <<matchIndex, appendNum, commitIndex>>
  <2>1. \A s \in Server : identity'[s] = "leader" => identity[s] = "leader" /\ SameEra(s)
    BY <1>1, <1>2, <1>3 DEF TypeOK, SameEra, StepDown, electionVars
  <2>2. CountersInv'
    BY <1>1, <1>3, <2>1, CountersFrame DEF ReplicationInv
  <2>3. AcksAreHeld' /\ CommitsAreHeld'
    BY <1>1, <1>3, QuietHeld DEF ReplicationInv
  <2> QED
    BY <2>2, <2>3 DEF ReplicationInv
<1>4. CASE /\ m.term = term[m.dst] /\ m.success
           /\ CountAppend(m.dst, m) /\ UNCHANGED electionVars
  <2>1. CountersInv'
    BY <1>1, <1>4, CountAppendCounters DEF ReplicationInv, electionVars
  <2>2. AcksAreHeld' /\ CommitsAreHeld'
    BY <1>1, <1>4, CountAppendHeld DEF ReplicationInv
  <2> QED
    BY <2>1, <2>2 DEF ReplicationInv
<1> QED
  BY <1>3, <1>4 DEF HandleAppendReply

\* A node that starts anew waits for nothing; the others lose the calls to it.
LEMMA RestartCounters ==
  ASSUME TypeOK, TypeOK', CountersInv, \A j \in Server : LogGrows(j),
         \A s \in Server : SameEra(s) \/ NewEra(s), NEW i \in Server, Restart(i)
  PROVE  CountersInv'
<1>1. CallTermsKnown /\ \A s \in Server : CountersOf(s)
  BY DEF CountersInv, CountersOf
<1>2. /\ voteRequests' \subseteq voteRequests /\ voteReplies' \subseteq voteReplies
      /\ appendRequests' \subseteq appendRequests /\ appendReplies' \subseteq appendReplies
  BY DEF Restart
<1>3. CallTermsKnown'
  BY <1>1, <1>2, KnownKept
<1>4. /\ boot'[i] = boot[i] + 1 /\ boot[i] \in Nat /\ identity'[i] = "follower"
      /\ voteNum'[i] = 0 /\ counted'[i] = {}
      /\ \A s \in Server \ {i} :
           /\ boot'[s] = boot[s] /\ term'[s] = term[s] /\ identity'[s] = identity[s]
           /\ voteNum'[s] = voteNum[s] /\ counted'[s] = counted[s]
           /\ round'[s] = round[s] /\ appendNum'[s] = appendNum[s]
  BY DEF TypeOK, Restart
<1>5. CountersOf(i)'
  <2>1. NewEra(i)
    BY <1>4 DEF NewEra
  <2>2. VotesAsked(i)' = {} /\ VotesGranted(i)' = {}
        /\ AppendsAsked(i)' = {} /\ AppendsAcked(i)' = {}
    BY <1>1, <1>2, <2>1, NothingAskedYet
  <2>3. voteNum'[i] <= Cardinality(counted'[i])
    <3>1. Cardinality({}) = 0
      BY FS_EmptySet
    <3> QED
      BY <1>4, <3>1
  <2> QED
    BY <1>4, <2>2, <2>3, FreshCounters
<1>6. ASSUME NEW s \in Server, s # i
      PROVE  CountersOf(s)'
  <2>1. /\ VotesAsked(s)' \subseteq VotesAsked(s)
        /\ VotesGranted(s)' \subseteq VotesGranted(s)
        /\ AppendsAsked(s)' \subseteq AppendsAsked(s)
        /\ AppendsAcked(s)' \subseteq AppendsAcked(s)
    BY <1>2, <1>4, <1>6 DEF VotesAsked, VotesGranted, AppendsAsked, AppendsAcked
  <2> QED
    BY <1>1, <1>4, <1>6, <2>1, SameCounters
<1> QED
  BY <1>3, <1>5, <1>6 DEF CountersInv, CountersOf

-----------------------------------------------------------------------------

LEMMA InitReplication == Init => ReplicationInv
<1> SUFFICES ASSUME Init PROVE ReplicationInv
  OBVIOUS
<1>1. TypeOK
  BY InitTypes
<1>2. /\ voteRequests = {} /\ voteReplies = {} /\ appendRequests = {} /\ appendReplies = {}
      /\ snapshotRequests = {} /\ snapshotReplies = {}
      /\ \A i \in Server : /\ identity[i] = "follower" /\ voteNum[i] = 0 /\ counted[i] = {}
                           /\ commitIndex[i] = 0 /\ \A j \in Server : matchIndex[i][j] = 0
  BY DEF Init
<1>3. AcksAreHeld
  BY <1>1, <1>2, LogEndTypes DEF AcksAreHeld, Holds
<1>4. CommitsAreHeld
  BY <1>1, <1>2, MajorityOfNothing DEF CommitsAreHeld
<1>5. CountersInv
  <2>1. CallTermsKnown
    BY <1>2 DEF CallTermsKnown
  <2>2. \A i \in Server : /\ VotesAsked(i) = {} /\ VotesGranted(i) = {}
                          /\ AppendsAsked(i) = {} /\ AppendsAcked(i) = {} /\ Open(i) = {}
    BY <1>2 DEF VotesAsked, VotesGranted, AppendsAsked, AppendsAcked, Open
  <2>3. Cardinality({}) = 0
    BY FS_EmptySet
  <2>4. ASSUME NEW i \in Server
        PROVE  CandidacyIsSingle(i) /\ WonOnce(i) /\ RoundIsSingle(i) /\ RoundIsCounted(i)
    <3>1. voteNum[i] <= Cardinality(counted[i])
      BY <1>2, <2>3
    <3> QED
      BY <1>2, <2>2, <3>1 DEF CandidacyIsSingle, WonOnce, InOffice, RoundIsSingle,
         RoundIsCounted
  <2> QED
    BY <2>1, <2>4 DEF CountersInv
<1> QED
  BY <1>3, <1>4, <1>5 DEF ReplicationInv

\* A step that neither counts, acknowledges nor commits.
LEMMA QuietReplicates ==
  ASSUME TypeOK, TypeOK', ReplicationInv, \A j \in Server : LogGrows(j),
         \A s \in Server : SameEra(s) \/ NewEra(s),
         UNCHANGED <<matchIndex, commitIndex, voteNum, counted, round, appendNum>>,
         \A s \in Server : identity'[s] = "leader" => identity[s] = "leader" /\ SameEra(s),
         voteRequests' \subseteq voteRequests, voteReplies' \subseteq voteReplies,
         appendRequests' \subseteq appendRequests, appendReplies' \subseteq appendReplies,
         snapshotRequests' \subseteq snapshotRequests, snapshotReplies' \subseteq snapshotReplies
  PROVE  ReplicationInv'
<1>1. CountersInv'
  BY CountersFrame DEF ReplicationInv
<1>2. AcksAreHeld' /\ CommitsAreHeld'
  BY QuietHeld DEF ReplicationInv
<1> QED
  BY <1>1, <1>2 DEF ReplicationInv

LEMMA ReplicationKept ==
  ASSUME TypeOK, TypeOK', IndexInv, ReplicationInv, CrashStep
  PROVE  ReplicationInv'
<1>1. \A j \in Server : LogGrows(j)
  BY LogsGrow DEF IndexInv
<1>2. \A s \in Server : SameEra(s) \/ NewEra(s)
  BY <1>1, Eras
<1>3. AcksAreHeld /\ CountersInv /\ CommitsAreHeld
  BY DEF ReplicationInv
<1>4. ASSUME NEW i \in Server, Stand4Election(i) PROVE ReplicationInv'
  <2>1. UNCHANGED <<matchIndex, commitIndex, appendRequests, appendReplies, snapshotRequests,
                    snapshotReplies>>
    BY <1>4 DEF Stand4Election, leaderVars, progressVars, appendCalls, snapshotCalls
  <2> QED
    BY <1>1, <1>3, <1>4, <2>1, StandCounters, QuietHeld DEF ReplicationInv
<1>5. ASSUME NEW i \in Server, Heartbeat(i) PROVE ReplicationInv'
  BY <1>1, <1>3, <1>5, HeartbeatCounters, HeartbeatHeld DEF ReplicationInv
<1>6. ASSUME NEW i \in Server,
             \/ ApplierTick(i)
             \/ \E c \in Command : Execute(i, c)
             \/ \E index \in 1..MaxIndex : PersistSnapshot(i, index)
      PROVE ReplicationInv'
  <2>1. UNCHANGED <<electionVars, leaderVars, commitIndex, voteNum, boot, voteCalls,
                    appendCalls, snapshotCalls, history>>
    BY <1>6 DEF ApplierTick, Execute, PersistSnapshot, progressVars
  <2>2. \A s \in Server : SameEra(s) /\ identity'[s] = identity[s]
    BY <2>1 DEF SameEra, electionVars
  <2> QED
    BY <1>1, <2>1, <2>2, QuietReplicates DEF leaderVars, voteCalls, appendCalls,
       snapshotCalls, history
<1>7. ASSUME NEW m \in voteRequests, HandleVoteRequest(m.dst, m) PROVE ReplicationInv'
  <2>1. UNCHANGED <<matchIndex, commitIndex, appendRequests, appendReplies, snapshotRequests,
                    snapshotReplies>>
    BY <1>7 DEF HandleVoteRequest, leaderVars, progressVars, appendCalls, snapshotCalls
  <2> QED
    BY <1>1, <1>2, <1>3, <1>7, <2>1, VoteRequestCounters, QuietHeld DEF ReplicationInv
<1>8. ASSUME NEW m \in voteReplies, HandleVoteReply(m.dst, m) PROVE ReplicationInv'
  BY <1>1, <1>2, <1>3, <1>8, VoteReplyCounters, VoteReplyHeld DEF ReplicationInv
<1>9. ASSUME NEW m \in appendRequests, HandleAppendEntries(m.dst, m) PROVE ReplicationInv'
  BY <1>1, <1>2, <1>3, <1>9, AppendEntriesCounters, AppendEntriesHeld DEF ReplicationInv
<1>10. ASSUME NEW m \in appendReplies, HandleAppendReply(m.dst, m) PROVE ReplicationInv'
  BY <1>1, <1>2, <1>10, AppendReplyReplicates
<1>11. ASSUME NEW th \in snapshotThreads, SendSnapshot(th.src, th) PROVE ReplicationInv'
  <2>1. UNCHANGED <<electionVars, leaderVars, voteNum, boot, voteCalls, appendCalls, history>>
    BY <1>11 DEF SendSnapshot
  <2>2. \A s \in Server : SameEra(s) /\ identity'[s] = identity[s]
    BY <2>1 DEF SameEra, electionVars
  <2>3. CountersInv'
    BY <1>1, <1>2, <1>3, <2>1, <2>2, CountersFrame DEF leaderVars, voteCalls, appendCalls,
       history
  <2>4. IndexOrder
    BY DEF IndexInv
  <2> QED
    BY <1>1, <1>3, <1>11, <2>3, <2>4, SendSnapshotHeld DEF ReplicationInv
<1>12. ASSUME NEW m \in snapshotRequests, HandleInstallSnapshot(m.dst, m)
       PROVE  ReplicationInv'
  <2>1. UNCHANGED <<leaderVars, voteNum, boot, voteCalls, appendCalls, history>>
    BY <1>12 DEF HandleInstallSnapshot
  <2>2. m.dst \in Server /\ m.term \in Nat
    BY DEF TypeOK, SnapshotRequests
  <2>3. \A s \in Server : identity'[s] = "leader" => identity[s] = "leader" /\ SameEra(s)
    <3>1. CASE UNCHANGED electionVars
      BY <2>1, <3>1 DEF electionVars, SameEra
    <3>2. CASE /\ term' = [term EXCEPT ![m.dst] = Larger(@, m.term)]
               /\ identity' = [identity EXCEPT ![m.dst] = "follower"]
      BY <2>1, <2>2, <3>2 DEF TypeOK, SameEra
    <3> QED
      BY <1>12, <3>1, <3>2 DEF HandleInstallSnapshot, AdoptTerm
  <2>4. CountersInv'
    BY <1>1, <1>2, <1>3, <2>1, <2>3, CountersFrame DEF leaderVars, voteCalls, appendCalls,
       history
  <2> QED
    BY <1>1, <1>3, <1>12, <2>4, InstallSnapshotHeld DEF ReplicationInv
<1>13. ASSUME NEW m \in snapshotReplies, HandleSnapshotReply(m.dst, m) PROVE ReplicationInv'
  <2>1. UNCHANGED <<round, appendNum, voteNum, boot, voteCalls, appendCalls, history>>
    BY <1>13 DEF HandleSnapshotReply
  <2>2. m.dst \in Server /\ m.term \in Nat
    BY DEF TypeOK, SnapshotReplies
  <2>3. UNCHANGED electionVars \/ (m.term > term[m.dst] /\ StepDown(m.dst, m.term))
    BY <1>13 DEF HandleSnapshotReply
  <2>4. \A s \in Server : identity'[s] = "leader" => identity[s] = "leader" /\ SameEra(s)
    <3>1. UNCHANGED boot
      BY <2>1
    <3>2. CASE UNCHANGED electionVars
      BY <3>1, <3>2 DEF electionVars, SameEra
    <3>3. CASE m.term > term[m.dst] /\ StepDown(m.dst, m.term)
      BY <2>2, <3>1, <3>3 DEF TypeOK, SameEra, StepDown
    <3> QED
      BY <2>3, <3>2, <3>3
  <2>5. CountersInv'
    BY <1>1, <1>2, <1>3, <2>1, <2>4, CountersFrame DEF voteCalls, appendCalls, history
  <2> QED
    BY <1>1, <1>3, <1>13, <2>5, SnapshotReplyHeld DEF ReplicationInv
<1>14. ASSUME NEW i \in Server, Restart(i) PROVE ReplicationInv'
  BY <1>1, <1>2, <1>3, <1>14, RestartCounters, RestartHeld DEF ReplicationInv
<1> QED
  BY <1>4, <1>5, <1>6, <1>7, <1>8, <1>9, <1>10, <1>11, <1>12, <1>13, <1>14
     DEF CrashStep, Step

\* ReplicationInv stands on the types and the order of the indexes.
LEMMA TypesAndReplication == CrashSpec => [](TypeOK /\ IndexInv /\ ReplicationInv)
<1>1. Init => ReplicationInv
  BY InitReplication
<1>2. /\ TypeOK /\ IndexInv /\ ReplicationInv
      /\ [CrashStep]_vars /\ TypeOK' /\ IndexInv'
      => ReplicationInv'
  <2> SUFFICES ASSUME TypeOK, IndexInv, ReplicationInv, [CrashStep]_vars, TypeOK'
               PROVE  ReplicationInv'
    OBVIOUS
  <2>1. CASE UNCHANGED vars
    <3>1. UNCHANGED <<matchIndex, commitIndex, voteNum, counted, round, appendNum, boot, term,
                      identity, logs, lastSnapshotIndex, voteRequests, voteReplies,
                      appendRequests, appendReplies, snapshotRequests, snapshotReplies>>
      BY <2>1 DEF vars, electionVars, logVars, progressVars, leaderVars, voteCalls,
         appendCalls, snapshotCalls, history
    <3>2. \A j \in Server : LogGrows(j)
      BY <3>1, SameLogs
    <3>3. \A s \in Server : SameEra(s) /\ identity'[s] = identity[s]
      BY <3>1 DEF SameEra
    <3> QED
      BY <3>1, <3>2, <3>3, QuietReplicates
  <2>2. CASE CrashStep
    BY <2>2, ReplicationKept
  <2> QED
    BY <2>1, <2>2
<1> QED
  BY <1>1, <1>2, TypesAndIndexes, PTL DEF CrashSpec

\* Whatever is acknowledged is held, whatever is counted is acknowledged once, and
\* whatever is committed, told or sent as a snapshot is held by a majority, restarts
\* included: what _L_sendAppendEntries relies on when it counts to a majority.
THEOREM AcksAreCounted == CrashSpec => []ReplicationInv
BY TypesAndReplication, PTL

\* A leader never believes of a peer more than its log reaches, unless the peer has
\* been started anew (_L_sendAppendEntries, _L_sendSnapshot).
THEOREM MatchIsHeld == CrashSpec => []AckedIsHeld
<1>1. TypeOK /\ ReplicationInv => AckedIsHeld
  <2> SUFFICES ASSUME TypeOK, AcksAreHeld, NEW i \in Server, NEW j \in Server, boot[j] = 0
               PROVE  matchIndex[i][j] <= LastLogIndex(j)
    BY DEF ReplicationInv, AckedIsHeld
  <2>1. Holds(j, matchIndex[i][j])
    BY DEF AcksAreHeld
  <2> QED
    BY <2>1 DEF Holds
<1> QED
  BY <1>1, TypesAndReplication, PTL

\* Every commit index, a follower's as well as a leader's, is reached by the logs of a
\* majority, those counted in that lost theirs in a restart (_L_sendAppendEntries,
\* _L_appendEntries, _L_installSnapshot).
THEOREM CommitNeedsMajority == CrashSpec => []CommitIsHeld
<1>1. TypeOK /\ ReplicationInv => CommitIsHeld
  <2> SUFFICES ASSUME TypeOK, CommitsAreHeld, NEW i \in Server
               PROVE  2 * Cardinality({j \in Server : LastLogIndex(j) >= commitIndex[i]
                                                      \/ boot[j] > 0})
                        > Cardinality(Server)
    BY DEF ReplicationInv, CommitIsHeld
  <2>1. HeldByMajority(commitIndex[i])
    BY DEF CommitsAreHeld
  <2>2. commitIndex[i] \in Nat
    BY DEF TypeOK
  <2>3. {j \in Server : Holds(j, commitIndex[i])}
          \subseteq {j \in Server : LastLogIndex(j) >= commitIndex[i] \/ boot[j] > 0}
    BY <2>2, LogEndTypes DEF Holds
  <2> QED
    BY <2>1, <2>3, MajorityGrows DEF HeldByMajority
<1> QED
  BY <1>1, TypesAndReplication, PTL
=============================================================================
