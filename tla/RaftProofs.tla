----------------------------- MODULE RaftProofs -----------------------------
(***************************************************************************)
(* Proofs about the consensus core, for every cluster, every set of        *)
(* commands and every bound:                                               *)
(* TypeOK, IndexInv (with IndexOrder in it) and NoIndexThrow of CrashSpec, *)
(* restarts included.  RaftNodeProofs, RaftElectionProofs,                 *)
(* RaftCommitProofs and RaftLogProofs go on from here.                     *)
(***************************************************************************)
EXTENDS RaftInvariants, TLAPS, FiniteSetTheorems, SequenceTheorems

-----------------------------------------------------------------------------
(* The log operators. *)

\* Both bounds of a comparison are among its arguments.
LEMMA LargerSmaller ==
  ASSUME NEW a \in Int, NEW b \in Int
  PROVE  /\ Larger(a, b) \in {a, b} /\ Larger(a, b) >= a /\ Larger(a, b) >= b
         /\ Smaller(a, b) \in {a, b} /\ Smaller(a, b) <= a /\ Smaller(a, b) <= b
BY DEF Larger, Smaller

\* The index, the term and the entries a node reads from its log exist.
LEMMA LogTypes ==
  ASSUME NEW i \in Server, logs[i] \in Seq(Entries),
         lastSnapshotIndex[i] \in Nat, lastSnapshotTerm[i] \in Nat
  PROVE  /\ LastLogIndex(i) \in Nat
         /\ LastLogIndex(i) >= lastSnapshotIndex[i]
         /\ LastLogTerm(i) \in Nat
         /\ \A index \in lastSnapshotIndex[i]..LastLogIndex(i) : LogTerm(i, index) \in Nat
<1>1. Len(logs[i]) \in Nat
  BY LenProperties
<1>2. \A k \in 1..Len(logs[i]) : logs[i][k] \in Entries
  BY ElementOfSeq
<1>3. \A e \in Entries : e.term \in Nat
  BY DEF Entries
<1>4. LastLogIndex(i) \in Nat /\ LastLogIndex(i) >= lastSnapshotIndex[i]
  BY <1>1 DEF LastLogIndex
<1>5. LastLogTerm(i) \in Nat
  <2>1. CASE logs[i] = <<>>
    BY <2>1 DEF LastLogTerm
  <2>2. CASE logs[i] # <<>>
    <3>1. Len(logs[i]) \in 1..Len(logs[i])
      BY <1>1, <2>2, EmptySeq
    <3> QED
      BY <2>2, <3>1, <1>2, <1>3 DEF LastLogTerm
  <2> QED
    BY <2>1, <2>2
<1>6. ASSUME NEW index \in lastSnapshotIndex[i]..LastLogIndex(i)
      PROVE  LogTerm(i, index) \in Nat
  <2>1. CASE index = lastSnapshotIndex[i]
    BY <2>1 DEF LogTerm
  <2>2. CASE index # lastSnapshotIndex[i]
    <3>1. index - lastSnapshotIndex[i] \in 1..Len(logs[i])
      BY <1>1, <2>2 DEF LastLogIndex
    <3> QED
      BY <2>2, <3>1, <1>2, <1>3 DEF LogTerm
  <2> QED
    BY <2>1, <2>2
<1> QED
  BY <1>4, <1>5, <1>6

\* What follows an index of the log is the rest of the log.
LEMMA SuffixTypes ==
  ASSUME NEW i \in Server, logs[i] \in Seq(Entries), lastSnapshotIndex[i] \in Nat,
         NEW prev \in lastSnapshotIndex[i]..LastLogIndex(i)
  PROVE  /\ Suffix(i, prev) \in Seq(Entries)
         /\ Len(Suffix(i, prev)) = LastLogIndex(i) - prev
<1>1. Len(logs[i]) \in Nat
  BY LenProperties
<1> DEFINE from == prev - lastSnapshotIndex[i] + 1
<1>2. from \in 1..Len(logs[i])+1 /\ from \in Int
  BY <1>1 DEF LastLogIndex
<1>3. Suffix(i, prev) = SubSeq(logs[i], from, Len(logs[i]))
  BY DEF Suffix
<1>4. SubSeq(logs[i], from, Len(logs[i])) \in Seq(Entries)
  BY <1>1, <1>2, SubSeqProperties
<1>5. Len(SubSeq(logs[i], from, Len(logs[i]))) = Len(logs[i]) - from + 1
  BY <1>1, <1>2, SubSeqProperties
<1>6. Len(logs[i]) - from + 1 = LastLogIndex(i) - prev
  <2>1. prev \in Int
    OBVIOUS
  <2> QED
    BY <1>1, <2>1 DEF LastLogIndex
<1> QED
  BY <1>3, <1>4, <1>5, <1>6

\* Dropping the entries up to an index never drops a later one.
LEMMA DiscardTypes ==
  ASSUME NEW i \in Server, logs[i] \in Seq(Entries), lastSnapshotIndex[i] \in Nat,
         NEW index \in Nat, index >= lastSnapshotIndex[i]
  PROVE  /\ Discard(i, index) \in Seq(Entries)
         /\ index + Len(Discard(i, index)) = Larger(index, LastLogIndex(i))
<1> DEFINE cut == Smaller(index, LastLogIndex(i))
<1>1. LastLogIndex(i) \in Nat /\ LastLogIndex(i) >= lastSnapshotIndex[i]
  BY LenProperties DEF LastLogIndex
<1>2. cut \in lastSnapshotIndex[i]..LastLogIndex(i)
  BY <1>1 DEF Smaller
<1>3. /\ Suffix(i, cut) \in Seq(Entries)
      /\ Len(Suffix(i, cut)) = LastLogIndex(i) - cut
  BY <1>2, SuffixTypes
<1>4. index + (LastLogIndex(i) - cut) = Larger(index, LastLogIndex(i))
  BY <1>1 DEF Smaller, Larger
<1> QED
  BY <1>3, <1>4 DEF Discard

\* Merging a request keeps every position and adds those beyond the end.
LEMMA MergedTypes ==
  ASSUME NEW i \in Server, logs[i] \in Seq(Entries), lastSnapshotIndex[i] \in Nat,
         NEW prev \in lastSnapshotIndex[i]..LastLogIndex(i),
         NEW entries \in Seq(Entries)
  PROVE  /\ Merged(i, prev, entries) \in Seq(Entries)
         /\ lastSnapshotIndex[i] + Len(Merged(i, prev, entries))
              = Larger(LastLogIndex(i), prev + Len(entries))
<1>1. Len(logs[i]) \in Nat /\ Len(entries) \in Nat
  BY LenProperties
<1> DEFINE from == Offset(i, prev)
           till == from + Len(entries)
           length == Larger(Len(logs[i]), till)
           Taken(k) == /\ from < k /\ k <= till
                       /\ k > Len(logs[i]) \/ logs[i][k].term # entries[k - from].term
           at(k) == IF Taken(k) THEN entries[k - from] ELSE logs[i][k]
<1>2. from \in 0..Len(logs[i])
  BY <1>1 DEF Offset, LastLogIndex
<1>3. length \in Nat
  BY <1>1, <1>2 DEF Larger
<1>4. ASSUME NEW k \in 1..length
      PROVE  at(k) \in Entries
  <2>1. CASE Taken(k)
    <3>1. k - from \in 1..Len(entries)
      BY <1>1, <1>2, <1>3, <2>1
    <3> QED
      BY <2>1, <3>1, ElementOfSeq
  <2>2. CASE ~Taken(k)
    <3>1. k \in 1..Len(logs[i])
      BY <1>1, <1>2, <1>3, <2>2 DEF Larger
    <3>2. logs[i][k] \in Entries
      BY <3>1, ElementOfSeq
    <3> QED
      BY <2>2, <3>2
  <2> QED
    BY <2>1, <2>2
<1>5. Merged(i, prev, entries) = [k \in 1..length |-> at(k)]
  BY DEF Merged
<1> HIDE DEF at, length
<1>6. [k \in 1..length |-> at(k)] \in Seq(Entries)
  BY <1>3, <1>4, IsASeq
<1>7. Len([k \in 1..length |-> at(k)]) = length
  BY <1>3, <1>6, LenProperties
<1>8. lastSnapshotIndex[i] + length = Larger(LastLogIndex(i), prev + Len(entries))
  BY <1>1 DEF length, Larger, LastLogIndex, Offset
<1> QED
  BY <1>5, <1>6, <1>7, <1>8

-----------------------------------------------------------------------------
(* Types. *)

\* What a node saves is a state file.
LEMMA SavedType ==
  ASSUME NEW i \in Server, disk \in [Server -> StateFiles \cup {Nil}],
         term'[i] \in Nat, vote4'[i] \in Server \cup {Nil}, logs'[i] \in Seq(Entries),
         lastSnapshotIndex'[i] \in Nat, lastSnapshotTerm'[i] \in Nat, Persist(i)
  PROVE  disk' \in [Server -> StateFiles \cup {Nil}]
<1>1. Dump(i)' \in StateFiles
  BY DEF Dump, StateFiles
<1> QED
  BY <1>1 DEF Persist

LEMMA ElectionTypes ==
  ASSUME TypeOK, NEW i \in Server, Stand4Election(i)
  PROVE  TypeOK'
<1>1. LastLogIndex(i) \in Nat /\ LastLogTerm(i) \in Nat
  BY LogTypes DEF TypeOK
<1>2. term[i] + 1 \in Nat /\ boot[i] \in Nat
  BY DEF TypeOK
<1>3. voteRequests' \subseteq VoteRequests
  <2> DEFINE ask(j) == [src |-> i, dst |-> j, boot |-> boot[i], term |-> term[i] + 1,
                        lastIndex |-> LastLogIndex(i), lastTerm |-> LastLogTerm(i)]
  <2>1. \A j \in Peers(i) : ask(j) \in VoteRequests
    BY <1>1, <1>2 DEF VoteRequests, Peers
  <2>2. voteRequests' = voteRequests \cup {ask(j) : j \in Peers(i)}
    BY DEF Stand4Election
  <2> HIDE DEF ask
  <2> QED
    BY <2>1, <2>2 DEF TypeOK
<1>4. /\ term' \in [Server -> Nat]
      /\ vote4' \in [Server -> Server \cup {Nil}]
      /\ identity' \in [Server -> {"follower", "candidate", "leader"}]
      /\ voteNum' \in [Server -> Nat]
      /\ counted' \in [Server -> SUBSET Server]
  BY <1>2 DEF TypeOK, Stand4Election
<1>5. ballots' \subseteq Nat \X Server \X Server
  <2>1. <<term[i] + 1, i, i>> \in Nat \X Server \X Server
    BY <1>2
  <2> QED
    BY <2>1 DEF TypeOK, Stand4Election
<1>6. disk' \in [Server -> StateFiles \cup {Nil}]
  <2>1. logs'[i] \in Seq(Entries) /\ lastSnapshotIndex'[i] \in Nat
                                  /\ lastSnapshotTerm'[i] \in Nat
    BY DEF TypeOK, Stand4Election, logVars
  <2> QED
    BY <1>4, <2>1, SavedType DEF TypeOK, Stand4Election
<1> QED
  BY <1>3, <1>4, <1>5, <1>6 DEF TypeOK, Stand4Election, logVars, progressVars,
     leaderVars, appendCalls, snapshotCalls

LEMMA VoteRequestTypes ==
  ASSUME TypeOK, NEW m \in voteRequests, HandleVoteRequest(m.dst, m)
  PROVE  TypeOK'
<1> DEFINE i == m.dst
<1>1. m.src \in Server /\ i \in Server /\ m.boot \in Nat /\ m.term \in Nat
  BY DEF TypeOK, VoteRequests
<1>2. term[i] \in Nat /\ Larger(term[i], m.term) \in Nat
  BY <1>1 DEF Larger, TypeOK
<1>3. voteReplies' \subseteq VoteReplies
  <2> DEFINE answer == [src |-> i, dst |-> m.src, boot |-> m.boot,
                        term |-> Larger(term[i], m.term), granted |-> Grants(i, m)]
  <2>1. Grants(i, m) \in BOOLEAN
    BY DEF Grants
  <2>2. answer \in VoteReplies
    BY <1>1, <1>2, <2>1 DEF VoteReplies
  <2>3. voteReplies' = voteReplies \cup {answer}
    BY DEF HandleVoteRequest
  <2> HIDE DEF answer
  <2> QED
    BY <2>2, <2>3 DEF TypeOK
<1>4. /\ term' \in [Server -> Nat]
      /\ vote4' \in [Server -> Server \cup {Nil}]
      /\ identity' \in [Server -> {"follower", "candidate", "leader"}]
  BY <1>1, <1>2 DEF TypeOK, HandleVoteRequest
<1>5. ballots' \subseteq Nat \X Server \X Server
  <2>1. <<m.term, i, m.src>> \in Nat \X Server \X Server
    BY <1>1
  <2> QED
    BY <2>1 DEF TypeOK, HandleVoteRequest
<1>6. disk' \in [Server -> StateFiles \cup {Nil}]
  <2>1. logs'[i] \in Seq(Entries) /\ lastSnapshotIndex'[i] \in Nat
                                  /\ lastSnapshotTerm'[i] \in Nat
    BY <1>1 DEF TypeOK, HandleVoteRequest, logVars
  <2> QED
    BY <1>1, <1>4, <2>1, SavedType DEF TypeOK, HandleVoteRequest
<1> QED
  BY <1>3, <1>4, <1>5, <1>6 DEF TypeOK, HandleVoteRequest, logVars, progressVars,
     leaderVars, appendCalls, snapshotCalls

LEMMA StepDownTypes ==
  ASSUME TypeOK, NEW i \in Server, NEW t \in Nat, StepDown(i, t), UNCHANGED logVars
  PROVE  /\ term' \in [Server -> Nat]
         /\ vote4' \in [Server -> Server \cup {Nil}]
         /\ identity' \in [Server -> {"follower", "candidate", "leader"}]
         /\ disk' \in [Server -> StateFiles \cup {Nil}]
<1>1. /\ term' \in [Server -> Nat]
      /\ vote4' \in [Server -> Server \cup {Nil}]
      /\ identity' \in [Server -> {"follower", "candidate", "leader"}]
  BY DEF TypeOK, StepDown
<1>2. disk' \in [Server -> StateFiles \cup {Nil}]
  BY <1>1, SavedType DEF TypeOK, StepDown, logVars
<1> QED
  BY <1>1, <1>2

\* The variables a step may leave to the other actions keep their types.
LEMMA OfficeTypes ==
  ASSUME TypeOK, NEW i \in Server, TakeOffice(i), UNCHANGED logVars
  PROVE  /\ identity' \in [Server -> {"follower", "candidate", "leader"}]
         /\ nextIndex' \in [Server -> [Server -> Nat]]
         /\ matchIndex' \in [Server -> [Server -> Nat]]
         /\ round' \in [Server -> 0..MaxRounds]
         /\ appendNum' \in [Server -> [1..MaxRounds -> Nat]]
         /\ leaders' \subseteq Nat \X Server
         /\ disk' \in [Server -> StateFiles \cup {Nil}]
<1>1. LastLogIndex(i) \in Nat
  BY LogTypes DEF TypeOK
<1>2. /\ [j \in Server |-> LastLogIndex(i) + 1] \in [Server -> Nat]
      /\ [j \in Server |-> IF j = i THEN LastLogIndex(i) ELSE 0] \in [Server -> Nat]
      /\ [r \in 1..MaxRounds |-> 0] \in [1..MaxRounds -> Nat]
  BY <1>1
<1>3. 0 \in 0..MaxRounds
  BY BoundsAssumption
<1>4. <<term[i], i>> \in Nat \X Server
  BY DEF TypeOK
<1>5. identity' \in [Server -> {"follower", "candidate", "leader"}]
  BY DEF TypeOK, TakeOffice
<1>6. nextIndex' \in [Server -> [Server -> Nat]]
  BY <1>2 DEF TypeOK, TakeOffice
<1>7. matchIndex' \in [Server -> [Server -> Nat]]
  BY <1>2 DEF TypeOK, TakeOffice
<1>8. round' \in [Server -> 0..MaxRounds]
  BY <1>3 DEF TypeOK, TakeOffice
<1>9. appendNum' \in [Server -> [1..MaxRounds -> Nat]]
  BY <1>2 DEF TypeOK, TakeOffice
<1>10. leaders' \subseteq Nat \X Server
  BY <1>4 DEF TypeOK, TakeOffice
<1>11. disk' \in [Server -> StateFiles \cup {Nil}]
  BY SavedType DEF TypeOK, TakeOffice, logVars
<1> QED
  BY <1>5, <1>6, <1>7, <1>8, <1>9, <1>10, <1>11

LEMMA VoteReplyTypes ==
  ASSUME TypeOK, NEW m \in voteReplies, HandleVoteReply(m.dst, m)
  PROVE  TypeOK'
<1> DEFINE i == m.dst
<1>1. i \in Server /\ m.src \in Server /\ m.term \in Nat
  BY DEF TypeOK, VoteReplies
<1>2. /\ voteReplies' \subseteq VoteReplies
      /\ UNCHANGED <<logVars, progressVars, boot, fault, voteRequests, appendCalls,
                     snapshotCalls, ballots>>
  BY DEF TypeOK, HandleVoteReply
<1> DEFINE Frame == UNCHANGED <<logs, lastSnapshotIndex, lastSnapshotTerm, commitIndex,
                      appliedIndex, boot, fault, voteRequests, appendRequests,
                      appendReplies, snapshotThreads, snapshotRequests,
                      snapshotReplies, ballots>>
<1>3. Frame
  BY <1>2 DEF logVars, progressVars, appendCalls, snapshotCalls
<1>4. CASE m.term > term[i] /\ StepDown(i, m.term)
                           /\ UNCHANGED <<leaderVars, voteNum, counted, leaders>>
  <2>1. UNCHANGED <<nextIndex, matchIndex, round, appendNum, voteNum, counted, leaders>>
    BY <1>4 DEF leaderVars
  <2>2. /\ term' \in [Server -> Nat]
        /\ vote4' \in [Server -> Server \cup {Nil}]
        /\ identity' \in [Server -> {"follower", "candidate", "leader"}]
        /\ disk' \in [Server -> StateFiles \cup {Nil}]
    BY <1>1, <1>2, <1>4, StepDownTypes
  <2> QED
    BY <1>2, <1>3, <2>1, <2>2 DEF TypeOK
<1>5. CASE UNCHANGED <<electionVars, leaderVars, voteNum, disk, counted, leaders>>
  BY <1>2, <1>3, <1>5 DEF TypeOK, electionVars, leaderVars
<1>6. CASE counted' = [counted EXCEPT ![i] = @ \cup {m.src}] /\ CountVote(i)
  <2>1. counted[i] \cup {m.src} \in SUBSET Server /\ voteNum[i] + 1 \in Nat
    <3>1. counted[i] \in SUBSET Server /\ voteNum[i] \in Nat
      BY <1>1 DEF TypeOK
    <3> QED
      BY <1>1, <3>1
  <2>2. counted' \in [Server -> SUBSET Server]
    BY <1>6, <2>1 DEF TypeOK
  <2>3. voteNum' \in [Server -> Nat]
    <3>1. PICK n \in Nat : voteNum' = [voteNum EXCEPT ![i] = n]
      BY <1>6, <2>1 DEF CountVote
    <3> QED
      BY <3>1 DEF TypeOK
  <2>4. CASE TakeOffice(i)
    <3>1. UNCHANGED <<term, vote4>>
      BY <2>4 DEF TakeOffice
    <3> QED
      BY <1>1, <1>2, <1>3, <2>2, <2>3, <2>4, <3>1, OfficeTypes DEF TypeOK
  <2>5. CASE UNCHANGED <<electionVars, leaderVars, disk, leaders>>
    BY <1>2, <1>3, <2>2, <2>3, <2>5 DEF TypeOK, electionVars, leaderVars
  <2> QED
    BY <1>6, <2>4, <2>5 DEF CountVote
<1> QED
  BY <1>4, <1>5, <1>6 DEF HandleVoteReply

LEMMA ExecuteTypes ==
  ASSUME TypeOK, NEW i \in Server, NEW c \in Command, Execute(i, c)
  PROVE  TypeOK'
<1>1. logs' \in [Server -> Seq(Entries)]
  <2>1. [term |-> term[i], command |-> c] \in Entries /\ logs[i] \in Seq(Entries)
    BY DEF TypeOK, Entries
  <2>2. Append(logs[i], [term |-> term[i], command |-> c]) \in Seq(Entries)
    BY <2>1, AppendProperties
  <2> QED
    BY <2>2 DEF TypeOK, Execute
<1>2. disk' \in [Server -> StateFiles \cup {Nil}]
  <2>1. term'[i] \in Nat /\ vote4'[i] \in Server \cup {Nil}
    BY DEF TypeOK, Execute, electionVars
  <2>2. logs'[i] \in Seq(Entries)
    BY <1>1
  <2>3. lastSnapshotIndex'[i] \in Nat /\ lastSnapshotTerm'[i] \in Nat
    BY DEF TypeOK, Execute
  <2> QED
    BY <2>1, <2>2, <2>3, SavedType DEF TypeOK, Execute
<1> QED
  BY <1>1, <1>2 DEF TypeOK, Execute, electionVars, progressVars, leaderVars, voteCalls,
     appendCalls, snapshotCalls, history

\* A heartbeat sends each peer what follows the index it is thought to hold.
LEMMA AppendRequestType ==
  ASSUME TypeOK, NEW i \in Server, NEW j \in Server, NEW r \in 1..MaxRounds,
         nextIndex[i][j] > lastSnapshotIndex[i], nextIndex[i][j] <= LastLogIndex(i) + 1
  PROVE  /\ AppendRequest(i, j, r) \in AppendRequests
         /\ AppendRequest(i, j, r).prevIndex + Len(AppendRequest(i, j, r).entries)
              = LastLogIndex(i)
<1> DEFINE prev == nextIndex[i][j] - 1
<1>1. /\ logs[i] \in Seq(Entries) /\ lastSnapshotIndex[i] \in Nat
      /\ lastSnapshotTerm[i] \in Nat /\ nextIndex[i][j] \in Nat
      /\ term[i] \in Nat /\ boot[i] \in Nat /\ commitIndex[i] \in Nat
  BY DEF TypeOK
<1>2. /\ LastLogIndex(i) \in Nat
      /\ \A index \in lastSnapshotIndex[i]..LastLogIndex(i) : LogTerm(i, index) \in Nat
  BY <1>1, LogTypes
<1>3. prev \in Nat /\ prev \in lastSnapshotIndex[i]..LastLogIndex(i)
  BY <1>1, <1>2
<1>4. LogTerm(i, prev) \in Nat
  BY <1>2, <1>3
<1>5. Suffix(i, prev) \in Seq(Entries) /\ Len(Suffix(i, prev)) = LastLogIndex(i) - prev
  BY <1>1, <1>3, SuffixTypes
<1>6. AppendRequest(i, j, r) =
        [src |-> i, dst |-> j, boot |-> boot[i], round |-> r, term |-> term[i],
         prevIndex |-> prev, prevTerm |-> LogTerm(i, prev),
         entries |-> Suffix(i, prev), leaderCommit |-> commitIndex[i]]
  BY DEF AppendRequest
<1> HIDE DEF prev
<1>7. AppendRequest(i, j, r) \in AppendRequests
  BY <1>1, <1>3, <1>4, <1>5, <1>6 DEF AppendRequests
<1>8. prev + Len(Suffix(i, prev)) = LastLogIndex(i)
  BY <1>2, <1>3, <1>5
<1> QED
  BY <1>6, <1>7, <1>8

\* A heartbeat starts a round within the bound.
LEMMA NextRound ==
  ASSUME TypeOK, NEW i \in Server, Heartbeat(i)
  PROVE  round[i] \in Nat /\ round[i] + 1 \in 1..MaxRounds
<1>1. round[i] \in 0..MaxRounds
  BY DEF TypeOK
<1>2. round[i] < MaxRounds
  BY DEF Heartbeat
<1> QED
  BY <1>1, <1>2, BoundsAssumption

\* The peers a heartbeat serves, and those it hands to a snapshot thread.
LEMMA HeartbeatCalls ==
  ASSUME TypeOK, NEW i \in Server, Heartbeat(i)
  PROVE  /\ \A m \in appendRequests' \ appendRequests :
              \E j \in Server, r \in 1..MaxRounds :
                /\ nextIndex[i][j] > lastSnapshotIndex[i]
                /\ nextIndex[i][j] <= LastLogIndex(i) + 1
                /\ m = AppendRequest(i, j, r)
         /\ \A th \in snapshotThreads' \ snapshotThreads : th \in SnapshotThreads
<1> DEFINE r == round[i] + 1
           discarded == {j \in Peers(i) : nextIndex[i][j] <= lastSnapshotIndex[i]}
           beyond == {j \in Peers(i) : nextIndex[i][j] > LastLogIndex(i) + 1}
<1>1. r \in 1..MaxRounds /\ r \in Nat
  BY NextRound
<1>2. LastLogIndex(i) \in Nat
  BY LogTypes DEF TypeOK
<1>3. ASSUME NEW j \in Peers(i) \ (discarded \cup beyond)
      PROVE  /\ j \in Server
             /\ nextIndex[i][j] > lastSnapshotIndex[i]
             /\ nextIndex[i][j] <= LastLogIndex(i) + 1
  <2>1. j \in Server
    BY DEF Peers
  <2>2. nextIndex[i][j] \in Nat /\ lastSnapshotIndex[i] \in Nat
    BY <2>1 DEF TypeOK
  <2>3. /\ ~(nextIndex[i][j] <= lastSnapshotIndex[i])
        /\ ~(nextIndex[i][j] > LastLogIndex(i) + 1)
    OBVIOUS
  <2> QED
    BY <1>2, <2>1, <2>2, <2>3
<1>4. appendRequests' = appendRequests \cup
        {AppendRequest(i, j, r) : j \in Peers(i) \ (discarded \cup beyond)}
  BY DEF Heartbeat
<1>5. snapshotThreads' = snapshotThreads \cup
        {[src |-> i, dst |-> j, id |-> <<term[i], r>>] : j \in discarded}
  BY DEF Heartbeat
<1>6. ASSUME NEW j \in discarded
      PROVE  [src |-> i, dst |-> j, id |-> <<term[i], r>>] \in SnapshotThreads
  <2>1. j \in Server
    BY DEF Peers
  <2>2. <<term[i], r>> \in Nat \X Nat
    BY <1>1 DEF TypeOK
  <2> QED
    BY <2>1, <2>2 DEF SnapshotThreads
<1> HIDE DEF r, discarded, beyond
<1>7. \A m \in appendRequests' \ appendRequests :
        \E j \in Peers(i) \ (discarded \cup beyond) : m = AppendRequest(i, j, r)
  BY <1>4
<1>8. \A th \in snapshotThreads' \ snapshotThreads : th \in SnapshotThreads
  BY <1>5, <1>6
<1> QED
  BY <1>1, <1>3, <1>7, <1>8

LEMMA HeartbeatTypes ==
  ASSUME TypeOK, NEW i \in Server, Heartbeat(i)
  PROVE  TypeOK'
<1>1. appendRequests' \subseteq AppendRequests
  <2>1. appendRequests' \ appendRequests \subseteq AppendRequests
    BY HeartbeatCalls, AppendRequestType
  <2> QED
    BY <2>1 DEF TypeOK
<1>2. snapshotThreads' \subseteq SnapshotThreads
  BY HeartbeatCalls DEF TypeOK
<1>3. round[i] + 1 \in 0..MaxRounds
  BY NextRound
<1>4. round' \in [Server -> 0..MaxRounds]
  BY <1>3 DEF TypeOK, Heartbeat
<1>5. appendNum' \in [Server -> [1..MaxRounds -> Nat]]
  <2>1. appendNum[i] \in [1..MaxRounds -> Nat]
    BY DEF TypeOK
  <2>2. [appendNum[i] EXCEPT ![round[i] + 1] = 1] \in [1..MaxRounds -> Nat]
    BY <2>1
  <2>3. appendNum' = [appendNum EXCEPT ![i] = [appendNum[i] EXCEPT ![round[i] + 1] = 1]]
    BY DEF Heartbeat
  <2> QED
    BY <2>2, <2>3 DEF TypeOK
<1>6. fault' \in [Server -> Faults]
  <2>1. PICK f \in {fault[i], "out of range"} : fault' = [fault EXCEPT ![i] = f]
    BY DEF Heartbeat
  <2>2. f \in Faults
    BY <2>1 DEF TypeOK, Faults
  <2> QED
    BY <2>1, <2>2 DEF TypeOK
<1> QED
  BY <1>1, <1>2, <1>4, <1>5, <1>6 DEF TypeOK, Heartbeat, electionVars, logVars,
     progressVars, voteCalls, history

\* The answer to an append request is typed whatever the handler answers.
LEMMA AppendReplyType ==
  ASSUME TypeOK, NEW m \in appendRequests, NEW success \in BOOLEAN,
         NEW next \in Nat \cup {InvalidUpdateNextIndex}
  PROVE  /\ AppendReply(m.dst, m, success, next) \in AppendReplies
         /\ AppendReply(m.dst, m, success, next).lastIndex = m.prevIndex + Len(m.entries)
<1> DEFINE i == m.dst
           newest == IF m.entries = <<>> THEN 0 ELSE m.entries[Len(m.entries)].term
<1>1. /\ m.src \in Server /\ i \in Server /\ m.boot \in Nat /\ m.round \in 1..MaxRounds
      /\ m.term \in Nat /\ m.prevIndex \in Nat /\ m.entries \in Seq(Entries)
  BY DEF TypeOK, AppendRequests
<1>2. Len(m.entries) \in Nat
  BY <1>1, LenProperties
<1>3. newest \in Nat
  <2>1. CASE m.entries = <<>>
    BY <2>1
  <2>2. CASE m.entries # <<>>
    <3>1. Len(m.entries) \in 1..Len(m.entries)
      BY <1>1, <1>2, <2>2, EmptySeq
    <3>2. m.entries[Len(m.entries)] \in Entries
      BY <1>1, <3>1, ElementOfSeq
    <3> QED
      BY <2>2, <3>2 DEF Entries
  <2> QED
    BY <2>1, <2>2
<1>4. Larger(term[i], m.term) \in Nat
  BY <1>1 DEF Larger, TypeOK
<1>5. m.prevIndex + Len(m.entries) \in Nat
  BY <1>1, <1>2
<1>6. AppendReply(i, m, success, next) =
        [src |-> i, dst |-> m.src, boot |-> m.boot, round |-> m.round,
         lastIndex |-> m.prevIndex + Len(m.entries), newestTerm |-> newest,
         term |-> Larger(term[i], m.term), success |-> success, updateNextIndex |-> next]
  BY DEF AppendReply
<1> HIDE DEF newest, i
<1> QED
  BY <1>1, <1>3, <1>4, <1>5, <1>6 DEF AppendReplies, i

\* A handler that follows the sender keeps the types of the election state.
LEMMA AdoptTypes ==
  ASSUME TypeOK, NEW i \in Server, NEW t \in Nat, AdoptTerm(i, t)
  PROVE  /\ term' \in [Server -> Nat]
         /\ vote4' \in [Server -> Server \cup {Nil}]
<1>1. Larger(term[i], t) \in Nat
  BY DEF Larger, TypeOK
<1> QED
  BY <1>1 DEF AdoptTerm, TypeOK

\* Accepting a request keeps the log, the commit index and the fault typed.
LEMMA AcceptTypes ==
  ASSUME TypeOK, NEW m \in appendRequests, Accepts(m.dst, m), Accept(m.dst, m)
  PROVE  /\ logs' \in [Server -> Seq(Entries)]
         /\ commitIndex' \in [Server -> Nat]
         /\ fault' \in [Server -> Faults]
         /\ lastSnapshotIndex[m.dst] + Len(logs'[m.dst])
              = Larger(LastLogIndex(m.dst), m.prevIndex + Len(m.entries))
<1> DEFINE i == m.dst
           merged == Merged(i, m.prevIndex, m.entries)
<1>1. /\ i \in Server /\ m.prevIndex \in Nat /\ m.entries \in Seq(Entries)
      /\ m.leaderCommit \in Nat
  BY DEF TypeOK, AppendRequests
<1>2. logs[i] \in Seq(Entries) /\ lastSnapshotIndex[i] \in Nat /\ commitIndex[i] \in Nat
  BY <1>1 DEF TypeOK
<1>3. m.prevIndex \in lastSnapshotIndex[i]..LastLogIndex(i)
  <2>1. lastSnapshotIndex[i] <= m.prevIndex /\ m.prevIndex <= LastLogIndex(i)
    BY DEF Accepts
  <2>2. LastLogIndex(i) \in Nat
    BY <1>2, LenProperties DEF LastLogIndex
  <2> QED
    BY <1>1, <1>2, <2>1, <2>2
<1>4. /\ merged \in Seq(Entries)
      /\ lastSnapshotIndex[i] + Len(merged)
           = Larger(LastLogIndex(i), m.prevIndex + Len(m.entries))
  BY <1>1, <1>2, <1>3, MergedTypes
<1>5. logs' = [logs EXCEPT ![i] = merged]
  BY DEF Accept
<1> HIDE DEF merged
<1>6. logs' \in [Server -> Seq(Entries)] /\ logs'[i] = merged
  BY <1>1, <1>4, <1>5 DEF TypeOK
<1>7. commitIndex' \in [Server -> Nat]
  <2>1. Len(merged) \in Nat
    BY <1>4, LenProperties
  <2> DEFINE n == IF m.leaderCommit > commitIndex[i]
                    THEN Smaller(m.leaderCommit, lastSnapshotIndex[i] + Len(logs'[i]))
                    ELSE commitIndex[i]
  <2>2. n \in Nat
    BY <1>1, <1>2, <1>6, <2>1 DEF Smaller
  <2>3. commitIndex' = [commitIndex EXCEPT ![i] = n]
    BY DEF Accept
  <2> HIDE DEF n
  <2> QED
    BY <1>1, <2>2, <2>3 DEF TypeOK
<1>8. fault' \in [Server -> Faults]
  <2>1. PICK f \in {fault[i], "command conflict"} : fault' = [fault EXCEPT ![i] = f]
    BY DEF Accept
  <2>2. f \in Faults
    BY <1>1, <2>1 DEF TypeOK, Faults
  <2> QED
    BY <2>1, <2>2 DEF TypeOK
<1> QED
  BY <1>4, <1>6, <1>7, <1>8

LEMMA AppendEntriesTypes ==
  ASSUME TypeOK, NEW m \in appendRequests, HandleAppendEntries(m.dst, m)
  PROVE  TypeOK'
<1> DEFINE i == m.dst
<1>1. i \in Server /\ m.term \in Nat
  BY DEF TypeOK, AppendRequests
<1>2. logs[i] \in Seq(Entries) /\ lastSnapshotIndex[i] \in Nat
  BY <1>1 DEF TypeOK
<1>3. LastLogIndex(i) \in Nat
  BY <1>2, LenProperties DEF LastLogIndex
<1>4. /\ appendRequests' \subseteq AppendRequests
      /\ UNCHANGED <<lastSnapshotIndex, lastSnapshotTerm, appliedIndex, leaderVars,
                     voteNum, boot, voteCalls, snapshotCalls, history>>
  BY DEF TypeOK, HandleAppendEntries
<1>5. UNCHANGED <<lastSnapshotIndex, lastSnapshotTerm, appliedIndex, nextIndex, matchIndex,
                  round, appendNum, voteNum, boot, voteRequests, voteReplies,
                  snapshotThreads, snapshotRequests, snapshotReplies, ballots, counted,
                  leaders>>
  BY <1>4 DEF leaderVars, voteCalls, snapshotCalls, history
<1>6. ASSUME NEW success \in BOOLEAN, NEW next \in Nat \cup {InvalidUpdateNextIndex},
             appendReplies' = appendReplies \cup {AppendReply(i, m, success, next)}
      PROVE  appendReplies' \subseteq AppendReplies
  <2>1. AppendReply(i, m, success, next) \in AppendReplies
    BY AppendReplyType
  <2>2. appendReplies \subseteq AppendReplies
    BY DEF TypeOK
  <2> QED
    BY <1>6, <2>1, <2>2
<1>7. CASE /\ appendReplies' = appendReplies \cup
                {AppendReply(i, m, FALSE, InvalidUpdateNextIndex)}
           /\ UNCHANGED <<electionVars, logs, commitIndex, disk, fault>>
  <2>1. appendReplies' \subseteq AppendReplies
    BY <1>6, <1>7
  <2>2. UNCHANGED <<term, vote4, identity, logs, commitIndex, disk, fault>>
    BY <1>7 DEF electionVars
  <2> QED
    BY <1>4, <1>5, <2>1, <2>2 DEF TypeOK
<1>8. CASE /\ AdoptTerm(i, m.term)
           /\ identity' = [identity EXCEPT ![i] = "follower"]
           /\ \/ \E next \in lastSnapshotIndex[i]..(LastLogIndex(i) + 1) :
                   /\ Refuses(i, m, next)
                   /\ appendReplies' = appendReplies \cup {AppendReply(i, m, FALSE, next)}
                   /\ UNCHANGED <<logs, commitIndex, fault>>
              \/ /\ Accepts(i, m)
                 /\ Accept(i, m)
                 /\ \/ UNCHANGED appendReplies
                    \/ appendReplies' = appendReplies \cup {AppendReply(i, m, TRUE, 0)}
           /\ Persist(i)
  <2>1. /\ term' \in [Server -> Nat]
        /\ vote4' \in [Server -> Server \cup {Nil}]
    BY <1>1, <1>8, AdoptTypes
  <2>2. identity' \in [Server -> {"follower", "candidate", "leader"}]
    BY <1>8 DEF TypeOK
  <2>3. /\ logs' \in [Server -> Seq(Entries)]
        /\ commitIndex' \in [Server -> Nat]
        /\ fault' \in [Server -> Faults]
        /\ appendReplies' \subseteq AppendReplies
    <3>1. CASE \E next \in lastSnapshotIndex[i]..(LastLogIndex(i) + 1) :
                   /\ Refuses(i, m, next)
                   /\ appendReplies' = appendReplies \cup {AppendReply(i, m, FALSE, next)}
                   /\ UNCHANGED <<logs, commitIndex, fault>>
      <4>1. PICK next \in lastSnapshotIndex[i]..(LastLogIndex(i) + 1) :
                   /\ appendReplies' = appendReplies \cup {AppendReply(i, m, FALSE, next)}
                   /\ UNCHANGED <<logs, commitIndex, fault>>
        BY <3>1
      <4>2. next \in Nat
        BY <1>2, <1>3
      <4>3. appendReplies' \subseteq AppendReplies
        BY <1>6, <4>1, <4>2
      <4> QED
        BY <4>1, <4>3 DEF TypeOK
    <3>2. CASE /\ Accepts(i, m)
               /\ Accept(i, m)
               /\ \/ UNCHANGED appendReplies
                  \/ appendReplies' = appendReplies \cup {AppendReply(i, m, TRUE, 0)}
      <4>1. appendReplies' \subseteq AppendReplies
        <5>1. CASE UNCHANGED appendReplies
          BY <5>1 DEF TypeOK
        <5>2. CASE appendReplies' = appendReplies \cup {AppendReply(i, m, TRUE, 0)}
          BY <1>6, <5>2
        <5> QED
          BY <3>2, <5>1, <5>2
      <4> QED
        BY <3>2, <4>1, AcceptTypes
    <3> QED
      BY <1>8, <3>1, <3>2
  <2>4. disk' \in [Server -> StateFiles \cup {Nil}]
    <3>1. /\ term'[i] \in Nat /\ vote4'[i] \in Server \cup {Nil}
          /\ logs'[i] \in Seq(Entries)
      BY <1>1, <2>1, <2>3
    <3>2. lastSnapshotIndex'[i] \in Nat /\ lastSnapshotTerm'[i] \in Nat
      BY <1>1, <1>5 DEF TypeOK
    <3>3. disk \in [Server -> StateFiles \cup {Nil}]
      BY DEF TypeOK
    <3> QED
      BY <1>1, <1>8, <3>1, <3>2, <3>3, SavedType
  <2> QED
    BY <1>4, <1>5, <2>1, <2>2, <2>3, <2>4 DEF TypeOK
<1> QED
  BY <1>7, <1>8 DEF HandleAppendEntries

\* Counting a success keeps the leader's view, its commit index and the fault typed.
LEMMA CountAppendTypes ==
  ASSUME TypeOK, NEW m \in appendReplies, CountAppend(m.dst, m)
  PROVE  /\ matchIndex' \in [Server -> [Server -> Nat]]
         /\ nextIndex' \in [Server -> [Server -> Nat]]
         /\ appendNum' \in [Server -> [1..MaxRounds -> Nat]]
         /\ commitIndex' \in [Server -> Nat]
         /\ fault' \in [Server -> Faults]
<1> DEFINE i == m.dst
           match == Larger(matchIndex[i][m.src], m.lastIndex)
           majority == appendNum[i][m.round] + 1 >= Majority
           count == IF majority THEN 0 ELSE appendNum[i][m.round] + 1
           commit == IF majority /\ m.newestTerm = term[i]
                       THEN Larger(commitIndex[i], m.lastIndex) ELSE commitIndex[i]
<1>1. i \in Server /\ m.src \in Server /\ m.round \in 1..MaxRounds /\ m.lastIndex \in Nat
  BY DEF TypeOK, AppendReplies
<1>2. /\ matchIndex[i] \in [Server -> Nat] /\ nextIndex[i] \in [Server -> Nat]
      /\ appendNum[i] \in [1..MaxRounds -> Nat] /\ commitIndex[i] \in Nat
      /\ fault[i] \in Faults
  <2>1. /\ matchIndex \in [Server -> [Server -> Nat]]
        /\ nextIndex \in [Server -> [Server -> Nat]]
        /\ appendNum \in [Server -> [1..MaxRounds -> Nat]]
        /\ commitIndex \in [Server -> Nat] /\ fault \in [Server -> Faults]
    BY DEF TypeOK
  <2> QED
    BY <1>1, <2>1
<1>3. match \in Nat /\ match + 1 \in Nat
  <2>1. matchIndex[i][m.src] \in Nat
    BY <1>1, <1>2
  <2> QED
    BY <1>1, <2>1 DEF Larger
<1>4. count \in Nat
  <2>1. appendNum[i][m.round] \in Nat
    BY <1>1, <1>2
  <2>2. appendNum[i][m.round] + 1 \in Nat
    BY <2>1
  <2> QED
    BY <2>2
<1>5. commit \in Nat
  BY <1>1, <1>2 DEF Larger
<1>6. matchIndex' = [matchIndex EXCEPT ![i] = [matchIndex[i] EXCEPT ![m.src] = match]]
  BY DEF CountAppend
<1>7. nextIndex' = [nextIndex EXCEPT ![i] = [nextIndex[i] EXCEPT ![m.src] = match + 1]]
  BY DEF CountAppend
<1>8. appendNum' = [appendNum EXCEPT ![i] = [appendNum[i] EXCEPT ![m.round] = count]]
  BY DEF CountAppend
<1>9. commitIndex' = [commitIndex EXCEPT ![i] = commit]
  BY DEF CountAppend
<1> DEFINE f == CASE match > LastLogIndex(i) -> "next index beyond log"
                  [] commit > LastLogIndex(i) -> "commit beyond log"
                  [] OTHER -> fault[i]
<1>10. f \in Faults /\ fault' = [fault EXCEPT ![i] = f]
  <2>1. f \in {"next index beyond log", "commit beyond log", fault[i]}
    <3>1. CASE match > LastLogIndex(i)
      BY <3>1
    <3> QED
      BY <3>1
  <2>2. f \in Faults
    BY <1>2, <2>1 DEF Faults
  <2>3. fault' = [fault EXCEPT ![i] = f]
    BY DEF CountAppend
  <2> QED
    BY <2>2, <2>3
<1> HIDE DEF f
<1> HIDE DEF match, count, commit
<1>11. matchIndex' \in [Server -> [Server -> Nat]]
  BY <1>1, <1>2, <1>3, <1>6 DEF TypeOK
<1>12. nextIndex' \in [Server -> [Server -> Nat]]
  BY <1>1, <1>2, <1>3, <1>7 DEF TypeOK
<1>13. appendNum' \in [Server -> [1..MaxRounds -> Nat]]
  BY <1>1, <1>2, <1>4, <1>8 DEF TypeOK
<1>14. commitIndex' \in [Server -> Nat] /\ fault' \in [Server -> Faults]
  BY <1>5, <1>9, <1>10 DEF TypeOK
<1> QED
  BY <1>11, <1>12, <1>13, <1>14

LEMMA AppendReplyTypes ==
  ASSUME TypeOK, NEW m \in appendReplies, HandleAppendReply(m.dst, m)
  PROVE  TypeOK'
<1> DEFINE i == m.dst
<1>1. i \in Server /\ m.src \in Server /\ m.term \in Nat
      /\ m.updateNextIndex \in Nat \cup {InvalidUpdateNextIndex}
  BY DEF TypeOK, AppendReplies
<1>2. appendReplies' \subseteq AppendReplies
  BY DEF TypeOK, HandleAppendReply
<1>3. UNCHANGED <<logVars, appliedIndex, round, voteNum, boot, voteCalls,
                  appendRequests, snapshotCalls, history>>
  BY DEF HandleAppendReply
<1>4. UNCHANGED <<logs, lastSnapshotIndex, lastSnapshotTerm, appliedIndex, round, voteNum,
                  boot, voteRequests, voteReplies, appendRequests, snapshotThreads,
                  snapshotRequests, snapshotReplies, ballots, counted, leaders>>
  BY <1>3 DEF logVars, voteCalls, snapshotCalls, history
<1>5. CASE /\ StepDown(i, m.term)
           /\ UNCHANGED <<nextIndex, matchIndex, appendNum, commitIndex, fault>>
  BY <1>1, <1>2, <1>3, <1>4, <1>5, StepDownTypes DEF TypeOK
<1>6. CASE UNCHANGED <<electionVars, nextIndex, matchIndex, appendNum,
                       commitIndex, disk, fault>>
  BY <1>2, <1>4, <1>6 DEF TypeOK, electionVars
<1>7. CASE /\ nextIndex' = [nextIndex EXCEPT ![i][m.src] = NextAfterRefusal(i, m)]
           /\ UNCHANGED <<electionVars, matchIndex, appendNum, commitIndex, disk, fault>>
  <2>1. nextIndex[i] \in [Server -> Nat]
    BY <1>1 DEF TypeOK
  <2>2. NextAfterRefusal(i, m) \in Nat
    BY <1>1, <2>1 DEF NextAfterRefusal
  <2>3. [nextIndex[i] EXCEPT ![m.src] = NextAfterRefusal(i, m)] \in [Server -> Nat]
    BY <2>1, <2>2
  <2>4. nextIndex' \in [Server -> [Server -> Nat]]
    BY <1>7, <2>3 DEF TypeOK
  <2> QED
    BY <1>2, <1>4, <1>7, <2>4 DEF TypeOK, electionVars
<1>8. CASE CountAppend(i, m) /\ UNCHANGED <<electionVars, disk>>
  BY <1>2, <1>4, <1>8, CountAppendTypes DEF TypeOK, electionVars
<1> QED
  BY <1>5, <1>6, <1>7, <1>8 DEF HandleAppendReply

LEMMA ApplierTypes ==
  ASSUME TypeOK, NEW i \in Server, ApplierTick(i)
  PROVE  TypeOK'
<1>1. appliedIndex' \in [Server -> Nat]
  <2>1. Larger(appliedIndex[i], commitIndex[i]) \in Nat
    BY DEF TypeOK, Larger
  <2> QED
    BY <2>1 DEF TypeOK, ApplierTick
<1>2. fault' \in [Server -> Faults]
  <2> DEFINE f == CASE commitIndex[i] > LastLogIndex(i) -> "commit beyond log"
                    [] appliedIndex[i] > commitIndex[i] -> "applied beyond commit"
                    [] OTHER -> fault[i]
  <2>1. f \in {"commit beyond log", "applied beyond commit", fault[i]}
    OBVIOUS
  <2>2. f \in Faults
    <3>1. fault[i] \in Faults
      BY DEF TypeOK
    <3> QED
      BY <2>1, <3>1 DEF Faults
  <2>3. fault' = [fault EXCEPT ![i] = f]
    BY DEF ApplierTick
  <2> HIDE DEF f
  <2> QED
    BY <2>2, <2>3 DEF TypeOK
<1> QED
  BY <1>1, <1>2 DEF TypeOK, ApplierTick, electionVars, logVars, leaderVars, voteCalls,
     appendCalls, snapshotCalls, history

LEMMA PersistSnapshotTypes ==
  ASSUME TypeOK, IndexOrder, NEW i \in Server, NEW index \in 1..MaxIndex,
         PersistSnapshot(i, index)
  PROVE  TypeOK'
<1>1. index \in Nat /\ index >= lastSnapshotIndex[i] /\ index <= LastLogIndex(i)
  <2>1. lastSnapshotIndex[i] \in Nat /\ commitIndex[i] \in Nat
    BY DEF TypeOK
  <2>2. commitIndex[i] <= LastLogIndex(i) /\ LastLogIndex(i) \in Nat
    BY LogTypes DEF IndexOrder, TypeOK
  <2>3. lastSnapshotIndex[i] + 1 <= index /\ index <= commitIndex[i]
    BY DEF PersistSnapshot
  <2> QED
    BY <2>1, <2>2, <2>3, BoundsAssumption
<1>2. LogTerm(i, index) \in Nat
  <2>1. lastSnapshotIndex[i] \in Nat /\ LastLogIndex(i) \in Nat
    BY LogTypes DEF TypeOK
  <2>2. index \in lastSnapshotIndex[i]..LastLogIndex(i)
    BY <1>1, <2>1
  <2> QED
    BY <2>2, LogTypes DEF TypeOK
<1>3. Discard(i, index) \in Seq(Entries)
  BY <1>1, DiscardTypes DEF TypeOK
<1>4. /\ logs' \in [Server -> Seq(Entries)]
      /\ lastSnapshotIndex' \in [Server -> Nat]
      /\ lastSnapshotTerm' \in [Server -> Nat]
  BY <1>1, <1>2, <1>3 DEF TypeOK, PersistSnapshot
<1>5. disk' \in [Server -> StateFiles \cup {Nil}]
  <2>1. term'[i] \in Nat /\ vote4'[i] \in Server \cup {Nil}
    BY DEF TypeOK, PersistSnapshot, electionVars
  <2> QED
    BY <1>4, <2>1, SavedType DEF TypeOK, PersistSnapshot
<1> QED
  BY <1>4, <1>5 DEF TypeOK, PersistSnapshot, electionVars, progressVars, leaderVars,
     voteCalls, appendCalls, snapshotCalls, history

LEMMA SendSnapshotTypes ==
  ASSUME TypeOK, NEW th \in snapshotThreads, SendSnapshot(th.src, th)
  PROVE  TypeOK'
<1> DEFINE i == th.src
           request == [src |-> i, dst |-> th.dst, boot |-> boot[i], id |-> th.id,
                       term |-> term[i], lastIndex |-> lastSnapshotIndex[i],
                       lastTerm |-> lastSnapshotTerm[i]]
<1>1. i \in Server /\ th.dst \in Server /\ th.id \in Nat \X Nat
  BY DEF TypeOK, SnapshotThreads
<1>2. request \in SnapshotRequests
  BY <1>1 DEF TypeOK, SnapshotRequests
<1>3. snapshotRequests' = snapshotRequests \cup {request}
  BY DEF SendSnapshot
<1> HIDE DEF request
<1>4. snapshotRequests' \subseteq SnapshotRequests /\ snapshotThreads' \subseteq SnapshotThreads
  BY <1>2, <1>3 DEF TypeOK, SendSnapshot
<1> QED
  BY <1>4 DEF TypeOK, SendSnapshot, electionVars, logVars, progressVars, leaderVars,
     voteCalls, appendCalls, history

\* The answer to a snapshot request is typed whatever term it carries.
LEMMA SnapshotReplyType ==
  ASSUME TypeOK, NEW m \in snapshotRequests, NEW t \in Nat
  PROVE  /\ SnapshotReply(m.dst, m, t) \in SnapshotReplies
         /\ SnapshotReply(m.dst, m, t).dst = m.src
         /\ SnapshotReply(m.dst, m, t).boot = m.boot
         /\ SnapshotReply(m.dst, m, t).lastIndex = m.lastIndex
<1>1. /\ m.src \in Server /\ m.dst \in Server /\ m.boot \in Nat /\ m.id \in Nat \X Nat
      /\ m.lastIndex \in Nat /\ m.term \in Nat
  BY DEF TypeOK, SnapshotRequests
<1>2. SnapshotReply(m.dst, m, t) =
        [src |-> m.dst, dst |-> m.src, boot |-> m.boot, id |-> m.id,
         lastIndex |-> m.lastIndex, sentTerm |-> m.term, term |-> t]
  BY DEF SnapshotReply
<1>3. SnapshotReply(m.dst, m, t) \in SnapshotReplies
  BY <1>1, <1>2 DEF SnapshotReplies
<1> QED
  BY <1>2, <1>3

\* Installing a snapshot keeps the types; the log then ends where it did before,
\* or at the snapshot if that is later.
LEMMA InstallTypes ==
  ASSUME TypeOK, NEW m \in snapshotRequests, m.lastIndex > lastSnapshotIndex[m.dst],
         Install(m.dst, m)
  PROVE  /\ logs' \in [Server -> Seq(Entries)]
         /\ lastSnapshotIndex' \in [Server -> Nat]
         /\ lastSnapshotTerm' \in [Server -> Nat]
         /\ commitIndex' \in [Server -> Nat]
         /\ appliedIndex' \in [Server -> Nat]
         /\ m.lastIndex + Len(logs'[m.dst]) = Larger(m.lastIndex, LastLogIndex(m.dst))
<1> DEFINE i == m.dst
           rest == Discard(i, m.lastIndex)
<1>1. i \in Server /\ m.lastIndex \in Nat /\ m.lastTerm \in Nat
  BY DEF TypeOK, SnapshotRequests
<1>2. /\ logs[i] \in Seq(Entries) /\ lastSnapshotIndex[i] \in Nat
      /\ commitIndex[i] \in Nat /\ appliedIndex[i] \in Nat
  BY <1>1 DEF TypeOK
<1>3. rest \in Seq(Entries) /\ m.lastIndex + Len(rest) = Larger(m.lastIndex, LastLogIndex(i))
  <2>1. m.lastIndex >= lastSnapshotIndex[i]
    BY <1>1, <1>2
  <2> QED
    BY <1>1, <1>2, <2>1, DiscardTypes
<1>4. Larger(commitIndex[i], m.lastIndex) \in Nat /\ Larger(appliedIndex[i], m.lastIndex) \in Nat
  BY <1>1, <1>2 DEF Larger
<1>5. logs' = [logs EXCEPT ![i] = rest]
  BY DEF Install
<1> HIDE DEF rest
<1>6. logs' \in [Server -> Seq(Entries)] /\ logs'[i] = rest
  BY <1>1, <1>3, <1>5 DEF TypeOK
<1>7. commitIndex' \in [Server -> Nat] /\ appliedIndex' \in [Server -> Nat]
  BY <1>4 DEF TypeOK, Install
<1>8. lastSnapshotIndex' \in [Server -> Nat] /\ lastSnapshotTerm' \in [Server -> Nat]
  BY <1>1 DEF TypeOK, Install
<1> QED
  BY <1>3, <1>6, <1>7, <1>8

LEMMA InstallSnapshotTypes ==
  ASSUME TypeOK, NEW m \in snapshotRequests, HandleInstallSnapshot(m.dst, m)
  PROVE  TypeOK'
<1> DEFINE i == m.dst
<1>1. i \in Server /\ m.term \in Nat
  BY DEF TypeOK, SnapshotRequests
<1>2. snapshotRequests' \subseteq SnapshotRequests
  BY DEF TypeOK, HandleInstallSnapshot
<1>3. UNCHANGED <<nextIndex, matchIndex, round, appendNum, voteNum, boot, fault,
                  voteRequests, voteReplies, appendRequests, appendReplies,
                  snapshotThreads, ballots, counted, leaders>>
  BY DEF HandleInstallSnapshot, leaderVars, voteCalls, appendCalls, history
<1>4. ASSUME NEW t \in Nat, snapshotReplies' = snapshotReplies \cup {SnapshotReply(i, m, t)}
      PROVE  snapshotReplies' \subseteq SnapshotReplies
  <2>1. SnapshotReply(i, m, t) \in SnapshotReplies
    BY SnapshotReplyType
  <2> QED
    BY <1>4, <2>1 DEF TypeOK
<1>5. CASE /\ snapshotReplies' = snapshotReplies \cup {SnapshotReply(i, m, term[i])}
           /\ UNCHANGED <<electionVars, logVars, progressVars, disk>>
  <2>1. term[i] \in Nat
    BY <1>1 DEF TypeOK
  <2>2. snapshotReplies' \subseteq SnapshotReplies
    BY <1>4, <1>5, <2>1
  <2>3. UNCHANGED <<term, vote4, identity, logs, lastSnapshotIndex, lastSnapshotTerm,
                    commitIndex, appliedIndex, disk>>
    BY <1>5 DEF electionVars, logVars, progressVars
  <2> QED
    BY <1>2, <1>3, <2>2, <2>3 DEF TypeOK
<1>6. CASE /\ AdoptTerm(i, m.term)
           /\ identity' = [identity EXCEPT ![i] = "follower"]
           /\ \/ /\ m.lastIndex <= lastSnapshotIndex[i]
                 /\ snapshotReplies' = snapshotReplies \cup {SnapshotReply(i, m, 0)}
                 /\ UNCHANGED <<logVars, progressVars>>
              \/ /\ m.lastIndex > lastSnapshotIndex[i]
                 /\ Install(i, m)
                 /\ snapshotReplies' = snapshotReplies \cup {SnapshotReply(i, m, m.term)}
           /\ Persist(i)
  <2>1. term' \in [Server -> Nat] /\ vote4' \in [Server -> Server \cup {Nil}]
    BY <1>1, <1>6, AdoptTypes
  <2>2. identity' \in [Server -> {"follower", "candidate", "leader"}]
    BY <1>6 DEF TypeOK
  <2>3. /\ logs' \in [Server -> Seq(Entries)]
        /\ lastSnapshotIndex' \in [Server -> Nat]
        /\ lastSnapshotTerm' \in [Server -> Nat]
        /\ commitIndex' \in [Server -> Nat]
        /\ appliedIndex' \in [Server -> Nat]
        /\ snapshotReplies' \subseteq SnapshotReplies
    <3>1. CASE /\ snapshotReplies' = snapshotReplies \cup {SnapshotReply(i, m, 0)}
               /\ UNCHANGED <<logVars, progressVars>>
      <4>1. snapshotReplies' \subseteq SnapshotReplies
        BY <1>4, <3>1
      <4> QED
        BY <3>1, <4>1 DEF TypeOK, logVars, progressVars
    <3>2. CASE /\ m.lastIndex > lastSnapshotIndex[i]
               /\ Install(i, m)
               /\ snapshotReplies' = snapshotReplies \cup {SnapshotReply(i, m, m.term)}
      <4>1. snapshotReplies' \subseteq SnapshotReplies
        BY <1>1, <1>4, <3>2
      <4> QED
        BY <3>2, <4>1, InstallTypes
    <3> QED
      BY <1>6, <3>1, <3>2
  <2>4. disk' \in [Server -> StateFiles \cup {Nil}]
    <3>1. /\ term'[i] \in Nat /\ vote4'[i] \in Server \cup {Nil} /\ logs'[i] \in Seq(Entries)
          /\ lastSnapshotIndex'[i] \in Nat /\ lastSnapshotTerm'[i] \in Nat
      BY <1>1, <2>1, <2>3
    <3>2. disk \in [Server -> StateFiles \cup {Nil}]
      BY DEF TypeOK
    <3> QED
      BY <1>1, <1>6, <3>1, <3>2, SavedType
  <2> QED
    BY <1>2, <1>3, <2>1, <2>2, <2>3, <2>4 DEF TypeOK
<1> QED
  BY <1>5, <1>6 DEF HandleInstallSnapshot

LEMMA SnapshotReplyTypes ==
  ASSUME TypeOK, NEW m \in snapshotReplies, HandleSnapshotReply(m.dst, m)
  PROVE  TypeOK'
<1> DEFINE i == m.dst
<1>1. i \in Server /\ m.src \in Server /\ m.term \in Nat /\ m.lastIndex \in Nat
  BY DEF TypeOK, SnapshotReplies
<1>2. snapshotReplies' \subseteq SnapshotReplies
  BY DEF TypeOK, HandleSnapshotReply
<1>3. UNCHANGED logVars
  BY DEF HandleSnapshotReply
<1>4. UNCHANGED <<logs, lastSnapshotIndex, lastSnapshotTerm, commitIndex, appliedIndex,
                  round, appendNum, voteNum, boot, fault, voteRequests, voteReplies,
                  appendRequests, appendReplies, snapshotThreads, snapshotRequests,
                  ballots, counted, leaders>>
  BY DEF HandleSnapshotReply, logVars, progressVars, voteCalls, appendCalls, history
<1>5. CASE StepDown(i, m.term) /\ UNCHANGED <<nextIndex, matchIndex>>
  BY <1>1, <1>2, <1>3, <1>4, <1>5, StepDownTypes DEF TypeOK
<1>6. CASE /\ matchIndex' = [matchIndex EXCEPT ![i][m.src] = m.lastIndex]
           /\ nextIndex' = [nextIndex EXCEPT ![i][m.src] = m.lastIndex + 1]
           /\ UNCHANGED <<electionVars, disk>>
  <2>1. matchIndex[i] \in [Server -> Nat] /\ nextIndex[i] \in [Server -> Nat]
    BY <1>1 DEF TypeOK
  <2>2. [matchIndex[i] EXCEPT ![m.src] = m.lastIndex] \in [Server -> Nat]
    BY <1>1, <2>1
  <2>3. [nextIndex[i] EXCEPT ![m.src] = m.lastIndex + 1] \in [Server -> Nat]
    BY <1>1, <2>1
  <2>4. matchIndex' = [matchIndex EXCEPT ![i] = [matchIndex[i] EXCEPT ![m.src] = m.lastIndex]]
    BY <1>6
  <2>5. nextIndex' = [nextIndex EXCEPT ![i] = [nextIndex[i] EXCEPT ![m.src] = m.lastIndex + 1]]
    BY <1>6
  <2>6. matchIndex' \in [Server -> [Server -> Nat]] /\ nextIndex' \in [Server -> [Server -> Nat]]
    BY <2>2, <2>3, <2>4, <2>5 DEF TypeOK
  <2> QED
    BY <1>2, <1>4, <1>6, <2>6 DEF TypeOK, electionVars
<1>7. CASE UNCHANGED <<electionVars, nextIndex, matchIndex, disk>>
  BY <1>2, <1>4, <1>7 DEF TypeOK, electionVars
<1> QED
  BY <1>5, <1>6, <1>7 DEF HandleSnapshotReply

LEMMA RestartTypes ==
  ASSUME TypeOK, NEW i \in Server, Restart(i)
  PROVE  TypeOK'
<1>1. /\ Load(Nil).term = 0 /\ Load(Nil).vote4 = Nil /\ Load(Nil).logs = <<>>
      /\ Load(Nil).lastSnapshotIndex = 0 /\ Load(Nil).lastSnapshotTerm = 0
  BY DEF Load, Blank
<1>2. <<>> \in Seq(Entries)
  BY EmptySeq
<1>3. /\ term' \in [Server -> Nat]
      /\ vote4' \in [Server -> Server \cup {Nil}]
      /\ identity' \in [Server -> {"follower", "candidate", "leader"}]
      /\ logs' \in [Server -> Seq(Entries)]
      /\ lastSnapshotIndex' \in [Server -> Nat]
      /\ lastSnapshotTerm' \in [Server -> Nat]
  <2>1. /\ term' = [term EXCEPT ![i] = 0] /\ vote4' = [vote4 EXCEPT ![i] = Nil]
        /\ logs' = [logs EXCEPT ![i] = <<>>]
        /\ lastSnapshotIndex' = [lastSnapshotIndex EXCEPT ![i] = 0]
        /\ lastSnapshotTerm' = [lastSnapshotTerm EXCEPT ![i] = 0]
        /\ identity' = [identity EXCEPT ![i] = "follower"]
    BY <1>1 DEF Restart
  <2> QED
    BY <1>2, <2>1 DEF TypeOK
<1>4. /\ commitIndex' \in [Server -> Nat]
      /\ appliedIndex' \in [Server -> Nat]
      /\ voteNum' \in [Server -> Nat]
      /\ boot' \in [Server -> Nat]
      /\ round' \in [Server -> 0..MaxRounds]
      /\ disk' \in [Server -> StateFiles \cup {Nil}]
      /\ counted' \in [Server -> SUBSET Server]
      /\ fault' \in [Server -> Faults]
  <2>1. 0 \in 0..MaxRounds /\ "none" \in Faults
    BY BoundsAssumption DEF Faults
  <2>2. boot[i] + 1 \in Nat
    BY DEF TypeOK
  <2>3. /\ commitIndex' = [commitIndex EXCEPT ![i] = 0]
        /\ appliedIndex' = [appliedIndex EXCEPT ![i] = 0]
        /\ voteNum' = [voteNum EXCEPT ![i] = 0]
        /\ boot' = [boot EXCEPT ![i] = boot[i] + 1]
        /\ round' = [round EXCEPT ![i] = 0]
        /\ disk' = [disk EXCEPT ![i] = Nil]
        /\ counted' = [counted EXCEPT ![i] = {}]
        /\ fault' = [fault EXCEPT ![i] = "none"]
    BY <1>1 DEF Restart
  <2> QED
    BY <2>1, <2>2, <2>3 DEF TypeOK
<1>5. /\ nextIndex' \in [Server -> [Server -> Nat]]
      /\ matchIndex' \in [Server -> [Server -> Nat]]
      /\ appendNum' \in [Server -> [1..MaxRounds -> Nat]]
  <2>1. /\ [j \in Server |-> 0] \in [Server -> Nat]
        /\ [r \in 1..MaxRounds |-> 0] \in [1..MaxRounds -> Nat]
    OBVIOUS
  <2>2. nextIndex' \in [Server -> [Server -> Nat]]
    BY <2>1 DEF TypeOK, Restart
  <2>3. matchIndex' \in [Server -> [Server -> Nat]]
    BY <2>1 DEF TypeOK, Restart
  <2>4. appendNum' \in [Server -> [1..MaxRounds -> Nat]]
    BY <2>1 DEF TypeOK, Restart
  <2> QED
    BY <2>2, <2>3, <2>4
<1>6. /\ voteRequests' \subseteq voteRequests /\ voteReplies' \subseteq voteReplies
      /\ appendRequests' \subseteq appendRequests /\ appendReplies' \subseteq appendReplies
      /\ snapshotThreads' \subseteq snapshotThreads
      /\ snapshotRequests' \subseteq snapshotRequests
  BY DEF Restart
<1>7. snapshotReplies' \subseteq SnapshotReplies
  <2>1. \A m \in snapshotRequests : m.dst = i => SnapshotReply(i, m, 0) \in SnapshotReplies
    BY SnapshotReplyType
  <2>2. snapshotReplies' \subseteq snapshotReplies \cup
          {SnapshotReply(i, m, 0) : m \in {q \in snapshotRequests : q.dst = i}}
    BY DEF Restart
  <2> QED
    BY <2>1, <2>2 DEF TypeOK
<1>8. UNCHANGED <<ballots, leaders>>
  BY DEF Restart
<1> QED
  BY <1>3, <1>4, <1>5, <1>6, <1>7, <1>8 DEF TypeOK

LEMMA InitTypes == Init => TypeOK
<1> SUFFICES ASSUME Init PROVE TypeOK
  OBVIOUS
<1>1. <<>> \in Seq(Entries) /\ 0 \in 0..MaxRounds /\ "none" \in Faults
  BY EmptySeq, BoundsAssumption DEF Faults
<1>2. /\ [j \in Server |-> 0] \in [Server -> Nat]
      /\ [r \in 1..MaxRounds |-> 0] \in [1..MaxRounds -> Nat]
  OBVIOUS
<1>3. /\ nextIndex \in [Server -> [Server -> Nat]]
      /\ matchIndex \in [Server -> [Server -> Nat]]
      /\ appendNum \in [Server -> [1..MaxRounds -> Nat]]
  BY <1>2 DEF Init
<1> QED
  BY <1>1, <1>3 DEF Init, TypeOK

\* Every step of CrashSpec keeps the types.  IndexOrder is needed where the
\* key-value layer persists: an index it was handed lies in the log.
LEMMA TypesKept ==
  ASSUME TypeOK, IndexOrder, [CrashStep]_vars
  PROVE  TypeOK'
<1>1. CASE UNCHANGED vars
  BY <1>1 DEF TypeOK, vars, electionVars, logVars, progressVars, leaderVars, voteCalls,
     appendCalls, snapshotCalls, history
<1>2. CASE \E i \in Server : Stand4Election(i)
  BY <1>2, ElectionTypes
<1>3. CASE \E i \in Server : Heartbeat(i)
  BY <1>3, HeartbeatTypes
<1>4. CASE \E i \in Server : ApplierTick(i)
  BY <1>4, ApplierTypes
<1>5. CASE \E i \in Server : \E c \in Command : Execute(i, c)
  BY <1>5, ExecuteTypes
<1>6. CASE \E i \in Server : \E index \in 1..MaxIndex : PersistSnapshot(i, index)
  BY <1>6, PersistSnapshotTypes
<1>7. CASE \E m \in voteRequests : HandleVoteRequest(m.dst, m)
  BY <1>7, VoteRequestTypes
<1>8. CASE \E m \in voteReplies : HandleVoteReply(m.dst, m)
  BY <1>8, VoteReplyTypes
<1>9. CASE \E m \in appendRequests : HandleAppendEntries(m.dst, m)
  BY <1>9, AppendEntriesTypes
<1>10. CASE \E m \in appendReplies : HandleAppendReply(m.dst, m)
  BY <1>10, AppendReplyTypes
<1>11. CASE \E th \in snapshotThreads : SendSnapshot(th.src, th)
  BY <1>11, SendSnapshotTypes
<1>12. CASE \E m \in snapshotRequests : HandleInstallSnapshot(m.dst, m)
  BY <1>12, InstallSnapshotTypes
<1>13. CASE \E m \in snapshotReplies : HandleSnapshotReply(m.dst, m)
  BY <1>13, SnapshotReplyTypes
<1>14. CASE \E i \in Server : Restart(i)
  BY <1>14, RestartTypes
<1> QED
  BY <1>1, <1>2, <1>3, <1>4, <1>5, <1>6, <1>7, <1>8, <1>9, <1>10, <1>11, <1>12, <1>13,
     <1>14 DEF CrashStep, Step

-----------------------------------------------------------------------------
(* Indexes. *)

\* Where logs only grow, what was within them stays so; what is new is checked.
LEMMA CallsKept ==
  ASSUME TypeOK, TypeOK', IndexInv, boot' = boot,
         \A j \in Server : LastLogIndex(j) <= LastLogIndex(j)',
         \A i, j \in Server : \/ matchIndex'[i][j] <= LastLogIndex(i)'
                              \/ matchIndex'[i][j] = matchIndex[i][j],
         \A m \in appendRequests' \ appendRequests :
           m.boot <= boot[m.src] /\ m.prevIndex + Len(m.entries) <= LastLogIndex(m.src)',
         \A m \in appendReplies' \ appendReplies :
           /\ m.boot <= boot[m.dst]
           /\ m.boot = boot[m.dst] => m.lastIndex <= LastLogIndex(m.dst)',
         \A m \in snapshotRequests' \ snapshotRequests :
           m.boot <= boot[m.src] /\ m.lastIndex <= LastLogIndex(m.src)',
         \A m \in snapshotReplies' \ snapshotReplies :
           /\ m.boot <= boot[m.dst]
           /\ m.boot = boot[m.dst] => m.lastIndex <= LastLogIndex(m.dst)'
  PROVE  MatchWithinLog' /\ AppendCallsWithinLog' /\ SnapshotCallsWithinLog'
<1>1. \A j \in Server : LastLogIndex(j) \in Nat
  BY LogTypes DEF TypeOK
<1>2. \A j \in Server : LastLogIndex(j)' \in Nat
  <2>1. \A j \in Server : logs'[j] \in Seq(Entries) /\ lastSnapshotIndex'[j] \in Nat
    BY DEF TypeOK
  <2>2. \A j \in Server : Len(logs'[j]) \in Nat
    BY <2>1, LenProperties
  <2> QED
    BY <2>1, <2>2 DEF LastLogIndex
<1>3. MatchWithinLog'
  <2> SUFFICES ASSUME NEW i \in Server, NEW j \in Server
               PROVE  matchIndex'[i][j] <= LastLogIndex(i)'
    BY DEF MatchWithinLog
  <2>1. CASE matchIndex'[i][j] = matchIndex[i][j]
    <3>1. matchIndex[i][j] \in Nat
      BY DEF TypeOK
    <3>2. matchIndex[i][j] <= LastLogIndex(i)
      BY DEF IndexInv, MatchWithinLog
    <3> QED
      BY <1>1, <1>2, <2>1, <3>1, <3>2
  <2> QED
    BY <2>1
<1>4. AppendCallsWithinLog'
  <2>1. ASSUME NEW m \in appendRequests'
        PROVE  /\ m.boot <= boot'[m.src]
               /\ m.boot = boot'[m.src] => m.prevIndex + Len(m.entries) <= LastLogIndex(m.src)'
    <3>1. m.src \in Server /\ m.prevIndex \in Nat /\ Len(m.entries) \in Nat
      <4>1. m.src \in Server /\ m.prevIndex \in Nat /\ m.entries \in Seq(Entries)
        BY DEF TypeOK, AppendRequests
      <4> QED
        BY <4>1, LenProperties
    <3>2. CASE m \in appendRequests
      <4>1. /\ m.boot <= boot[m.src]
            /\ m.boot = boot[m.src] => m.prevIndex + Len(m.entries) <= LastLogIndex(m.src)
        BY <3>2 DEF IndexInv, AppendCallsWithinLog, SentBy
      <4> QED
        BY <1>1, <1>2, <3>1, <4>1
    <3> QED
      BY <3>2
  <2>2. ASSUME NEW m \in appendReplies'
        PROVE  /\ m.boot <= boot'[m.dst]
               /\ m.boot = boot'[m.dst] => m.lastIndex <= LastLogIndex(m.dst)'
    <3>1. m.dst \in Server /\ m.lastIndex \in Nat
      BY DEF TypeOK, AppendReplies
    <3>2. CASE m \in appendReplies
      <4>1. /\ m.boot <= boot[m.dst]
            /\ m.boot = boot[m.dst] => m.lastIndex <= LastLogIndex(m.dst)
        BY <3>2 DEF IndexInv, AppendCallsWithinLog, SentBy
      <4> QED
        BY <1>1, <1>2, <3>1, <4>1
    <3> QED
      BY <3>2
  <2> QED
    BY <2>1, <2>2 DEF AppendCallsWithinLog, SentBy
<1>5. SnapshotCallsWithinLog'
  <2>1. ASSUME NEW m \in snapshotRequests'
        PROVE  /\ m.boot <= boot'[m.src]
               /\ m.boot = boot'[m.src] => m.lastIndex <= LastLogIndex(m.src)'
    <3>1. m.src \in Server /\ m.lastIndex \in Nat
      BY DEF TypeOK, SnapshotRequests
    <3>2. CASE m \in snapshotRequests
      <4>1. /\ m.boot <= boot[m.src]
            /\ m.boot = boot[m.src] => m.lastIndex <= LastLogIndex(m.src)
        BY <3>2 DEF IndexInv, SnapshotCallsWithinLog, SentBy
      <4> QED
        BY <1>1, <1>2, <3>1, <4>1
    <3> QED
      BY <3>2
  <2>2. ASSUME NEW m \in snapshotReplies'
        PROVE  /\ m.boot <= boot'[m.dst]
               /\ m.boot = boot'[m.dst] => m.lastIndex <= LastLogIndex(m.dst)'
    <3>1. m.dst \in Server /\ m.lastIndex \in Nat
      BY DEF TypeOK, SnapshotReplies
    <3>2. CASE m \in snapshotReplies
      <4>1. /\ m.boot <= boot[m.dst]
            /\ m.boot = boot[m.dst] => m.lastIndex <= LastLogIndex(m.dst)
        BY <3>2 DEF IndexInv, SnapshotCallsWithinLog, SentBy
      <4> QED
        BY <1>1, <1>2, <3>1, <4>1
    <3> QED
      BY <3>2
  <2> QED
    BY <2>1, <2>2 DEF SnapshotCallsWithinLog, SentBy
<1> QED
  BY <1>3, <1>4, <1>5

\* A step that leaves the indexes and the calls that carry them alone, or only
\* consumes calls, keeps IndexInv.
LEMMA IndexFrame ==
  ASSUME TypeOK, TypeOK', IndexInv,
         UNCHANGED <<logVars, progressVars, matchIndex, boot, fault>>,
         appendRequests' \subseteq appendRequests, appendReplies' \subseteq appendReplies,
         snapshotRequests' \subseteq snapshotRequests, snapshotReplies' \subseteq snapshotReplies
  PROVE  IndexInv'
<1>1. \A j \in Server : LastLogIndex(j)' = LastLogIndex(j)
  BY DEF LastLogIndex, logVars
<1>2. \A j \in Server : LastLogIndex(j) \in Nat
  BY LogTypes DEF TypeOK
<1>3. \A j \in Server : LastLogIndex(j) <= LastLogIndex(j)'
  BY <1>1, <1>2
<1>4. MatchWithinLog' /\ AppendCallsWithinLog' /\ SnapshotCallsWithinLog'
  BY <1>3, CallsKept
<1>5. IndexOrder'
  BY <1>1 DEF IndexInv, IndexOrder, logVars, progressVars
<1>6. NoIndexThrow'
  BY DEF IndexInv, NoIndexThrow
<1> QED
  BY <1>4, <1>5, <1>6 DEF IndexInv

\* A step of one node leaves the order of the indexes of the others alone.
LEMMA OrderOfOthers ==
  ASSUME IndexOrder, NEW i \in Server,
         \A j \in Server \ {i} : /\ lastSnapshotIndex'[j] = lastSnapshotIndex[j]
                                 /\ appliedIndex'[j] = appliedIndex[j]
                                 /\ commitIndex'[j] = commitIndex[j]
                                 /\ LastLogIndex(j)' = LastLogIndex(j),
         lastSnapshotIndex'[i] <= appliedIndex'[i],
         appliedIndex'[i] <= commitIndex'[i],
         commitIndex'[i] <= LastLogIndex(i)'
  PROVE  IndexOrder'
BY DEF IndexOrder

\* The indexes of one node, in order and typed.
LEMMA IndexTypes ==
  ASSUME TypeOK, IndexOrder, NEW i \in Server
  PROVE  /\ lastSnapshotIndex[i] \in Nat /\ appliedIndex[i] \in Nat
         /\ commitIndex[i] \in Nat /\ LastLogIndex(i) \in Nat
         /\ lastSnapshotIndex[i] <= appliedIndex[i] /\ appliedIndex[i] <= commitIndex[i]
         /\ commitIndex[i] <= LastLogIndex(i)
BY LogTypes DEF TypeOK, IndexOrder

\* A new leader believes of each peer that it holds nothing, of itself what it holds.
LEMMA VoteReplyIndexes ==
  ASSUME TypeOK, TypeOK', IndexInv, NEW m \in voteReplies, HandleVoteReply(m.dst, m)
  PROVE  IndexInv'
<1> DEFINE i == m.dst
<1>1. i \in Server
  BY DEF TypeOK, VoteReplies
<1>2. UNCHANGED <<logVars, progressVars, boot, fault, appendCalls, snapshotCalls>>
  BY DEF HandleVoteReply
<1>3. \A j \in Server : LastLogIndex(j)' = LastLogIndex(j)
  BY <1>2 DEF LastLogIndex, logVars
<1>4. \A j \in Server : LastLogIndex(j) \in Nat
  BY LogTypes DEF TypeOK
<1>5. UNCHANGED matchIndex \/ TakeOffice(i)
  BY DEF HandleVoteReply, CountVote, leaderVars
<1>6. \A j, k \in Server : \/ matchIndex'[j][k] <= LastLogIndex(j)'
                           \/ matchIndex'[j][k] = matchIndex[j][k]
  <2>1. CASE UNCHANGED matchIndex
    BY <2>1
  <2>2. CASE TakeOffice(i)
    <3> SUFFICES ASSUME NEW j \in Server, NEW k \in Server
                 PROVE  \/ matchIndex'[j][k] <= LastLogIndex(j)'
                        \/ matchIndex'[j][k] = matchIndex[j][k]
      OBVIOUS
    <3>1. CASE j = i
      <4>1. matchIndex'[i][k] = IF k = i THEN LastLogIndex(i) ELSE 0
        BY <1>1, <2>2 DEF TakeOffice, TypeOK
      <4> QED
        BY <1>1, <1>3, <1>4, <3>1, <4>1
    <3>2. CASE j # i
      <4>1. matchIndex'[j] = matchIndex[j]
        BY <1>1, <2>2, <3>2 DEF TakeOffice, TypeOK
      <4> QED
        BY <4>1
    <3> QED
      BY <3>1, <3>2
  <2> QED
    BY <1>5, <2>1, <2>2
<1>7. \A j \in Server : LastLogIndex(j) <= LastLogIndex(j)'
  BY <1>3, <1>4
<1>8. MatchWithinLog' /\ AppendCallsWithinLog' /\ SnapshotCallsWithinLog'
  <2>1. UNCHANGED <<boot, appendRequests, appendReplies, snapshotRequests, snapshotReplies>>
    BY <1>2 DEF appendCalls, snapshotCalls
  <2> QED
    BY <1>6, <1>7, <2>1, CallsKept
<1>9. IndexOrder' /\ NoIndexThrow'
  BY <1>2, <1>3 DEF IndexInv, IndexOrder, NoIndexThrow, logVars, progressVars
<1> QED
  BY <1>8, <1>9 DEF IndexInv

LEMMA ExecuteIndexes ==
  ASSUME TypeOK, TypeOK', IndexInv, NEW i \in Server, NEW c \in Command, Execute(i, c)
  PROVE  IndexInv'
<1> DEFINE entry == [term |-> term[i], command |-> c]
<1>1. UNCHANGED <<lastSnapshotIndex, progressVars, matchIndex, boot, fault, appendRequests,
                  appendReplies, snapshotRequests, snapshotReplies>>
  BY DEF Execute, leaderVars, appendCalls, snapshotCalls
<1>2. \A j \in Server : LastLogIndex(j) \in Nat
  BY LogTypes DEF TypeOK
<1>3. LastLogIndex(i)' = LastLogIndex(i) + 1
  <2>1. entry \in Entries /\ logs[i] \in Seq(Entries) /\ lastSnapshotIndex[i] \in Nat
    BY DEF TypeOK, Entries
  <2>2. logs'[i] = Append(logs[i], entry)
    BY DEF TypeOK, Execute
  <2>3. Len(Append(logs[i], entry)) = Len(logs[i]) + 1 /\ Len(logs[i]) \in Nat
    BY <2>1, AppendProperties, LenProperties
  <2> QED
    BY <1>1, <2>1, <2>2, <2>3 DEF LastLogIndex
<1>4. \A j \in Server \ {i} : LastLogIndex(j)' = LastLogIndex(j)
  BY <1>1 DEF LastLogIndex, Execute, TypeOK
<1>5. \A j \in Server : LastLogIndex(j) <= LastLogIndex(j)'
  BY <1>2, <1>3, <1>4
<1>6. MatchWithinLog' /\ AppendCallsWithinLog' /\ SnapshotCallsWithinLog'
  BY <1>1, <1>5, CallsKept
<1>7. IndexOrder'
  <2>1. UNCHANGED <<lastSnapshotIndex, appliedIndex, commitIndex>>
    BY <1>1 DEF progressVars
  <2>2. /\ lastSnapshotIndex[i] <= appliedIndex[i] /\ appliedIndex[i] <= commitIndex[i]
        /\ commitIndex[i] <= LastLogIndex(i) + 1
    BY IndexTypes DEF IndexInv
  <2> QED
    BY <1>3, <1>4, <2>1, <2>2, OrderOfOthers DEF IndexInv
<1>8. NoIndexThrow'
  BY <1>1 DEF IndexInv, NoIndexThrow
<1> QED
  BY <1>6, <1>7, <1>8 DEF IndexInv

\* A heartbeat sends what the log of the leader holds.
LEMMA HeartbeatIndexes ==
  ASSUME TypeOK, TypeOK', IndexInv, NEW i \in Server, Heartbeat(i)
  PROVE  IndexInv'
<1>1. UNCHANGED <<logVars, progressVars, matchIndex, boot, appendReplies,
                  snapshotRequests, snapshotReplies>>
  BY DEF Heartbeat
<1>2. \A j \in Server : LastLogIndex(j)' = LastLogIndex(j)
  BY <1>1 DEF LastLogIndex, logVars
<1>3. \A j \in Server : LastLogIndex(j) \in Nat /\ boot[j] \in Nat
  BY LogTypes DEF TypeOK
<1>4. \A m \in appendRequests' \ appendRequests :
        m.boot <= boot[m.src] /\ m.prevIndex + Len(m.entries) <= LastLogIndex(m.src)'
  <2> SUFFICES ASSUME NEW m \in appendRequests' \ appendRequests
               PROVE  /\ m.boot <= boot[m.src]
                      /\ m.prevIndex + Len(m.entries) <= LastLogIndex(m.src)'
    OBVIOUS
  <2>1. PICK j \in Server, r \in 1..MaxRounds :
          /\ nextIndex[i][j] > lastSnapshotIndex[i]
          /\ nextIndex[i][j] <= LastLogIndex(i) + 1
          /\ m = AppendRequest(i, j, r)
    BY HeartbeatCalls
  <2>2. m.prevIndex + Len(m.entries) = LastLogIndex(i)
    BY <2>1, AppendRequestType
  <2>3. m.src = i /\ m.boot = boot[i]
    BY <2>1 DEF AppendRequest
  <2> QED
    BY <1>2, <1>3, <2>2, <2>3
<1>5. MatchWithinLog' /\ AppendCallsWithinLog' /\ SnapshotCallsWithinLog'
  <2>1. \A j \in Server : LastLogIndex(j) <= LastLogIndex(j)'
    BY <1>2, <1>3
  <2> QED
    BY <1>1, <1>4, <2>1, CallsKept
<1>6. IndexOrder'
  BY <1>1, <1>2 DEF IndexInv, IndexOrder, logVars, progressVars
<1>7. NoIndexThrow'
  <2>1. PICK f \in {fault[i], "out of range"} : fault' = [fault EXCEPT ![i] = f]
    BY DEF Heartbeat
  <2> QED
    BY <2>1 DEF IndexInv, NoIndexThrow, TypeOK
<1> QED
  BY <1>5, <1>6, <1>7 DEF IndexInv

\* A follower acknowledges what its sender's log holds, and commits within its own.
LEMMA AppendEntriesIndexes ==
  ASSUME TypeOK, TypeOK', IndexInv, NEW m \in appendRequests, HandleAppendEntries(m.dst, m)
  PROVE  IndexInv'
<1> DEFINE i == m.dst
<1>1. /\ i \in Server /\ m.src \in Server /\ m.leaderCommit \in Nat
      /\ m.prevIndex \in Nat /\ Len(m.entries) \in Nat
  <2>1. /\ i \in Server /\ m.src \in Server /\ m.leaderCommit \in Nat
        /\ m.prevIndex \in Nat /\ m.entries \in Seq(Entries)
    BY DEF TypeOK, AppendRequests
  <2> QED
    BY <2>1, LenProperties
<1>2. /\ UNCHANGED <<lastSnapshotIndex, appliedIndex, matchIndex, boot,
                     snapshotRequests, snapshotReplies>>
      /\ appendRequests' \subseteq appendRequests
  BY DEF HandleAppendEntries, leaderVars, snapshotCalls
<1>3. \A j \in Server : LastLogIndex(j) \in Nat
  BY LogTypes DEF TypeOK
<1>4. /\ \A j \in Server \ {i} : LastLogIndex(j)' = LastLogIndex(j) /\ commitIndex'[j] = commitIndex[j]
      /\ LastLogIndex(i) <= LastLogIndex(i)'
      /\ appliedIndex[i] <= commitIndex'[i] /\ commitIndex'[i] <= LastLogIndex(i)'
      /\ NoIndexThrow'
  <2>1. CASE UNCHANGED <<logs, commitIndex, fault>>
    <3>1. \A j \in Server : LastLogIndex(j)' = LastLogIndex(j)
      BY <1>2, <2>1 DEF LastLogIndex
    <3>2. appliedIndex[i] <= commitIndex[i] /\ commitIndex[i] <= LastLogIndex(i)
      BY <1>1, IndexTypes DEF IndexInv
    <3>3. NoIndexThrow'
      BY <2>1 DEF IndexInv, NoIndexThrow
    <3> QED
      BY <1>1, <1>3, <2>1, <3>1, <3>2, <3>3
  <2>2. CASE Accepts(i, m) /\ Accept(i, m)
    <3>1. logs' = [logs EXCEPT ![i] = Merged(i, m.prevIndex, m.entries)]
      BY <2>2 DEF Accept
    <3>2. \A j \in Server \ {i} : LastLogIndex(j)' = LastLogIndex(j)
      BY <1>2, <3>1 DEF LastLogIndex, TypeOK
    <3>3. LastLogIndex(i)' = Larger(LastLogIndex(i), m.prevIndex + Len(m.entries))
      BY <1>2, <2>2, AcceptTypes DEF LastLogIndex
    <3>4. LastLogIndex(i)' \in Nat /\ LastLogIndex(i) <= LastLogIndex(i)'
      BY <1>1, <1>3, <3>3 DEF Larger
    <3> DEFINE n == IF m.leaderCommit > commitIndex[i]
                      THEN Smaller(m.leaderCommit, lastSnapshotIndex[i] + Len(logs'[i]))
                      ELSE commitIndex[i]
    <3>5. commitIndex' = [commitIndex EXCEPT ![i] = n]
      BY <2>2 DEF Accept
    <3>5a. lastSnapshotIndex[i] + Len(logs'[i]) = LastLogIndex(i)'
      BY <1>2 DEF LastLogIndex
    <3>6. /\ appliedIndex[i] \in Nat /\ commitIndex[i] \in Nat
          /\ appliedIndex[i] <= commitIndex[i] /\ commitIndex[i] <= LastLogIndex(i)
      BY <1>1, IndexTypes DEF IndexInv
    <3>7. appliedIndex[i] <= n /\ n <= LastLogIndex(i)'
      BY <1>1, <1>3, <3>4, <3>5a, <3>6 DEF Smaller
    <3> HIDE DEF n
    <3>8. /\ commitIndex'[i] = n
          /\ \A j \in Server \ {i} : commitIndex'[j] = commitIndex[j]
      BY <1>1, <3>5 DEF TypeOK
    <3>9. NoIndexThrow'
      <4>1. PICK f \in {fault[i], "command conflict"} : fault' = [fault EXCEPT ![i] = f]
        BY <2>2 DEF Accept
      <4> QED
        BY <4>1 DEF IndexInv, NoIndexThrow, TypeOK
    <3> QED
      BY <3>2, <3>4, <3>7, <3>8, <3>9
  <2> QED
    BY <2>1, <2>2 DEF HandleAppendEntries
<1>5. \A j \in Server : LastLogIndex(j) <= LastLogIndex(j)'
  BY <1>3, <1>4
<1>6. \A q \in appendReplies' \ appendReplies :
        /\ q.boot <= boot[q.dst]
        /\ q.boot = boot[q.dst] => q.lastIndex <= LastLogIndex(q.dst)'
  <2> SUFFICES ASSUME NEW q \in appendReplies' \ appendReplies
               PROVE  /\ q.boot <= boot[q.dst]
                      /\ q.boot = boot[q.dst] => q.lastIndex <= LastLogIndex(q.dst)'
    OBVIOUS
  <2>1. \E success \in BOOLEAN : \E next : q = AppendReply(i, m, success, next)
    BY DEF HandleAppendEntries
  <2>2. q.dst = m.src /\ q.boot = m.boot /\ q.lastIndex = m.prevIndex + Len(m.entries)
    BY <2>1 DEF AppendReply
  <2>3. /\ m.boot <= boot[m.src]
        /\ m.boot = boot[m.src] => m.prevIndex + Len(m.entries) <= LastLogIndex(m.src)
    BY DEF IndexInv, AppendCallsWithinLog, SentBy
  <2>4. LastLogIndex(m.src)' \in Nat
    <3>1. logs'[m.src] \in Seq(Entries) /\ lastSnapshotIndex'[m.src] \in Nat
      BY <1>1 DEF TypeOK
    <3> QED
      BY <3>1, LenProperties DEF LastLogIndex
  <2>5. LastLogIndex(m.src) \in Nat /\ LastLogIndex(m.src) <= LastLogIndex(m.src)'
    BY <1>1, <1>3, <1>5
  <2>6. m.prevIndex + Len(m.entries) \in Nat
    BY <1>1
  <2> QED
    BY <2>2, <2>3, <2>4, <2>5, <2>6
<1>7. MatchWithinLog' /\ AppendCallsWithinLog' /\ SnapshotCallsWithinLog'
  BY <1>2, <1>5, <1>6, CallsKept
<1>8. IndexOrder'
  <2>1. lastSnapshotIndex'[i] <= appliedIndex'[i]
    BY <1>1, <1>2, IndexTypes DEF IndexInv
  <2>2. IndexOrder
    BY DEF IndexInv
  <2> QED
    BY <1>1, <1>2, <1>4, <2>1, <2>2, OrderOfOthers
<1> QED
  BY <1>4, <1>7, <1>8 DEF IndexInv

\* What a living thread acknowledges lies in the leader's log, so neither check of
\* _L_sendAppendEntries throws.
LEMMA AppendReplyIndexes ==
  ASSUME TypeOK, TypeOK', IndexInv, NEW m \in appendReplies, HandleAppendReply(m.dst, m)
  PROVE  IndexInv'
<1> DEFINE i == m.dst
<1>1. i \in Server /\ m.src \in Server /\ m.lastIndex \in Nat
  BY DEF TypeOK, AppendReplies
<1>2. /\ UNCHANGED <<logVars, appliedIndex, boot, appendRequests, snapshotRequests,
                     snapshotReplies>>
      /\ appendReplies' \subseteq appendReplies
  BY DEF HandleAppendReply, snapshotCalls
<1>3. CASE UNCHANGED <<matchIndex, commitIndex, fault>>
  BY <1>2, <1>3, IndexFrame DEF progressVars
<1>4. CASE CountAppend(i, m)
  <2> DEFINE match == Larger(matchIndex[i][m.src], m.lastIndex)
             majority == appendNum[i][m.round] + 1 >= Majority
             commit == IF majority /\ m.newestTerm = term[i]
                         THEN Larger(commitIndex[i], m.lastIndex) ELSE commitIndex[i]
  <2>1. \A j \in Server : LastLogIndex(j)' = LastLogIndex(j) /\ LastLogIndex(j) \in Nat
    BY <1>2, LogTypes DEF LastLogIndex, logVars, TypeOK
  <2>2. m.lastIndex <= LastLogIndex(i)
    <3>1. m.boot = boot[i]
      BY DEF HandleAppendReply
    <3> QED
      BY <3>1 DEF IndexInv, AppendCallsWithinLog
  <2>3. match <= LastLogIndex(i) /\ match \in Nat
    <3>1. matchIndex[i][m.src] <= LastLogIndex(i)
      BY <1>1 DEF IndexInv, MatchWithinLog
    <3>2. matchIndex[i] \in [Server -> Nat]
      BY <1>1 DEF TypeOK
    <3>3. matchIndex[i][m.src] \in Nat
      BY <1>1, <3>2
    <3> QED
      BY <1>1, <2>2, <3>1, <3>3 DEF Larger
  <2>4. /\ lastSnapshotIndex[i] <= appliedIndex[i] /\ appliedIndex[i] <= commitIndex[i]
        /\ commitIndex[i] <= LastLogIndex(i)
        /\ appliedIndex[i] \in Nat /\ commitIndex[i] \in Nat
    BY <1>1, IndexTypes DEF IndexInv
  <2>5. commit \in Nat /\ appliedIndex[i] <= commit /\ commit <= LastLogIndex(i)
    BY <1>1, <2>1, <2>2, <2>4 DEF Larger
  <2>6. fault' = [fault EXCEPT ![i] =
                    CASE match > LastLogIndex(i) -> "next index beyond log"
                      [] commit > LastLogIndex(i) -> "commit beyond log"
                      [] OTHER -> fault[i]]
    BY <1>4 DEF CountAppend
  <2>7. /\ commitIndex' = [commitIndex EXCEPT ![i] = commit]
        /\ matchIndex' = [matchIndex EXCEPT ![i] = [matchIndex[i] EXCEPT ![m.src] = match]]
    BY <1>4 DEF CountAppend
  <2> HIDE DEF match, commit
  <2>8. NoIndexThrow'
    <3>1. ~(match > LastLogIndex(i)) /\ ~(commit > LastLogIndex(i))
      BY <1>1, <2>1, <2>3, <2>5
    <3>2. fault'[i] = fault[i]
      BY <1>1, <2>6, <3>1 DEF TypeOK
    <3>3. \A j \in Server : j # i => fault'[j] = fault[j]
      BY <2>6 DEF TypeOK
    <3> QED
      BY <3>2, <3>3 DEF IndexInv, NoIndexThrow
  <2>9. \A j, k \in Server : \/ matchIndex'[j][k] <= LastLogIndex(j)'
                             \/ matchIndex'[j][k] = matchIndex[j][k]
    <3> SUFFICES ASSUME NEW j \in Server, NEW k \in Server
                 PROVE  \/ matchIndex'[j][k] <= LastLogIndex(j)'
                        \/ matchIndex'[j][k] = matchIndex[j][k]
      OBVIOUS
    <3>1. CASE j # i
      <4>1. matchIndex'[j] = matchIndex[j]
        BY <1>1, <2>7, <3>1 DEF TypeOK
      <4> QED
        BY <4>1
    <3>2. CASE j = i
      <4>1. matchIndex[i] \in [Server -> Nat] /\ DOMAIN matchIndex = Server
        BY <1>1 DEF TypeOK
      <4>2. matchIndex'[i] = [matchIndex[i] EXCEPT ![m.src] = match]
        BY <1>1, <2>7, <4>1
      <4>3. CASE k = m.src
        BY <1>1, <2>1, <2>3, <3>2, <4>1, <4>2, <4>3
      <4>4. CASE k # m.src
        BY <3>2, <4>1, <4>2, <4>4
      <4> QED
        BY <4>3, <4>4
    <3> QED
      BY <3>1, <3>2
  <2>10. MatchWithinLog' /\ AppendCallsWithinLog' /\ SnapshotCallsWithinLog'
    <3>1. \A j \in Server : LastLogIndex(j) <= LastLogIndex(j)'
      BY <2>1
    <3> QED
      BY <1>2, <2>9, <3>1, CallsKept
  <2>11. IndexOrder'
    <3>1. /\ commitIndex'[i] = commit
          /\ \A j \in Server \ {i} : commitIndex'[j] = commitIndex[j]
      BY <1>1, <2>7 DEF TypeOK
    <3>2. IndexOrder
      BY DEF IndexInv
    <3>3. UNCHANGED <<lastSnapshotIndex, appliedIndex>>
      BY <1>2 DEF logVars
    <3> QED
      BY <1>1, <2>1, <2>4, <2>5, <3>1, <3>2, <3>3, OrderOfOthers
  <2> QED
    BY <2>8, <2>10, <2>11 DEF IndexInv
<1> QED
  BY <1>3, <1>4 DEF HandleAppendReply

\* The applier finds every committed entry in the log, so neither of its checks throws.
LEMMA ApplierIndexes ==
  ASSUME TypeOK, TypeOK', IndexInv, NEW i \in Server, ApplierTick(i)
  PROVE  IndexInv'
<1>1. UNCHANGED <<logVars, commitIndex, matchIndex, boot, appendRequests, appendReplies,
                  snapshotRequests, snapshotReplies>>
  BY DEF ApplierTick, leaderVars, appendCalls, snapshotCalls
<1>2. \A j \in Server : LastLogIndex(j)' = LastLogIndex(j) /\ LastLogIndex(j) \in Nat
  BY <1>1, LogTypes DEF LastLogIndex, logVars, TypeOK
<1>3. /\ lastSnapshotIndex[i] <= appliedIndex[i] /\ appliedIndex[i] <= commitIndex[i]
      /\ commitIndex[i] <= LastLogIndex(i)
      /\ lastSnapshotIndex[i] \in Nat /\ appliedIndex[i] \in Nat /\ commitIndex[i] \in Nat
  BY IndexTypes DEF IndexInv
<1>4. MatchWithinLog' /\ AppendCallsWithinLog' /\ SnapshotCallsWithinLog'
  <2>1. \A j \in Server : LastLogIndex(j) <= LastLogIndex(j)'
    BY <1>2
  <2> QED
    BY <1>1, <2>1, CallsKept
<1>5. IndexOrder'
  <2>1. Larger(appliedIndex[i], commitIndex[i]) = commitIndex[i]
    BY <1>3 DEF Larger
  <2>2. /\ appliedIndex'[i] = commitIndex[i]
        /\ \A j \in Server \ {i} : appliedIndex'[j] = appliedIndex[j]
    BY <2>1 DEF ApplierTick, TypeOK
  <2>3. UNCHANGED <<lastSnapshotIndex, commitIndex>>
    BY <1>1 DEF logVars
  <2>4. lastSnapshotIndex[i] <= commitIndex[i]
    BY <1>3
  <2> QED
    BY <1>2, <1>3, <2>2, <2>3, <2>4, OrderOfOthers DEF IndexInv
<1>6. NoIndexThrow'
  <2>1. ~(commitIndex[i] > LastLogIndex(i)) /\ ~(appliedIndex[i] > commitIndex[i])
    BY <1>2, <1>3
  <2>2. fault'[i] = fault[i]
    BY <2>1 DEF ApplierTick, TypeOK
  <2>3. \A j \in Server \ {i} : fault'[j] = fault[j]
    BY DEF ApplierTick, TypeOK
  <2> QED
    BY <2>2, <2>3 DEF IndexInv, NoIndexThrow
<1> QED
  BY <1>4, <1>5, <1>6 DEF IndexInv

\* Persisting drops entries that are applied; the log ends where it did.
LEMMA PersistSnapshotIndexes ==
  ASSUME TypeOK, TypeOK', IndexInv, NEW i \in Server, NEW index \in 1..MaxIndex,
         PersistSnapshot(i, index)
  PROVE  IndexInv'
<1>1. UNCHANGED <<commitIndex, appliedIndex, matchIndex, boot, fault, appendRequests,
                  appendReplies, snapshotRequests, snapshotReplies>>
  BY DEF PersistSnapshot, progressVars, leaderVars, appendCalls, snapshotCalls
<1>2. /\ index \in Nat /\ lastSnapshotIndex[i] <= index
      /\ index <= appliedIndex[i] /\ index <= LastLogIndex(i)
      /\ appliedIndex[i] <= commitIndex[i] /\ commitIndex[i] <= LastLogIndex(i)
  <2>1. /\ lastSnapshotIndex[i] \in Nat /\ appliedIndex[i] \in Nat
        /\ commitIndex[i] \in Nat /\ LastLogIndex(i) \in Nat
        /\ lastSnapshotIndex[i] <= appliedIndex[i] /\ appliedIndex[i] <= commitIndex[i]
        /\ commitIndex[i] <= LastLogIndex(i)
    BY IndexTypes DEF IndexInv
  <2>2. lastSnapshotIndex[i] + 1 <= index /\ index <= appliedIndex[i]
    BY DEF PersistSnapshot
  <2> QED
    BY <2>1, <2>2, BoundsAssumption
<1>3. \A j \in Server : LastLogIndex(j) \in Nat
  BY LogTypes DEF TypeOK
<1>4. LastLogIndex(i)' = LastLogIndex(i)
  <2>1. logs[i] \in Seq(Entries) /\ lastSnapshotIndex[i] \in Nat
    BY DEF TypeOK
  <2>2. index + Len(Discard(i, index)) = Larger(index, LastLogIndex(i))
    BY <1>2, <2>1, DiscardTypes
  <2>3. logs'[i] = Discard(i, index) /\ lastSnapshotIndex'[i] = index
    BY DEF PersistSnapshot, TypeOK
  <2>4. Larger(index, LastLogIndex(i)) = LastLogIndex(i)
    BY <1>2, <1>3 DEF Larger
  <2> QED
    BY <2>2, <2>3, <2>4 DEF LastLogIndex
<1>5. \A j \in Server \ {i} : /\ LastLogIndex(j)' = LastLogIndex(j)
                              /\ lastSnapshotIndex'[j] = lastSnapshotIndex[j]
  BY DEF PersistSnapshot, TypeOK, LastLogIndex
<1>6. MatchWithinLog' /\ AppendCallsWithinLog' /\ SnapshotCallsWithinLog'
  <2>1. \A j \in Server : LastLogIndex(j) <= LastLogIndex(j)'
    BY <1>3, <1>4, <1>5
  <2> QED
    BY <1>1, <2>1, CallsKept
<1>7. IndexOrder'
  <2>1. lastSnapshotIndex'[i] = index
    BY DEF PersistSnapshot, TypeOK
  <2> QED
    BY <1>1, <1>2, <1>4, <1>5, <2>1, OrderOfOthers DEF IndexInv
<1>8. NoIndexThrow'
  BY <1>1 DEF IndexInv, NoIndexThrow
<1> QED
  BY <1>6, <1>7, <1>8 DEF IndexInv

LEMMA SendSnapshotIndexes ==
  ASSUME TypeOK, TypeOK', IndexInv, NEW th \in snapshotThreads, SendSnapshot(th.src, th)
  PROVE  IndexInv'
<1> DEFINE i == th.src
<1>1. i \in Server
  BY DEF TypeOK, SnapshotThreads
<1>2. UNCHANGED <<logVars, progressVars, matchIndex, boot, fault, appendRequests,
                  appendReplies, snapshotReplies>>
  BY DEF SendSnapshot, leaderVars, appendCalls
<1>3. \A j \in Server : LastLogIndex(j)' = LastLogIndex(j)
  BY <1>2 DEF LastLogIndex, logVars
<1>4. \A j \in Server : /\ LastLogIndex(j) \in Nat /\ boot[j] \in Nat
                        /\ lastSnapshotIndex[j] <= LastLogIndex(j)
  BY LogTypes DEF TypeOK
<1>5. \A m \in snapshotRequests' \ snapshotRequests :
        m.src = i /\ m.boot = boot[i] /\ m.lastIndex = lastSnapshotIndex[i]
  BY DEF SendSnapshot
<1>6. \A m \in snapshotRequests' \ snapshotRequests :
        m.boot <= boot[m.src] /\ m.lastIndex <= LastLogIndex(m.src)'
  BY <1>1, <1>3, <1>4, <1>5
<1>7. MatchWithinLog' /\ AppendCallsWithinLog' /\ SnapshotCallsWithinLog'
  <2>1. \A j \in Server : LastLogIndex(j) <= LastLogIndex(j)'
    BY <1>3, <1>4
  <2> QED
    BY <1>2, <1>6, <2>1, CallsKept
<1>8. IndexOrder' /\ NoIndexThrow'
  BY <1>2, <1>3 DEF IndexInv, IndexOrder, NoIndexThrow, logVars, progressVars
<1> QED
  BY <1>7, <1>8 DEF IndexInv

\* Installing moves the snapshot up, and every index below it up to it.
LEMMA InstallSnapshotIndexes ==
  ASSUME TypeOK, TypeOK', IndexInv, NEW m \in snapshotRequests,
         HandleInstallSnapshot(m.dst, m)
  PROVE  IndexInv'
<1> DEFINE i == m.dst
<1>1. i \in Server /\ m.src \in Server /\ m.lastIndex \in Nat
  BY DEF TypeOK, SnapshotRequests
<1>2. /\ UNCHANGED <<matchIndex, boot, fault, appendRequests, appendReplies>>
      /\ snapshotRequests' \subseteq snapshotRequests
  BY DEF HandleInstallSnapshot, leaderVars, appendCalls
<1>3. \A j \in Server : LastLogIndex(j) \in Nat
  BY LogTypes DEF TypeOK
<1>4. /\ lastSnapshotIndex[i] <= appliedIndex[i] /\ appliedIndex[i] <= commitIndex[i]
      /\ commitIndex[i] <= LastLogIndex(i)
      /\ lastSnapshotIndex[i] \in Nat /\ appliedIndex[i] \in Nat /\ commitIndex[i] \in Nat
  BY <1>1, IndexTypes DEF IndexInv
<1>5. /\ \A j \in Server \ {i} : /\ LastLogIndex(j)' = LastLogIndex(j)
                                 /\ lastSnapshotIndex'[j] = lastSnapshotIndex[j]
                                 /\ commitIndex'[j] = commitIndex[j]
                                 /\ appliedIndex'[j] = appliedIndex[j]
      /\ LastLogIndex(i) <= LastLogIndex(i)'
      /\ lastSnapshotIndex'[i] <= appliedIndex'[i]
      /\ appliedIndex'[i] <= commitIndex'[i] /\ commitIndex'[i] <= LastLogIndex(i)'
  <2>1. CASE UNCHANGED <<logVars, progressVars>>
    <3>1. \A j \in Server : LastLogIndex(j)' = LastLogIndex(j)
      BY <2>1 DEF LastLogIndex, logVars
    <3>2. UNCHANGED <<lastSnapshotIndex, commitIndex, appliedIndex>>
      BY <2>1 DEF logVars, progressVars
    <3> QED
      BY <1>1, <1>3, <1>4, <3>1, <3>2
  <2>2. CASE m.lastIndex > lastSnapshotIndex[i] /\ Install(i, m)
    <3>1. m.lastIndex + Len(logs'[i]) = Larger(m.lastIndex, LastLogIndex(i))
      BY <2>2, InstallTypes
    <3>2. /\ lastSnapshotIndex'[i] = m.lastIndex
          /\ commitIndex'[i] = Larger(commitIndex[i], m.lastIndex)
          /\ appliedIndex'[i] = Larger(appliedIndex[i], m.lastIndex)
      BY <1>1, <2>2 DEF Install, TypeOK
    <3>3. LastLogIndex(i)' = Larger(m.lastIndex, LastLogIndex(i))
      BY <3>1, <3>2 DEF LastLogIndex
    <3>4. \A j \in Server \ {i} : /\ LastLogIndex(j)' = LastLogIndex(j)
                                  /\ lastSnapshotIndex'[j] = lastSnapshotIndex[j]
                                  /\ commitIndex'[j] = commitIndex[j]
                                  /\ appliedIndex'[j] = appliedIndex[j]
      BY <2>2 DEF Install, TypeOK, LastLogIndex
    <3>5. /\ LastLogIndex(i) <= Larger(m.lastIndex, LastLogIndex(i))
          /\ m.lastIndex <= Larger(appliedIndex[i], m.lastIndex)
          /\ Larger(appliedIndex[i], m.lastIndex) <= Larger(commitIndex[i], m.lastIndex)
          /\ Larger(commitIndex[i], m.lastIndex) <= Larger(m.lastIndex, LastLogIndex(i))
      BY <1>1, <1>3, <1>4 DEF Larger
    <3> QED
      BY <3>2, <3>3, <3>4, <3>5
  <2> QED
    BY <2>1, <2>2 DEF HandleInstallSnapshot
<1>6. \A j \in Server : LastLogIndex(j) <= LastLogIndex(j)'
  BY <1>3, <1>5
<1>7. \A q \in snapshotReplies' \ snapshotReplies :
        /\ q.boot <= boot[q.dst]
        /\ q.boot = boot[q.dst] => q.lastIndex <= LastLogIndex(q.dst)'
  <2> SUFFICES ASSUME NEW q \in snapshotReplies' \ snapshotReplies
               PROVE  /\ q.boot <= boot[q.dst]
                      /\ q.boot = boot[q.dst] => q.lastIndex <= LastLogIndex(q.dst)'
    OBVIOUS
  <2>1. \E t : q = SnapshotReply(i, m, t)
    BY DEF HandleInstallSnapshot
  <2>2. q.dst = m.src /\ q.boot = m.boot /\ q.lastIndex = m.lastIndex
    BY <2>1 DEF SnapshotReply
  <2>3. /\ m.boot <= boot[m.src]
        /\ m.boot = boot[m.src] => m.lastIndex <= LastLogIndex(m.src)
    BY DEF IndexInv, SnapshotCallsWithinLog, SentBy
  <2>4. LastLogIndex(m.src)' \in Nat
    <3>1. logs'[m.src] \in Seq(Entries) /\ lastSnapshotIndex'[m.src] \in Nat
      BY <1>1 DEF TypeOK
    <3> QED
      BY <3>1, LenProperties DEF LastLogIndex
  <2>5. LastLogIndex(m.src) \in Nat /\ LastLogIndex(m.src) <= LastLogIndex(m.src)'
    BY <1>1, <1>3, <1>6
  <2> QED
    BY <1>1, <2>2, <2>3, <2>4, <2>5
<1>8. MatchWithinLog' /\ AppendCallsWithinLog' /\ SnapshotCallsWithinLog'
  BY <1>2, <1>6, <1>7, CallsKept
<1>9. IndexOrder'
  <2>1. IndexOrder
    BY DEF IndexInv
  <2> QED
    BY <1>1, <1>5, <2>1, OrderOfOthers
<1>10. NoIndexThrow'
  BY <1>2 DEF IndexInv, NoIndexThrow
<1> QED
  BY <1>8, <1>9, <1>10 DEF IndexInv

\* The thread answered is alive, so the snapshot it sent lies in the leader's log.
LEMMA SnapshotReplyIndexes ==
  ASSUME TypeOK, TypeOK', IndexInv, NEW m \in snapshotReplies, HandleSnapshotReply(m.dst, m)
  PROVE  IndexInv'
<1> DEFINE i == m.dst
<1>1. i \in Server /\ m.src \in Server /\ m.lastIndex \in Nat
  BY DEF TypeOK, SnapshotReplies
<1>2. /\ UNCHANGED <<logVars, progressVars, boot, fault, appendRequests, appendReplies,
                     snapshotRequests>>
      /\ snapshotReplies' \subseteq snapshotReplies
  BY DEF HandleSnapshotReply, appendCalls
<1>3. CASE UNCHANGED matchIndex
  BY <1>2, <1>3, IndexFrame
<1>4. CASE matchIndex' = [matchIndex EXCEPT ![i][m.src] = m.lastIndex]
  <2>1. \A j \in Server : LastLogIndex(j)' = LastLogIndex(j) /\ LastLogIndex(j) \in Nat
    BY <1>2, LogTypes DEF LastLogIndex, logVars, TypeOK
  <2>2. m.lastIndex <= LastLogIndex(i)
    <3>1. m.boot = boot[i]
      BY DEF HandleSnapshotReply
    <3> QED
      BY <3>1 DEF IndexInv, SnapshotCallsWithinLog
  <2>3. \A j, k \in Server : \/ matchIndex'[j][k] <= LastLogIndex(j)'
                             \/ matchIndex'[j][k] = matchIndex[j][k]
    <3> SUFFICES ASSUME NEW j \in Server, NEW k \in Server
                 PROVE  \/ matchIndex'[j][k] <= LastLogIndex(j)'
                        \/ matchIndex'[j][k] = matchIndex[j][k]
      OBVIOUS
    <3>1. CASE j # i
      <4>1. matchIndex'[j] = matchIndex[j]
        BY <1>1, <1>4, <3>1 DEF TypeOK
      <4> QED
        BY <4>1
    <3>2. CASE j = i
      <4>1. matchIndex[i] \in [Server -> Nat] /\ DOMAIN matchIndex = Server
        BY <1>1 DEF TypeOK
      <4>2. matchIndex'[i] = [matchIndex[i] EXCEPT ![m.src] = m.lastIndex]
        BY <1>1, <1>4, <4>1
      <4>3. CASE k = m.src
        BY <1>1, <2>1, <2>2, <3>2, <4>1, <4>2, <4>3
      <4>4. CASE k # m.src
        BY <3>2, <4>1, <4>2, <4>4
      <4> QED
        BY <4>3, <4>4
    <3> QED
      BY <3>1, <3>2
  <2>4. MatchWithinLog' /\ AppendCallsWithinLog' /\ SnapshotCallsWithinLog'
    <3>1. \A j \in Server : LastLogIndex(j) <= LastLogIndex(j)'
      BY <2>1
    <3> QED
      BY <1>2, <2>3, <3>1, CallsKept
  <2>5. IndexOrder' /\ NoIndexThrow'
    BY <1>2, <2>1 DEF IndexInv, IndexOrder, NoIndexThrow, logVars, progressVars
  <2> QED
    BY <2>4, <2>5 DEF IndexInv
<1> QED
  BY <1>3, <1>4 DEF HandleSnapshotReply

\* A restart shortens the log, but makes every call of its threads an old one.
LEMMA RestartIndexes ==
  ASSUME TypeOK, TypeOK', IndexInv, NEW i \in Server, Restart(i)
  PROVE  IndexInv'
<1>1. /\ Load(Nil).logs = <<>> /\ Load(Nil).lastSnapshotIndex = 0
  BY DEF Load, Blank
<1>2. /\ logs' = [logs EXCEPT ![i] = <<>>]
      /\ lastSnapshotIndex' = [lastSnapshotIndex EXCEPT ![i] = 0]
      /\ appliedIndex' = [appliedIndex EXCEPT ![i] = 0]
      /\ commitIndex' = [commitIndex EXCEPT ![i] = 0]
      /\ fault' = [fault EXCEPT ![i] = "none"]
      /\ boot' = [boot EXCEPT ![i] = boot[i] + 1]
      /\ matchIndex' = [matchIndex EXCEPT ![i] = [j \in Server |-> 0]]
  BY <1>1 DEF Restart
<1>3. LastLogIndex(i)' = 0
  <2>1. logs'[i] = <<>> /\ lastSnapshotIndex'[i] = 0
    BY <1>2 DEF TypeOK
  <2>2. Len(<<>>) = 0
    BY EmptySeq
  <2> QED
    BY <2>1, <2>2 DEF LastLogIndex
<1>4. \A j \in Server \ {i} : LastLogIndex(j)' = LastLogIndex(j)
  BY <1>2 DEF LastLogIndex, TypeOK
<1>5. \A j \in Server : boot[j] \in Nat /\ boot'[j] = IF j = i THEN boot[j] + 1 ELSE boot[j]
  BY <1>2 DEF TypeOK
<1>6. ASSUME NEW j \in Server, NEW b \in Nat, NEW index,
             b <= boot[j], b = boot[j] => index <= LastLogIndex(j)
      PROVE  b <= boot'[j] /\ (b = boot'[j] => index <= LastLogIndex(j)')
  <2>1. boot[j] \in Nat /\ boot'[j] = IF j = i THEN boot[j] + 1 ELSE boot[j]
    BY <1>5
  <2>2. CASE j = i
    <3>1. b <= boot'[j] /\ b # boot'[j]
      BY <1>6, <2>1, <2>2
    <3> QED
      BY <3>1
  <2>3. CASE j # i
    BY <1>4, <1>6, <2>1, <2>3
  <2> QED
    BY <2>2, <2>3
<1>7. MatchWithinLog'
  <2> SUFFICES ASSUME NEW j \in Server, NEW k \in Server
               PROVE  matchIndex'[j][k] <= LastLogIndex(j)'
    BY DEF MatchWithinLog
  <2>1. CASE j = i
    <3>1. matchIndex'[i] = [p \in Server |-> 0]
      BY <1>2 DEF TypeOK
    <3> QED
      BY <1>3, <2>1, <3>1
  <2>2. CASE j # i
    <3>1. matchIndex'[j] = matchIndex[j]
      BY <1>2, <2>2 DEF TypeOK
    <3> QED
      BY <1>4, <2>2, <3>1 DEF IndexInv, MatchWithinLog
  <2> QED
    BY <2>1, <2>2
<1>8. AppendCallsWithinLog'
  <2>1. ASSUME NEW m \in appendRequests'
        PROVE  /\ m.boot <= boot'[m.src]
               /\ m.boot = boot'[m.src] => m.prevIndex + Len(m.entries) <= LastLogIndex(m.src)'
    <3>1. m \in appendRequests
      BY DEF Restart
    <3>2. m.src \in Server /\ m.boot \in Nat
      BY <3>1 DEF TypeOK, AppendRequests
    <3>3. /\ m.boot <= boot[m.src]
          /\ m.boot = boot[m.src] => m.prevIndex + Len(m.entries) <= LastLogIndex(m.src)
      BY <3>1 DEF IndexInv, AppendCallsWithinLog, SentBy
    <3> QED
      BY <1>6, <3>2, <3>3
  <2>2. ASSUME NEW m \in appendReplies'
        PROVE  /\ m.boot <= boot'[m.dst]
               /\ m.boot = boot'[m.dst] => m.lastIndex <= LastLogIndex(m.dst)'
    <3>1. m \in appendReplies
      BY DEF Restart
    <3>2. m.dst \in Server /\ m.boot \in Nat
      BY <3>1 DEF TypeOK, AppendReplies
    <3>3. /\ m.boot <= boot[m.dst]
          /\ m.boot = boot[m.dst] => m.lastIndex <= LastLogIndex(m.dst)
      BY <3>1 DEF IndexInv, AppendCallsWithinLog, SentBy
    <3> QED
      BY <1>6, <3>2, <3>3
  <2> QED
    BY <2>1, <2>2 DEF AppendCallsWithinLog, SentBy
<1>9. SnapshotCallsWithinLog'
  <2>1. \A m \in snapshotRequests : m.src \in Server /\ m.boot \in Nat
    BY DEF TypeOK, SnapshotRequests
  <2>2. \A m \in snapshotRequests :
          /\ m.boot <= boot[m.src]
          /\ m.boot = boot[m.src] => m.lastIndex <= LastLogIndex(m.src)
    BY DEF IndexInv, SnapshotCallsWithinLog, SentBy
  <2>3. ASSUME NEW m \in snapshotRequests'
        PROVE  /\ m.boot <= boot'[m.src]
               /\ m.boot = boot'[m.src] => m.lastIndex <= LastLogIndex(m.src)'
    <3>1. m \in snapshotRequests
      BY DEF Restart
    <3> QED
      BY <1>6, <2>1, <2>2, <3>1
  <2>4. ASSUME NEW m \in snapshotReplies'
        PROVE  /\ m.boot <= boot'[m.dst]
               /\ m.boot = boot'[m.dst] => m.lastIndex <= LastLogIndex(m.dst)'
    <3>1. \/ m \in snapshotReplies
          \/ \E q \in snapshotRequests : m = SnapshotReply(i, q, 0)
      BY DEF Restart
    <3>2. CASE m \in snapshotReplies
      <4>1. m.dst \in Server /\ m.boot \in Nat
        BY <3>2 DEF TypeOK, SnapshotReplies
      <4>2. /\ m.boot <= boot[m.dst]
            /\ m.boot = boot[m.dst] => m.lastIndex <= LastLogIndex(m.dst)
        BY <3>2 DEF IndexInv, SnapshotCallsWithinLog, SentBy
      <4> QED
        BY <1>6, <4>1, <4>2
    <3>3. CASE \E q \in snapshotRequests : m = SnapshotReply(i, q, 0)
      <4>1. PICK q \in snapshotRequests : m = SnapshotReply(i, q, 0)
        BY <3>3
      <4>2. m.dst = q.src /\ m.boot = q.boot /\ m.lastIndex = q.lastIndex
        BY <4>1 DEF SnapshotReply
      <4> QED
        BY <1>6, <2>1, <2>2, <4>2
    <3> QED
      BY <3>1, <3>2, <3>3
  <2> QED
    BY <2>3, <2>4 DEF SnapshotCallsWithinLog, SentBy
<1>10. IndexOrder'
  <2>1. \A j \in Server \ {i} : /\ lastSnapshotIndex'[j] = lastSnapshotIndex[j]
                                /\ appliedIndex'[j] = appliedIndex[j]
                                /\ commitIndex'[j] = commitIndex[j]
    BY <1>2 DEF TypeOK
  <2>2. lastSnapshotIndex'[i] = 0 /\ appliedIndex'[i] = 0 /\ commitIndex'[i] = 0
    BY <1>2 DEF TypeOK
  <2> QED
    BY <1>3, <1>4, <2>1, <2>2, OrderOfOthers DEF IndexInv
<1>11. NoIndexThrow'
  BY <1>2 DEF IndexInv, NoIndexThrow, TypeOK
<1> QED
  BY <1>7, <1>8, <1>9, <1>10, <1>11 DEF IndexInv

LEMMA InitIndexes == Init => IndexInv
<1> SUFFICES ASSUME Init PROVE IndexInv
  OBVIOUS
<1>1. \A i \in Server : LastLogIndex(i) = 0
  <2>1. Len(<<>>) = 0
    BY EmptySeq
  <2> QED
    BY <2>1 DEF Init, LastLogIndex
<1>2. IndexOrder /\ NoIndexThrow /\ MatchWithinLog
  BY <1>1 DEF Init, IndexOrder, NoIndexThrow, MatchWithinLog
<1>3. AppendCallsWithinLog /\ SnapshotCallsWithinLog
  BY DEF Init, AppendCallsWithinLog, SnapshotCallsWithinLog
<1> QED
  BY <1>2, <1>3 DEF IndexInv

LEMMA IndexesKept ==
  ASSUME TypeOK, TypeOK', IndexInv, [CrashStep]_vars
  PROVE  IndexInv'
<1>1. CASE UNCHANGED vars
  <2>1. UNCHANGED <<logVars, progressVars, matchIndex, boot, fault, appendRequests,
                    appendReplies, snapshotRequests, snapshotReplies>>
    BY <1>1 DEF vars, leaderVars, appendCalls, snapshotCalls
  <2> QED
    BY <2>1, IndexFrame
<1>2. ASSUME NEW i \in Server, Stand4Election(i) PROVE IndexInv'
  <2>1. UNCHANGED <<logVars, progressVars, matchIndex, boot, fault, appendRequests,
                    appendReplies, snapshotRequests, snapshotReplies>>
    BY <1>2 DEF Stand4Election, leaderVars, appendCalls, snapshotCalls
  <2> QED
    BY <2>1, IndexFrame
<1>3. CASE \E i \in Server : Heartbeat(i)
  BY <1>3, HeartbeatIndexes
<1>4. CASE \E i \in Server : ApplierTick(i)
  BY <1>4, ApplierIndexes
<1>5. CASE \E i \in Server : \E c \in Command : Execute(i, c)
  BY <1>5, ExecuteIndexes
<1>6. CASE \E i \in Server : \E index \in 1..MaxIndex : PersistSnapshot(i, index)
  BY <1>6, PersistSnapshotIndexes
<1>7. ASSUME NEW m \in voteRequests, HandleVoteRequest(m.dst, m) PROVE IndexInv'
  <2>1. UNCHANGED <<logVars, progressVars, matchIndex, boot, fault, appendRequests,
                    appendReplies, snapshotRequests, snapshotReplies>>
    BY <1>7 DEF HandleVoteRequest, leaderVars, appendCalls, snapshotCalls
  <2> QED
    BY <2>1, IndexFrame
<1>8. CASE \E m \in voteReplies : HandleVoteReply(m.dst, m)
  BY <1>8, VoteReplyIndexes
<1>9. CASE \E m \in appendRequests : HandleAppendEntries(m.dst, m)
  BY <1>9, AppendEntriesIndexes
<1>10. CASE \E m \in appendReplies : HandleAppendReply(m.dst, m)
  BY <1>10, AppendReplyIndexes
<1>11. CASE \E th \in snapshotThreads : SendSnapshot(th.src, th)
  BY <1>11, SendSnapshotIndexes
<1>12. CASE \E m \in snapshotRequests : HandleInstallSnapshot(m.dst, m)
  BY <1>12, InstallSnapshotIndexes
<1>13. CASE \E m \in snapshotReplies : HandleSnapshotReply(m.dst, m)
  BY <1>13, SnapshotReplyIndexes
<1>14. CASE \E i \in Server : Restart(i)
  BY <1>14, RestartIndexes
<1> QED
  BY <1>1, <1>2, <1>3, <1>4, <1>5, <1>6, <1>7, <1>8, <1>9, <1>10, <1>11, <1>12, <1>13,
     <1>14 DEF CrashStep, Step

\* TypeOK and IndexInv are inductive together, restarts included.
LEMMA TypesAndIndexes == CrashSpec => [](TypeOK /\ IndexInv)
<1>1. Init => TypeOK /\ IndexInv
  BY InitTypes, InitIndexes
<1>2. TypeOK /\ IndexInv /\ [CrashStep]_vars => (TypeOK /\ IndexInv)'
  <2> SUFFICES ASSUME TypeOK, IndexInv, [CrashStep]_vars
               PROVE  TypeOK' /\ IndexInv'
    OBVIOUS
  <2>1. IndexOrder
    BY DEF IndexInv
  <2>2. TypeOK'
    BY <2>1, TypesKept
  <2>3. IndexInv'
    BY <2>2, IndexesKept
  <2> QED
    BY <2>2, <2>3
<1> QED
  BY <1>1, <1>2, PTL DEF CrashSpec

\* No handler, thread or restart ever stores a value of the wrong type: in
\* particular no index becomes negative, and a refusal that names no next index
\* (invalidUpdateNextIndex) is never stored as one.
THEOREM TypeCorrect == CrashSpec => []TypeOK
BY TypesAndIndexes, PTL

\* The indexes of a node keep the order drawn in raft.h, and no call of a living
\* thread reaches beyond the log of its node, however calls and restarts interleave.
THEOREM IndexesOrdered == CrashSpec => []IndexInv
BY TypesAndIndexes, PTL

\* The index checks of _M_getApplyMessages and _L_sendAppendEntries never throw:
\* late answers are bounded by the log, those of an earlier process have no thread.
THEOREM NeverThrows == CrashSpec => []NoIndexThrow
<1>1. IndexInv => NoIndexThrow
  BY DEF IndexInv
<1> QED
  BY <1>1, TypesAndIndexes, PTL
=============================================================================
