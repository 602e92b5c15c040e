-------------------------------- MODULE Raft --------------------------------
(***************************************************************************)
(* The consensus core: class raft (raft.h, raft.cpp) on every node of the  *)
(* cluster and the RPC threads between them.                               *)
(*                                                                         *)
(* Every handler takes _M_mutex for its whole body, so a handler is one    *)
(* action.  A call is made from a detached thread without the lock; it is  *)
(* a request record, then a reply record, each consumed by one action.  A  *)
(* record that is never consumed is a lost or an unanswered call, and      *)
(* records are consumed in any order.                                      *)
(*                                                                         *)
(* logs[i] drops logEntry.index: entry k of the deque has index            *)
(* lastSnapshotIndex[i] + k.  Timers are abstracted: an election timeout   *)
(* or a heartbeat may come at any moment its guard allows.                 *)
(***************************************************************************)
EXTENDS Integers, Sequences, FiniteSets

CONSTANTS
  Server,        \* the nodes of the cluster (_M_helpers)
  Command,       \* the operations clients submit
  Nil,           \* _M_vote4 = -1, and the empty state file
  MaxTerm,       \* bound: no candidacy beyond this term
  MaxIndex,      \* bound: no command is logged beyond this index
  MaxRounds,     \* bound: heartbeat rounds of one leadership
  MaxRestarts    \* bound: restarts of one node

ASSUME ServerAssumption ==
  IsFiniteSet(Server) /\ Server # {} /\ Nil \notin Server

ASSUME BoundsAssumption ==
  /\ MaxTerm \in Nat /\ MaxIndex \in Nat
  /\ MaxRounds \in Nat /\ MaxRestarts \in Nat

VARIABLES
  term, vote4, identity,
  logs, lastSnapshotIndex, lastSnapshotTerm,
  commitIndex, appliedIndex,
  nextIndex, matchIndex,
  voteNum,          \* the counter the vote threads of one candidacy share
  round,            \* heartbeat rounds of this leadership so far
  appendNum,        \* appendNum[i][r]: the counter the threads of round r share
  disk,             \* the state file of the persister
  boot,             \* how often the node has restarted
  fault,            \* what ended the process, "none" while it runs
  voteRequests, voteReplies,
  appendRequests, appendReplies,
  snapshotThreads,  \* snapshot threads that have not read the state yet
  snapshotRequests, snapshotReplies,
  \* History: read by properties only, never by a guard.
  ballots,          \* <<t, v, c>>: in term t, v voted for c
  counted,          \* counted[i]: who voteNum[i] has counted since i stood
  leaders           \* <<t, i>>: i won the election of term t

electionVars == <<term, vote4, identity>>
logVars      == <<logs, lastSnapshotIndex, lastSnapshotTerm>>
progressVars == <<commitIndex, appliedIndex>>
leaderVars   == <<nextIndex, matchIndex, round, appendNum>>
voteCalls    == <<voteRequests, voteReplies>>
appendCalls  == <<appendRequests, appendReplies>>
snapshotCalls == <<snapshotThreads, snapshotRequests, snapshotReplies>>
history      == <<ballots, counted, leaders>>
vars == <<electionVars, logVars, progressVars, leaderVars, voteNum, disk, boot,
          fault, voteCalls, appendCalls, snapshotCalls, history>>

Larger(a, b)  == IF a >= b THEN a ELSE b
Smaller(a, b) == IF a <= b THEN a ELSE b
Peers(i)      == Server \ {i}
Majority      == Cardinality(Server) \div 2 + 1
InvalidUpdateNextIndex == -2
Up(i)         == fault[i] = "none"

-----------------------------------------------------------------------------
(* The log of a node. *)

LastLogIndex(i) == lastSnapshotIndex[i] + Len(logs[i])

LastLogTerm(i) ==
  IF logs[i] = <<>> THEN lastSnapshotTerm[i] ELSE logs[i][Len(logs[i])].term

\* Callers stay within lastSnapshotIndex[i] .. LastLogIndex(i).
LogTerm(i, index) ==
  IF index = lastSnapshotIndex[i] THEN lastSnapshotTerm[i]
                                  ELSE logs[i][index - lastSnapshotIndex[i]].term

\* The entries after prev.
Suffix(i, prev) == SubSeq(logs[i], prev - lastSnapshotIndex[i] + 1, Len(logs[i]))

\* The deque once everything up to index is dropped.
Discard(i, index) == Suffix(i, Smaller(index, LastLogIndex(i)))

\* Entry n of a request lands at position offset + n of the deque.
Offset(i, prev) == prev - lastSnapshotIndex[i]

\* Mutant: the log ends with the last entry received.
MergedAndCut(i, prev, entries) ==
  SubSeq(logs[i], 1, Offset(i, prev)) \o entries

\* An entry of another term is replaced in place, one past the end is
\* appended; whatever follows the last entry received stays.
Merged(i, prev, entries) ==
  LET from == Offset(i, prev)
      till == from + Len(entries)
      Taken(k) == /\ from < k /\ k <= till
                  /\ k > Len(logs[i]) \/ logs[i][k].term # entries[k - from].term
  IN  [k \in 1..Larger(Len(logs[i]), till) |->
         IF Taken(k) THEN entries[k - from] ELSE logs[i][k]]

\* An entry received agrees with a logged one in index and term only.
CommandConflict(i, prev, entries) ==
  \E n \in 1..Len(entries) :
    LET k == Offset(i, prev) + n
    IN  /\ k <= Len(logs[i])
        /\ logs[i][k].term = entries[n].term
        /\ logs[i][k].command # entries[n].command

\* next is where the term of entry prev begins on node i; when the deque does
\* not reach back that far it is prev itself.
RollsBackTo(i, prev, next) ==
  LET Differs(x) == LogTerm(i, x) # LogTerm(i, prev)
      known == lastSnapshotIndex[i]..prev
  IN  \/ /\ next - 1 \in known /\ Differs(next - 1)
         /\ \A x \in next..prev : ~Differs(x)
      \/ /\ next = prev
         /\ \A x \in known : ~Differs(x)

-----------------------------------------------------------------------------
(* The state file. *)

Dump(i) ==
  [term |-> term[i], vote4 |-> vote4[i], logs |-> logs[i],
   lastSnapshotIndex |-> lastSnapshotIndex[i],
   lastSnapshotTerm |-> lastSnapshotTerm[i]]

Blank == [term |-> 0, vote4 |-> Nil, logs |-> <<>>,
          lastSnapshotIndex |-> 0, lastSnapshotTerm |-> 0]

\* What the constructor makes of a state file; an empty one loads nothing.
Load(file) == IF file = Nil THEN Blank ELSE file

\* _M_persist at the end of a handler.
Persist(i) == disk' = [disk EXCEPT ![i] = Dump(i)']

-----------------------------------------------------------------------------
(* Starting. *)

\* Load(Nil) on every node: the constructor on an empty state file.
Init ==
  /\ term = [i \in Server |-> 0]
  /\ vote4 = [i \in Server |-> Nil]
  /\ identity = [i \in Server |-> "follower"]
  /\ logs = [i \in Server |-> <<>>]
  /\ lastSnapshotIndex = [i \in Server |-> 0]
  /\ lastSnapshotTerm = [i \in Server |-> 0]
  /\ commitIndex = [i \in Server |-> 0]
  /\ appliedIndex = [i \in Server |-> 0]
  /\ nextIndex = [i \in Server |-> [j \in Server |-> 0]]
  /\ matchIndex = [i \in Server |-> [j \in Server |-> 0]]
  /\ voteNum = [i \in Server |-> 0]
  /\ round = [i \in Server |-> 0]
  /\ appendNum = [i \in Server |-> [r \in 1..MaxRounds |-> 0]]
  /\ disk = [i \in Server |-> Nil]
  /\ boot = [i \in Server |-> 0]
  /\ fault = [i \in Server |-> "none"]
  /\ voteRequests = {} /\ voteReplies = {}
  /\ appendRequests = {} /\ appendReplies = {}
  /\ snapshotThreads = {} /\ snapshotRequests = {} /\ snapshotReplies = {}
  /\ ballots = {} /\ leaders = {}
  /\ counted = [i \in Server |-> {}]

\* The answer of i to a snapshot call.
SnapshotReply(i, m, t) ==
  [src |-> i, dst |-> m.src, boot |-> m.boot, id |-> m.id,
   lastIndex |-> m.lastIndex, sentTerm |-> m.term, term |-> t]

\* The process of i ends and is started again.  The constructor of persister
\* opens both files for writing, which empties them, before the constructor of
\* raft loads the state.  Threads of i and what its peers still hold for it die
\* with it; a snapshot call waiting on i reads an empty answer, which parses as
\* a reply of term 0.
Restart(i) ==
  LET file == Nil IN
  /\ boot[i] < MaxRestarts
  /\ boot' = [boot EXCEPT ![i] = @ + 1]
  /\ disk' = [disk EXCEPT ![i] = file]
  /\ term' = [term EXCEPT ![i] = Load(file).term]
  /\ vote4' = [vote4 EXCEPT ![i] = Load(file).vote4]
  /\ logs' = [logs EXCEPT ![i] = Load(file).logs]
  /\ lastSnapshotIndex' =
       [lastSnapshotIndex EXCEPT ![i] = Load(file).lastSnapshotIndex]
  /\ lastSnapshotTerm' =
       [lastSnapshotTerm EXCEPT ![i] = Load(file).lastSnapshotTerm]
  /\ appliedIndex' = [appliedIndex EXCEPT ![i] = Load(file).lastSnapshotIndex]
  /\ identity' = [identity EXCEPT ![i] = "follower"]
  /\ commitIndex' = [commitIndex EXCEPT ![i] = 0]
  /\ nextIndex' = [nextIndex EXCEPT ![i] = [j \in Server |-> 0]]
  /\ matchIndex' = [matchIndex EXCEPT ![i] = [j \in Server |-> 0]]
  /\ voteNum' = [voteNum EXCEPT ![i] = 0]
  /\ round' = [round EXCEPT ![i] = 0]
  /\ appendNum' = [appendNum EXCEPT ![i] = [r \in 1..MaxRounds |-> 0]]
  /\ fault' = [fault EXCEPT ![i] = "none"]
  /\ voteRequests' = {m \in voteRequests : m.dst # i}
  /\ appendRequests' = {m \in appendRequests : m.dst # i}
  /\ snapshotRequests' = {m \in snapshotRequests : m.dst # i}
  /\ voteReplies' = {m \in voteReplies : m.dst # i}
  /\ appendReplies' = {m \in appendReplies : m.dst # i}
  /\ snapshotThreads' = {m \in snapshotThreads : m.src # i}
  /\ snapshotReplies' =
       {m \in snapshotReplies : m.dst # i} \cup
       {SnapshotReply(i, m, 0) : m \in {s \in snapshotRequests : s.dst = i}}
  /\ counted' = [counted EXCEPT ![i] = {}]
  /\ UNCHANGED <<ballots, leaders>>

-----------------------------------------------------------------------------
(* Elections. *)

\* Mutant: a node falls back without saving its state.
StepDownUnsaved(i, t) ==
  /\ term' = [term EXCEPT ![i] = t]
  /\ vote4' = [vote4 EXCEPT ![i] = Nil]
  /\ identity' = [identity EXCEPT ![i] = "follower"]
  /\ UNCHANGED disk

\* Mutant: the vote outlives the term it was cast in.
StepDownVoting(i, t) ==
  /\ term' = [term EXCEPT ![i] = t]
  /\ identity' = [identity EXCEPT ![i] = "follower"]
  /\ UNCHANGED vote4
  /\ Persist(i)

\* "if(reply->term() > _M_term)" of the three sending threads.
StepDown(i, t) ==
  /\ term' = [term EXCEPT ![i] = t]
  /\ vote4' = [vote4 EXCEPT ![i] = Nil]
  /\ identity' = [identity EXCEPT ![i] = "follower"]
  /\ Persist(i)

\* Mutant: a message of the present term clears the vote as well.
AdoptTermForgetfully(i, t) ==
  /\ term' = [term EXCEPT ![i] = Larger(@, t)]
  /\ vote4' = [vote4 EXCEPT ![i] = IF t >= term[i] THEN Nil ELSE @]

\* A handler that follows the sender: a newer term clears the vote.
AdoptTerm(i, t) ==
  /\ term' = [term EXCEPT ![i] = Larger(@, t)]
  /\ vote4' = [vote4 EXCEPT ![i] = IF t > term[i] THEN Nil ELSE @]

\* _L_stand4Election: any node that is not the leader, at an election timeout.
Stand4Election(i) ==
  /\ Up(i)
  /\ identity[i] # "leader"
  /\ term[i] < MaxTerm
  /\ term' = [term EXCEPT ![i] = @ + 1]
  /\ vote4' = [vote4 EXCEPT ![i] = i]
  /\ identity' = [identity EXCEPT ![i] = "candidate"]
  /\ voteNum' = [voteNum EXCEPT ![i] = 1]
  /\ voteRequests' = voteRequests \cup
       {[src |-> i, dst |-> j, boot |-> boot[i], term |-> term[i] + 1,
         lastIndex |-> LastLogIndex(i), lastTerm |-> LastLogTerm(i)]
          : j \in Peers(i)}
  /\ ballots' = ballots \cup {<<term[i] + 1, i, i>>}
  /\ counted' = [counted EXCEPT ![i] = {i}]
  /\ UNCHANGED <<logVars, progressVars, leaderVars, boot, fault, voteReplies,
                 appendCalls, snapshotCalls, leaders>>
  /\ Persist(i)

\* _M_receiveVote: the candidate's log is at least as new as that of i.
ReceiveVote(i, index, t) ==
  \/ t > LastLogTerm(i)
  \/ t = LastLogTerm(i) /\ index >= LastLogIndex(i)

\* Mutant: a node votes for every candidate whose log is new enough.
GrantsTwice(i, m) ==
  /\ m.term >= term[i]
  /\ ReceiveVote(i, m.lastIndex, m.lastTerm)

\* The vote i casts for candidate c of term t, after AdoptTerm.
Grants(i, m) ==
  /\ m.term >= term[i]
  /\ ReceiveVote(i, m.lastIndex, m.lastTerm)
  /\ m.term > term[i] \/ vote4[i] \in {Nil, m.src}

\* _L_requestVote on i.
HandleVoteRequest(i, m) ==
  /\ Up(i)
  /\ m.dst = i
  /\ term' = [term EXCEPT ![i] = Larger(@, m.term)]
  /\ vote4' = [vote4 EXCEPT ![i] = IF Grants(i, m) THEN m.src
                                   ELSE IF m.term > term[i] THEN Nil ELSE @]
  /\ identity' = [identity EXCEPT ![i] = IF m.term > term[i] THEN "follower" ELSE @]
  /\ voteRequests' = voteRequests \ {m}
  /\ voteReplies' = voteReplies \cup
       {[src |-> i, dst |-> m.src, boot |-> m.boot,
         term |-> Larger(term[i], m.term), granted |-> Grants(i, m)]}
  /\ ballots' = IF Grants(i, m) THEN ballots \cup {<<m.term, i, m.src>>} ELSE ballots
  /\ UNCHANGED <<logVars, progressVars, leaderVars, voteNum, boot, fault,
                 appendCalls, snapshotCalls, counted, leaders>>
  /\ Persist(i)

\* The node becomes leader of its term.
TakeOffice(i) ==
  /\ identity' = [identity EXCEPT ![i] = "leader"]
  /\ nextIndex' = [nextIndex EXCEPT ![i] = [j \in Server |-> LastLogIndex(i) + 1]]
  /\ matchIndex' = [matchIndex EXCEPT ![i] =
                      [j \in Server |-> IF j = i THEN LastLogIndex(i) ELSE 0]]
  /\ round' = [round EXCEPT ![i] = 0]
  /\ appendNum' = [appendNum EXCEPT ![i] = [r \in 1..MaxRounds |-> 0]]
  /\ leaders' = leaders \cup {<<term[i], i>>}
  /\ UNCHANGED <<term, vote4>>
  /\ Persist(i)

\* One more granted vote; a majority of them resets the counter.
CountVote(i) ==
  LET won == voteNum[i] + 1 >= Majority IN
  /\ voteNum' = [voteNum EXCEPT ![i] = IF won THEN 0 ELSE @ + 1]
  /\ IF won /\ identity[i] # "leader"
       THEN TakeOffice(i)
       ELSE UNCHANGED <<electionVars, leaderVars, disk, leaders>>

\* The rest of _L_sendRequestVote once the answer is there.  The identity is not
\* looked at: a node that fell back within its term still counts.
HandleVoteReply(i, m) ==
  /\ Up(i)
  /\ m.dst = i /\ m.boot = boot[i]
  /\ voteReplies' = voteReplies \ {m}
  /\ UNCHANGED <<logVars, progressVars, boot, fault, voteRequests, appendCalls,
                 snapshotCalls, ballots>>
  /\ \/ /\ m.term > term[i]
        /\ StepDown(i, m.term)
        /\ UNCHANGED <<leaderVars, voteNum, counted, leaders>>
     \/ /\ m.term <= term[i]
        /\ m.term < term[i] \/ ~m.granted
        /\ UNCHANGED <<electionVars, leaderVars, voteNum, disk, counted, leaders>>
     \/ /\ m.term = term[i]
        /\ m.granted
        /\ counted' = [counted EXCEPT ![i] = @ \cup {m.src}]
        /\ CountVote(i)

-----------------------------------------------------------------------------
(* Replication. *)

\* Mutant: any node takes operations.
ExecuteAnywhere(i, c) ==
  /\ Up(i)
  /\ LastLogIndex(i) < MaxIndex
  /\ logs' = [logs EXCEPT ![i] = Append(@, [term |-> term[i], command |-> c])]
  /\ UNCHANGED <<electionVars, lastSnapshotIndex, lastSnapshotTerm, progressVars,
                 leaderVars, voteNum, boot, fault, voteCalls, appendCalls,
                 snapshotCalls, history>>
  /\ Persist(i)

\* A client's operation reaches the leader; MaxIndex bounds the log.
Execute(i, c) ==
  /\ Up(i)
  /\ identity[i] = "leader"
  /\ LastLogIndex(i) < MaxIndex
  /\ logs' = [logs EXCEPT ![i] = Append(@, [term |-> term[i], command |-> c])]
  /\ UNCHANGED <<electionVars, lastSnapshotIndex, lastSnapshotTerm, progressVars,
                 leaderVars, voteNum, boot, fault, voteCalls, appendCalls,
                 snapshotCalls, history>>
  /\ Persist(i)

\* Mutant: the whole deque is sent, whatever the peer has.
AppendRequestWhole(i, j, r) ==
  LET prev == nextIndex[i][j] - 1 IN
  [src |-> i, dst |-> j, boot |-> boot[i], round |-> r, term |-> term[i],
   prevIndex |-> prev, prevTerm |-> LogTerm(i, prev),
   entries |-> logs[i], leaderCommit |-> commitIndex[i]]

\* What the heartbeat of round r sends to j.
AppendRequest(i, j, r) ==
  LET prev == nextIndex[i][j] - 1 IN
  [src |-> i, dst |-> j, boot |-> boot[i], round |-> r, term |-> term[i],
   prevIndex |-> prev, prevTerm |-> LogTerm(i, prev),
   entries |-> Suffix(i, prev), leaderCommit |-> commitIndex[i]]

\* _L_heartBeat: peers whose next entry is discarded get a snapshot thread, the
\* others everything from their next entry on.  A next index beyond the log
\* reads the deque out of range.
Heartbeat(i) ==
  LET r == round[i] + 1
      discarded == {j \in Peers(i) : nextIndex[i][j] <= lastSnapshotIndex[i]}
      beyond == {j \in Peers(i) : nextIndex[i][j] > LastLogIndex(i) + 1}
  IN
  /\ Up(i)
  /\ identity[i] = "leader"
  /\ round[i] < MaxRounds
  /\ round' = [round EXCEPT ![i] = r]
  /\ appendNum' = [appendNum EXCEPT ![i][r] = 1]
  /\ appendRequests' = appendRequests \cup
       {AppendRequest(i, j, r) : j \in Peers(i) \ (discarded \cup beyond)}
  /\ snapshotThreads' = snapshotThreads \cup
       {[src |-> i, dst |-> j, id |-> <<term[i], r>>] : j \in discarded}
  /\ fault' = [fault EXCEPT ![i] = IF beyond = {} THEN @ ELSE "out of range"]
  /\ UNCHANGED <<electionVars, logVars, progressVars, nextIndex, matchIndex,
                 voteNum, disk, boot, voteCalls, appendReplies, snapshotRequests,
                 snapshotReplies, history>>

\* Mutant: the acknowledged index is one too far.
AppendReplyOneTooFar(i, m, success, next) ==
  [src |-> i, dst |-> m.src, boot |-> m.boot, round |-> m.round,
   lastIndex |-> m.prevIndex + Len(m.entries) + 1,
   newestTerm |-> IF m.entries = <<>> THEN 0 ELSE m.entries[Len(m.entries)].term,
   term |-> Larger(term[i], m.term), success |-> success, updateNextIndex |-> next]

\* Mutant: a refusal names the entry before the last one known, not the one after.
AppendReplyBelow(i, m, success, next) ==
  [AppendReplyOneTooFar(i, m, success, next) EXCEPT !.updateNextIndex = IF success THEN @ ELSE @ - 2]

\* The answer of i to m; the fields that follow term are what the handler sets,
\* the ones before it belong to the waiting thread.
AppendReply(i, m, success, next) ==
  [src |-> i, dst |-> m.src, boot |-> m.boot, round |-> m.round,
   lastIndex |-> m.prevIndex + Len(m.entries),
   newestTerm |-> IF m.entries = <<>> THEN 0 ELSE m.entries[Len(m.entries)].term,
   term |-> Larger(term[i], m.term), success |-> success, updateNextIndex |-> next]

\* The branches of _L_appendEntries that refuse, with the next index they answer.
Refuses(i, m, next) ==
  \/ m.prevIndex > LastLogIndex(i) /\ next = LastLogIndex(i) + 1
  \/ m.prevIndex < lastSnapshotIndex[i] /\ next = lastSnapshotIndex[i] + 1
  \/ /\ lastSnapshotIndex[i] <= m.prevIndex /\ m.prevIndex <= LastLogIndex(i)
     /\ LogTerm(i, m.prevIndex) # m.prevTerm
     /\ RollsBackTo(i, m.prevIndex, next)

\* The branch that accepts: merge the entries, then follow the leader's commit.
\* A conflicting command throws: the process ends without an answer, and what its
\* log and commit index were by then is lost with it.
Accepts(i, m) ==
  /\ lastSnapshotIndex[i] <= m.prevIndex /\ m.prevIndex <= LastLogIndex(i)
  /\ LogTerm(i, m.prevIndex) = m.prevTerm

Accept(i, m) ==
  /\ logs' = [logs EXCEPT ![i] = Merged(i, m.prevIndex, m.entries)]
  /\ commitIndex' = [commitIndex EXCEPT ![i] =
       IF m.leaderCommit > @
         THEN Smaller(m.leaderCommit, lastSnapshotIndex[i] + Len(logs'[i])) ELSE @]
  /\ fault' = [fault EXCEPT ![i] =
       IF CommandConflict(i, m.prevIndex, m.entries) THEN "command conflict" ELSE @]

\* _L_appendEntries on i.
HandleAppendEntries(i, m) ==
  /\ Up(i)
  /\ m.dst = i
  /\ appendRequests' = appendRequests \ {m}
  /\ UNCHANGED <<lastSnapshotIndex, lastSnapshotTerm, appliedIndex, leaderVars,
                 voteNum, boot, voteCalls, snapshotCalls, history>>
  /\ \/ /\ m.term < term[i]
        /\ appendReplies' = appendReplies \cup
             {AppendReply(i, m, FALSE, InvalidUpdateNextIndex)}
        /\ UNCHANGED <<electionVars, logs, commitIndex, disk, fault>>
     \/ /\ m.term >= term[i]
        /\ AdoptTerm(i, m.term)
        /\ identity' = [identity EXCEPT ![i] = "follower"]
        /\ \/ \E next \in lastSnapshotIndex[i]..(LastLogIndex(i) + 1) :
                /\ Refuses(i, m, next)
                /\ appendReplies' = appendReplies \cup {AppendReply(i, m, FALSE, next)}
                /\ UNCHANGED <<logs, commitIndex, fault>>
           \/ /\ Accepts(i, m)
              /\ Accept(i, m)
              /\ appendReplies' = IF CommandConflict(i, m.prevIndex, m.entries)
                   THEN appendReplies
                   ELSE appendReplies \cup {AppendReply(i, m, TRUE, 0)}
        /\ Persist(i)

\* Where the leader continues after a refusal, which may name no index.
NextAfterRefusal(i, m) ==
  IF m.updateNextIndex = InvalidUpdateNextIndex THEN nextIndex[i][m.src]
                                                ELSE m.updateNextIndex

\* Mutant: commits the log as it is when the reply comes, not as it was sent.
CountAppendLate(i, m) ==
  /\ matchIndex' = [matchIndex EXCEPT ![i][m.src] = m.lastIndex]
  /\ nextIndex' = [nextIndex EXCEPT ![i][m.src] = m.lastIndex + 1]
  /\ commitIndex' = [commitIndex EXCEPT ![i] = LastLogIndex(i)]
  /\ UNCHANGED <<appendNum, fault>>

\* A success counted by the leader: its view of the peer moves up, and the
\* reply that completes the majority commits, if it carried an entry of this
\* term.  The counter restarts from 0, so a round commits at most once.
CountAppend(i, m) ==
  LET match == Larger(matchIndex[i][m.src], m.lastIndex)
      majority == appendNum[i][m.round] + 1 >= Majority
      commit == IF majority /\ m.newestTerm = term[i]
                  THEN Larger(commitIndex[i], m.lastIndex) ELSE commitIndex[i]
  IN
  /\ matchIndex' = [matchIndex EXCEPT ![i][m.src] = match]
  /\ nextIndex' = [nextIndex EXCEPT ![i][m.src] = match + 1]
  /\ appendNum' = [appendNum EXCEPT ![i][m.round] = IF majority THEN 0 ELSE @ + 1]
  /\ commitIndex' = [commitIndex EXCEPT ![i] = commit]
  /\ fault' = [fault EXCEPT ![i] =
       CASE match > LastLogIndex(i) -> "next index beyond log"
         [] commit > LastLogIndex(i) -> "commit beyond log"
         [] OTHER -> @]

\* The rest of _L_sendAppendEntries once the answer is there.
HandleAppendReply(i, m) ==
  LET current == m.term = term[i] /\ identity[i] = "leader" IN
  /\ Up(i)
  /\ m.dst = i /\ m.boot = boot[i]
  /\ appendReplies' = appendReplies \ {m}
  /\ UNCHANGED <<logVars, appliedIndex, round, voteNum, boot, voteCalls,
                 appendRequests, snapshotCalls, history>>
  /\ \/ /\ m.term > term[i]
        /\ StepDown(i, m.term)
        /\ UNCHANGED <<nextIndex, matchIndex, appendNum, commitIndex, fault>>
     \/ /\ m.term <= term[i] /\ ~current
        /\ UNCHANGED <<electionVars, nextIndex, matchIndex, appendNum,
                       commitIndex, disk, fault>>
     \/ /\ current /\ ~m.success
        /\ nextIndex' = [nextIndex EXCEPT ![i][m.src] = NextAfterRefusal(i, m)]
        /\ UNCHANGED <<electionVars, matchIndex, appendNum, commitIndex, disk, fault>>
     \/ /\ current /\ m.success
        /\ CountAppend(i, m)
        /\ UNCHANGED <<electionVars, disk>>

\* _M_getApplyMessages in the applier thread: all that is committed is handed up.
ApplierTick(i) ==
  /\ Up(i)
  /\ appliedIndex[i] # commitIndex[i] \/ commitIndex[i] > LastLogIndex(i)
  /\ fault' = [fault EXCEPT ![i] =
       CASE commitIndex[i] > LastLogIndex(i) -> "commit beyond log"
         [] appliedIndex[i] > commitIndex[i] -> "applied beyond commit"
         [] OTHER -> @]
  /\ appliedIndex' = [appliedIndex EXCEPT ![i] = Larger(@, commitIndex[i])]
  /\ UNCHANGED <<electionVars, logVars, commitIndex, leaderVars, voteNum, disk,
                 boot, voteCalls, appendCalls, snapshotCalls, history>>

-----------------------------------------------------------------------------
(* Snapshots. *)

\* raft::persist, called by the key-value layer with the index of a command it
\* was handed, so at most appliedIndex.
PersistSnapshot(i, index) ==
  /\ Up(i)
  /\ index <= appliedIndex[i]
  /\ lastSnapshotIndex[i] + 1 <= index /\ index <= commitIndex[i]
  /\ lastSnapshotIndex' = [lastSnapshotIndex EXCEPT ![i] = index]
  /\ lastSnapshotTerm' = [lastSnapshotTerm EXCEPT ![i] = LogTerm(i, index)]
  /\ logs' = [logs EXCEPT ![i] = Discard(i, index)]
  /\ UNCHANGED <<electionVars, progressVars, leaderVars, voteNum, boot, fault,
                 voteCalls, appendCalls, snapshotCalls, history>>
  /\ Persist(i)

\* The first half of _L_sendSnapshot: the thread a heartbeat detached takes the
\* lock and reads the state as it is by then.  It does not ask whether the node
\* is still the leader.
SendSnapshot(i, th) ==
  /\ Up(i)
  /\ th.src = i
  /\ snapshotThreads' = snapshotThreads \ {th}
  /\ snapshotRequests' = snapshotRequests \cup
       {[src |-> i, dst |-> th.dst, boot |-> boot[i], id |-> th.id,
         term |-> term[i], lastIndex |-> lastSnapshotIndex[i],
         lastTerm |-> lastSnapshotTerm[i]]}
  /\ UNCHANGED <<electionVars, logVars, progressVars, leaderVars, voteNum, disk,
                 boot, fault, voteCalls, appendCalls, snapshotReplies, history>>

\* A newer snapshot replaces what it covers and moves every index up to it.
Install(i, m) ==
  /\ logs' = [logs EXCEPT ![i] = Discard(i, m.lastIndex)]
  /\ commitIndex' = [commitIndex EXCEPT ![i] = Larger(@, m.lastIndex)]
  /\ appliedIndex' = [appliedIndex EXCEPT ![i] = Larger(@, m.lastIndex)]
  /\ lastSnapshotIndex' = [lastSnapshotIndex EXCEPT ![i] = m.lastIndex]
  /\ lastSnapshotTerm' = [lastSnapshotTerm EXCEPT ![i] = m.lastTerm]

\* _L_installSnapshot on i.  A snapshot i already covers is answered with the
\* default reply, of term 0.
HandleInstallSnapshot(i, m) ==
  /\ Up(i)
  /\ m.dst = i
  /\ snapshotRequests' = snapshotRequests \ {m}
  /\ UNCHANGED <<leaderVars, voteNum, boot, fault, voteCalls, appendCalls,
                 snapshotThreads, history>>
  /\ \/ /\ m.term < term[i]
        /\ snapshotReplies' = snapshotReplies \cup {SnapshotReply(i, m, term[i])}
        /\ UNCHANGED <<electionVars, logVars, progressVars, disk>>
     \/ /\ m.term >= term[i]
        /\ AdoptTerm(i, m.term)
        /\ identity' = [identity EXCEPT ![i] = "follower"]
        /\ \/ /\ m.lastIndex <= lastSnapshotIndex[i]
              /\ snapshotReplies' = snapshotReplies \cup {SnapshotReply(i, m, 0)}
              /\ UNCHANGED <<logVars, progressVars>>
           \/ /\ m.lastIndex > lastSnapshotIndex[i]
              /\ Install(i, m)
              /\ snapshotReplies' = snapshotReplies \cup {SnapshotReply(i, m, m.term)}
        /\ Persist(i)

\* The second half of _L_sendSnapshot.
HandleSnapshotReply(i, m) ==
  /\ Up(i)
  /\ m.dst = i /\ m.boot = boot[i]
  /\ snapshotReplies' = snapshotReplies \ {m}
  /\ UNCHANGED <<logVars, progressVars, round, appendNum, voteNum, boot, fault,
                 voteCalls, appendCalls, snapshotThreads, snapshotRequests, history>>
  /\ \/ /\ m.term > term[i]
        /\ StepDown(i, m.term)
        /\ UNCHANGED <<nextIndex, matchIndex>>
     \/ /\ m.term <= term[i]
        /\ identity[i] = "leader" /\ m.sentTerm = term[i]
        /\ matchIndex' = [matchIndex EXCEPT ![i][m.src] = m.lastIndex]
        /\ nextIndex' = [nextIndex EXCEPT ![i][m.src] = m.lastIndex + 1]
        /\ UNCHANGED <<electionVars, disk>>
     \/ /\ m.term <= term[i]
        /\ identity[i] # "leader" \/ m.sentTerm # term[i]
        /\ UNCHANGED <<electionVars, nextIndex, matchIndex, disk>>

-----------------------------------------------------------------------------

\* A step of a running cluster.
Step ==
  \/ \E i \in Server : \/ Stand4Election(i) \/ Heartbeat(i) \/ ApplierTick(i)
                       \/ \E c \in Command : Execute(i, c)
                       \/ \E index \in 1..MaxIndex : PersistSnapshot(i, index)
  \/ \E m \in voteRequests : HandleVoteRequest(m.dst, m)
  \/ \E m \in voteReplies : HandleVoteReply(m.dst, m)
  \/ \E m \in appendRequests : HandleAppendEntries(m.dst, m)
  \/ \E m \in appendReplies : HandleAppendReply(m.dst, m)
  \/ \E th \in snapshotThreads : SendSnapshot(th.src, th)
  \/ \E m \in snapshotRequests : HandleInstallSnapshot(m.dst, m)
  \/ \E m \in snapshotReplies : HandleSnapshotReply(m.dst, m)

\* As long as no process ends.
Spec == Init /\ [][Step]_vars

\* With processes that end and are started again.
CrashStep == Step \/ \E i \in Server : Restart(i)
CrashSpec == Init /\ [][CrashStep]_vars

-----------------------------------------------------------------------------
(* Properties. *)

VoteRequests == [src : Server, dst : Server, boot : Nat, term : Nat,
                 lastIndex : Nat, lastTerm : Nat]
VoteReplies == [src : Server, dst : Server, boot : Nat, term : Nat,
                granted : BOOLEAN]
Entries == [term : Nat, command : Command]
AppendRequests == [src : Server, dst : Server, boot : Nat, round : 1..MaxRounds,
                   term : Nat, prevIndex : Nat, prevTerm : Nat,
                   entries : Seq(Entries), leaderCommit : Nat]
AppendReplies == [src : Server, dst : Server, boot : Nat, round : 1..MaxRounds,
                  lastIndex : Nat, newestTerm : Nat, term : Nat,
                  success : BOOLEAN, updateNextIndex : Nat \cup {InvalidUpdateNextIndex}]
SnapshotThreads == [src : Server, dst : Server, id : Nat \X Nat]
SnapshotRequests == [src : Server, dst : Server, boot : Nat, id : Nat \X Nat,
                     term : Nat, lastIndex : Nat, lastTerm : Nat]
SnapshotReplies == [src : Server, dst : Server, boot : Nat, id : Nat \X Nat,
                    lastIndex : Nat, sentTerm : Nat, term : Nat]
StateFiles == [term : Nat, vote4 : Server \cup {Nil}, logs : Seq(Entries),
               lastSnapshotIndex : Nat, lastSnapshotTerm : Nat]
\* An empty file is not the file of any state.
ASSUME FileAssumption == Nil \notin StateFiles
Faults == {"none", "out of range", "command conflict", "commit beyond log",
           "applied beyond commit", "next index beyond log"}

\* Every field of class raft and of the RPC messages has its type; no index ever
\* becomes negative, the -2 of invalidUpdateNextIndex included.
TypeOK ==
  /\ term \in [Server -> Nat]
  /\ vote4 \in [Server -> Server \cup {Nil}]
  /\ identity \in [Server -> {"follower", "candidate", "leader"}]
  /\ logs \in [Server -> Seq(Entries)]
  /\ lastSnapshotIndex \in [Server -> Nat]
  /\ lastSnapshotTerm \in [Server -> Nat]
  /\ commitIndex \in [Server -> Nat]
  /\ appliedIndex \in [Server -> Nat]
  /\ nextIndex \in [Server -> [Server -> Nat]]
  /\ matchIndex \in [Server -> [Server -> Nat]]
  /\ voteNum \in [Server -> Nat]
  /\ round \in [Server -> 0..MaxRounds]
  /\ appendNum \in [Server -> [1..MaxRounds -> Nat]]
  /\ disk \in [Server -> StateFiles \cup {Nil}]
  /\ boot \in [Server -> Nat]
  /\ fault \in [Server -> Faults]
  /\ voteRequests \subseteq VoteRequests
  /\ voteReplies \subseteq VoteReplies
  /\ appendRequests \subseteq AppendRequests
  /\ appendReplies \subseteq AppendReplies
  /\ snapshotThreads \subseteq SnapshotThreads
  /\ snapshotRequests \subseteq SnapshotRequests
  /\ snapshotReplies \subseteq SnapshotReplies
  /\ ballots \subseteq Nat \X Server \X Server
  /\ counted \in [Server -> SUBSET Server]
  /\ leaders \subseteq Nat \X Server

\* One term has at most one leader, however the votes of _L_requestVote and the
\* replies counted by _L_sendRequestVote interleave over all candidacies.
ElectionSafety ==
  /\ \A i \in Server : identity[i] = "leader" => <<term[i], i>> \in leaders
  /\ \A a, b \in leaders : a[1] = b[1] => a = b

\* lastSnapshotIndex <= appliedIndex <= commitIndex <= last log index on every
\* node: the drawing at the fields of class raft, which the applier, the
\* snapshot handlers and the two halves of a heartbeat each touch one end of.
IndexOrder ==
  \A i \in Server :
    /\ lastSnapshotIndex[i] <= appliedIndex[i]
    /\ appliedIndex[i] <= commitIndex[i]
    /\ commitIndex[i] <= LastLogIndex(i)

\* None of the index checks that throw out of a detached thread (and so end the
\* process) is ever reached with its condition false.
NoIndexThrow ==
  \A i \in Server :
    fault[i] \notin {"commit beyond log", "applied beyond commit", "next index beyond log"}

\* What a leader believes a peer has replicated, the peer's log reaches unless the
\* peer has been started anew: acks are counted long after they were given, and
\* followers change leaders meanwhile.
AckedIsHeld ==
  \A i, j \in Server :
    identity[i] = "leader" /\ boot[j] = 0 => matchIndex[i][j] <= LastLogIndex(j)

\* A commit index, on the leader that counted acks or on a follower that was told,
\* is reached by the logs of more than half of the nodes, those counted in that have
\* lost theirs in a restart.
CommitIsHeld ==
  \A i \in Server :
    2 * Cardinality({j \in Server : LastLogIndex(j) >= commitIndex[i] \/ boot[j] > 0})
      > Cardinality(Server)

\* An index and a term determine the command on all nodes, although conflicting
\* entries are replaced in place and suffixes survive; so the handler that merges
\* entries never meets the conflict it throws at.
SameEntry ==
  /\ \A i, j \in Server : \A a \in 1..Len(logs[i]), b \in 1..Len(logs[j]) :
       /\ lastSnapshotIndex[i] + a = lastSnapshotIndex[j] + b
       /\ logs[i][a].term = logs[j][b].term
       => logs[i][a].command = logs[j][b].command
  /\ \A i \in Server : fault[i] # "command conflict"

\* Whenever _M_mutex is free the state file holds the state: no handler returns
\* having changed a persistent field and not saved it.
Durable == \A i \in Server : Load(disk[i]) = Dump(i)

\* As long as it runs, no node takes back a term, the vote of its current term, a
\* commit, an applied command or a snapshot, whichever handlers take turns.
NothingTakenBack ==
  [][\A i \in Server : boot'[i] = boot[i] =>
       /\ term'[i] >= term[i]
       /\ term'[i] = term[i] /\ vote4[i] # Nil => vote4'[i] = vote4[i]
       /\ commitIndex'[i] >= commitIndex[i]
       /\ appliedIndex'[i] >= appliedIndex[i]
       /\ lastSnapshotIndex'[i] >= lastSnapshotIndex[i]]_vars
=============================================================================
