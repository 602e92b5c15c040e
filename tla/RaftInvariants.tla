--------------------------- MODULE RaftInvariants ---------------------------
(***************************************************************************)
(* The inductive invariants behind IndexOrder, NoIndexThrow, AckedIsHeld,  *)
(* CommitIsHeld, ElectionSafety and SameEntry.  TLC checks them on small   *)
(* instances; RaftProofs and the modules that extend it prove them for     *)
(* every cluster.                                                          *)
(***************************************************************************)
EXTENDS Raft

\* An incarnation of i sent m: no younger one than the present.
SentBy(i, m) == m.boot <= boot[i]

\* What the threads of a living sender carry never reaches beyond its log, which
\* only a restart shortens.
AppendCallsWithinLog ==
  /\ \A m \in appendRequests :
       /\ SentBy(m.src, m)
       /\ m.boot = boot[m.src] =>
            m.prevIndex + Len(m.entries) <= LastLogIndex(m.src)
  /\ \A m \in appendReplies :
       /\ SentBy(m.dst, m)
       /\ m.boot = boot[m.dst] => m.lastIndex <= LastLogIndex(m.dst)

SnapshotCallsWithinLog ==
  /\ \A m \in snapshotRequests :
       /\ SentBy(m.src, m)
       /\ m.boot = boot[m.src] => m.lastIndex <= LastLogIndex(m.src)
  /\ \A m \in snapshotReplies :
       /\ SentBy(m.dst, m)
       /\ m.boot = boot[m.dst] => m.lastIndex <= LastLogIndex(m.dst)

MatchWithinLog == \A i, j \in Server : matchIndex[i][j] <= LastLogIndex(i)

\* Every index of a node and of its calls in flight, those of its dead
\* incarnations excepted, lies within its log: what the checks of
\* _L_sendAppendEntries and _M_getApplyMessages rely on, restarts included.
IndexInv ==
  /\ IndexOrder
  /\ NoIndexThrow
  /\ MatchWithinLog
  /\ AppendCallsWithinLog
  /\ SnapshotCallsWithinLog

-----------------------------------------------------------------------------

\* A ballot is a vote its voter still holds, unless it has moved to a later term.
BallotsAreVotes ==
  \A b \in ballots : /\ b[1] <= term[b[2]]
                     /\ b[1] = term[b[2]] => vote4[b[2]] = b[3]

OneBallotPerTerm ==
  \A a, b \in ballots : a[1] = b[1] /\ a[2] = b[2] => a[3] = b[3]

\* Whoever asks for votes has voted for itself, and a vote granted was cast.
VoteCallsAreBacked ==
  /\ \A m \in voteRequests : /\ m.src # m.dst
                             /\ <<m.term, m.src, m.src>> \in ballots
  /\ \A m \in voteReplies : m.granted =>
       /\ <<m.term, m.dst, m.dst>> \in ballots
       /\ <<m.term, m.src, m.dst>> \in ballots

\* One candidacy asks each peer once, and has at any time the request, the
\* granted vote or the count of it.
VoteCallsAreSingle ==
  /\ \A m, n \in voteRequests :
       m.src = n.src /\ m.dst = n.dst /\ m.term = n.term => m = n
  /\ \A m, n \in voteReplies :
       /\ m.granted /\ n.granted
       /\ m.src = n.src /\ m.dst = n.dst /\ m.term = n.term
       => m = n
  /\ \A m \in voteRequests, n \in voteReplies :
       ~(n.granted /\ m.src = n.dst /\ m.dst = n.src /\ m.term = n.term)
  /\ \A m \in voteRequests : m.term = term[m.src] => m.dst \notin counted[m.src]
  /\ \A m \in voteReplies :
       m.granted /\ m.term = term[m.dst] => m.src \notin counted[m.dst]

\* The shared counter of a candidacy never exceeds the votes cast for it.
CountIsBacked ==
  \A i \in Server : vote4[i] = i =>
    /\ \A v \in counted[i] : <<term[i], v, i>> \in ballots
    /\ voteNum[i] <= Cardinality(counted[i])

LeadersWereElected ==
  /\ \A i \in Server : identity[i] = "leader" => <<term[i], i>> \in leaders
  /\ \A l \in leaders : \E Q \in SUBSET Server :
       /\ Cardinality(Q) >= Majority
       /\ \A v \in Q : <<l[1], v, l[2]>> \in ballots

\* Every leader holds the ballots of a majority, and nobody has two in a term:
\* what the counter that _L_sendRequestVote shares between threads, the vote kept
\* by _L_requestVote and the term checks establish together.
ElectionInv ==
  /\ BallotsAreVotes
  /\ OneBallotPerTerm
  /\ VoteCallsAreBacked
  /\ VoteCallsAreSingle
  /\ CountIsBacked
  /\ LeadersWereElected

-----------------------------------------------------------------------------

\* The log of j has reached x, or j has lost it in a restart.
Holds(j, x) == boot[j] > 0 \/ x <= LastLogIndex(j)

\* Whoever has acknowledged an index holds it, and so does whoever a leader believes
\* to: an answer to a snapshot is no acknowledgement when it carries a newer term.
AcksAreHeld ==
  /\ \A i, j \in Server : Holds(j, matchIndex[i][j])
  /\ \A m \in appendReplies : m.success => Holds(m.src, m.lastIndex)
  /\ \A m \in snapshotReplies : m.term <= m.sentTerm => Holds(m.src, m.lastIndex)

\* What the present incarnation of i has asked for in its present term and what it
\* has been granted or acknowledged, as far as no thread has taken it yet.
VotesAsked(i)   == {m \in voteRequests : m.src = i /\ m.boot = boot[i] /\ m.term = term[i]}
VotesGranted(i) == {m \in voteReplies :
                      m.dst = i /\ m.boot = boot[i] /\ m.term = term[i] /\ m.granted}
AppendsAsked(i) == {m \in appendRequests : m.src = i /\ m.boot = boot[i] /\ m.term = term[i]}
AppendsAcked(i) == {m \in appendReplies :
                      m.dst = i /\ m.boot = boot[i] /\ m.term = term[i] /\ m.success}

\* No call is ahead of the incarnation and the term of the node that made it.
CallTermsKnown ==
  /\ \A m \in voteRequests \cup appendRequests :
       SentBy(m.src, m) /\ (m.boot = boot[m.src] => m.term <= term[m.src])
  /\ \A m \in {n \in voteReplies : n.granted} \cup {n \in appendReplies : n.success} :
       SentBy(m.dst, m) /\ (m.boot = boot[m.dst] => m.term <= term[m.dst])

\* A candidacy asks each peer once and counts each answer once, whatever the voters
\* have forgotten in a restart.
CandidacyIsSingle(i) ==
  /\ \A m, n \in VotesAsked(i) : m.dst = n.dst => m = n
  /\ \A m, n \in VotesGranted(i) : m.src = n.src => m = n
  /\ \A m \in VotesAsked(i), n \in VotesGranted(i) : m.dst # n.src
  /\ \A m \in VotesAsked(i) : m.dst \notin counted[i]
  /\ \A m \in VotesGranted(i) : m.src \notin counted[i]
  /\ voteNum[i] <= Cardinality(counted[i])

InOffice(i) == identity[i] = "leader" \/ AppendsAsked(i) # {} \/ AppendsAcked(i) # {}

\* Who has won a term has too few votes left to win it again: its counters are reset
\* once a term.
WonOnce(i) == InOffice(i) => voteNum[i] + Majority <= Cardinality(counted[i])

\* A round asks each peer once, all of them for the log as it was at the heartbeat.
RoundIsSingle(i) ==
  /\ \A m \in AppendsAsked(i) : m.round <= round[i] /\ m.dst # i
  /\ \A m \in AppendsAcked(i) : m.round <= round[i] /\ m.src # i
  /\ \A m, n \in AppendsAsked(i) : m.round = n.round /\ m.dst = n.dst => m = n
  /\ \A m, n \in AppendsAcked(i) : m.round = n.round /\ m.src = n.src => m = n
  /\ \A m \in AppendsAsked(i), n \in AppendsAcked(i) : m.round = n.round => m.dst # n.src

\* <<round, peer, last index>> of every append i still waits for.
Open(i) ==
  {<<m.round, m.dst, m.prevIndex + Len(m.entries)>> : m \in AppendsAsked(i)} \cup
  {<<m.round, m.src, m.lastIndex>> : m \in AppendsAcked(i)}

\* The peers that hold x and that round r waits for no more.
Settled(i, r, x) ==
  {j \in Peers(i) : Holds(j, x) /\ \A o \in Open(i) : ~(o[1] = r /\ o[2] = j)}

\* While a round waits for an answer, its counter is at most the leader and those
\* that hold what the round sent.
RoundIsCounted(i) ==
  /\ \A o, p \in Open(i) : o[1] = p[1] => o[3] = p[3]
  /\ \A o \in Open(i) : appendNum[i][o[1]] <= 1 + Cardinality(Settled(i, o[1], o[3]))

\* The counters that the threads of _L_sendRequestVote and _L_sendAppendEntries share
\* count each peer at most once.
CountersInv ==
  /\ CallTermsKnown
  /\ \A i \in Server : /\ CandidacyIsSingle(i)
                        /\ WonOnce(i)
                        /\ RoundIsSingle(i)
                        /\ RoundIsCounted(i)

HeldByMajority(x) == 2 * Cardinality({j \in Server : Holds(j, x)}) > Cardinality(Server)

\* More than half of the nodes hold what a node has committed, what a leader tells
\* its peers it has, and what a snapshot on its way covers.
CommitsAreHeld ==
  /\ \A i \in Server : HeldByMajority(commitIndex[i])
  /\ \A m \in appendRequests : HeldByMajority(m.leaderCommit)
  /\ \A m \in snapshotRequests : HeldByMajority(m.lastIndex)

\* What is acknowledged is held, what is counted is acknowledged, and what is
\* committed is counted.
ReplicationInv ==
  /\ AcksAreHeld
  /\ CountersInv
  /\ CommitsAreHeld
-----------------------------------------------------------------------------

\* Entries with their indexes: those of a log, those an append call carries,
\* those of all logs and of all calls.
LogEntries(i)  == {<<lastSnapshotIndex[i] + k, logs[i][k]>> : k \in 1..Len(logs[i])}
CallEntries(m) == {<<m.prevIndex + k, m.entries[k]>> : k \in 1..Len(m.entries)}
Logged == UNION {LogEntries(i) : i \in Server}
Sent   == UNION {CallEntries(m) : m \in appendRequests}
Placed == Logged \cup Sent

\* An entry was logged by the leader of its term, whose log has not been shorter
\* since; so no leader places two entries of its term at one index.
EntriesInv ==
  /\ \A p \in Placed : \E l \in leaders :
       l[1] = p[2].term /\ p[1] <= LastLogIndex(l[2])
  /\ \A p, q \in Placed : p[1] = q[1] /\ p[2].term = q[2].term => p[2] = q[2]
  /\ \A i \in Server : fault[i] # "command conflict"
=============================================================================
