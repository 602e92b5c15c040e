------------------------- MODULE RaftElectionProofs -------------------------
(***************************************************************************)
(* ElectionSafety of Spec, for every cluster, as long as no process ends.  *)
(* ElectionInv is inductive: a counted vote is a ballot, a node casts one  *)
(* ballot per term, and the ballots of two leaders of one term would come  *)
(* from two majorities, which share a voter.                               *)
(***************************************************************************)
EXTENDS RaftProofs

\* What the invariants say of one ballot.
LEMMA BallotFacts ==
  ASSUME TypeOK, BallotsAreVotes, NEW t, NEW v, NEW c, <<t, v, c>> \in ballots
  PROVE  /\ t \in Nat /\ v \in Server /\ c \in Server
         /\ t <= term[v]
         /\ t = term[v] => vote4[v] = c
<1> DEFINE b == <<t, v, c>>
<1>1. b \in Nat \X Server \X Server
  BY DEF TypeOK
<1>2. b[1] <= term[b[2]] /\ (b[1] = term[b[2]] => vote4[b[2]] = b[3])
  BY DEF BallotsAreVotes
<1> QED
  BY <1>1, <1>2

\* Where terms only rise, clearing the vote, and calls are only consumed, the
\* election state stands.
LEMMA ElectionFrame ==
  ASSUME TypeOK, TypeOK', ElectionInv, UNCHANGED <<voteNum, counted, ballots, leaders>>,
         voteRequests' \subseteq voteRequests, voteReplies' \subseteq voteReplies,
         \A j \in Server :
           /\ term'[j] >= term[j]
           /\ vote4'[j] = IF term'[j] = term[j] THEN vote4[j] ELSE Nil
           /\ identity'[j] = "leader" => identity[j] = "leader" /\ term'[j] = term[j]
  PROVE  ElectionInv'
<1>1. \A j \in Server : term[j] \in Nat /\ term'[j] \in Nat
  BY DEF TypeOK
<1>2. BallotsAreVotes'
  <2> SUFFICES ASSUME NEW b \in ballots
               PROVE  b[1] <= term'[b[2]] /\ (b[1] = term'[b[2]] => vote4'[b[2]] = b[3])
    BY DEF BallotsAreVotes
  <2>1. b[1] \in Nat /\ b[2] \in Server
    BY DEF TypeOK
  <2>2. b[1] <= term[b[2]] /\ (b[1] = term[b[2]] => vote4[b[2]] = b[3])
    BY DEF ElectionInv, BallotsAreVotes
  <2>3. /\ term'[b[2]] >= term[b[2]]
        /\ term'[b[2]] = term[b[2]] => vote4'[b[2]] = vote4[b[2]]
    BY <2>1
  <2> QED
    BY <1>1, <2>1, <2>2, <2>3
<1>3. OneBallotPerTerm'
  BY DEF ElectionInv, OneBallotPerTerm
<1>4. VoteCallsAreBacked'
  BY DEF ElectionInv, VoteCallsAreBacked
<1>5. VoteCallsAreSingle'
  <2>1. ASSUME NEW m \in voteRequests', m.term = term'[m.src]
        PROVE  m.dst \notin counted'[m.src]
    <3>1. m \in voteRequests
      OBVIOUS
    <3>2. <<m.term, m.src, m.src>> \in ballots
      BY <3>1 DEF ElectionInv, VoteCallsAreBacked
    <3>3. m.src \in Server /\ m.term <= term[m.src]
      BY <3>2, BallotFacts DEF ElectionInv
    <3>4. m.term = term[m.src]
      BY <1>1, <2>1, <3>3
    <3> QED
      BY <3>1, <3>4 DEF ElectionInv, VoteCallsAreSingle
  <2>2. ASSUME NEW m \in voteReplies', m.granted, m.term = term'[m.dst]
        PROVE  m.src \notin counted'[m.dst]
    <3>1. m \in voteReplies
      OBVIOUS
    <3>2. <<m.term, m.dst, m.dst>> \in ballots
      BY <2>2, <3>1 DEF ElectionInv, VoteCallsAreBacked
    <3>3. m.dst \in Server /\ m.term <= term[m.dst]
      BY <3>2, BallotFacts DEF ElectionInv
    <3>4. m.term = term[m.dst]
      BY <1>1, <2>2, <3>3
    <3> QED
      BY <2>2, <3>1, <3>4 DEF ElectionInv, VoteCallsAreSingle
  <2> QED
    BY <2>1, <2>2 DEF ElectionInv, VoteCallsAreSingle
<1>6. CountIsBacked'
  <2> SUFFICES ASSUME NEW j \in Server, vote4'[j] = j
               PROVE  /\ \A v \in counted'[j] : <<term'[j], v, j>> \in ballots'
                      /\ voteNum'[j] <= Cardinality(counted'[j])
    BY DEF CountIsBacked
  <2>1. j # Nil
    BY ServerAssumption
  <2>2. term'[j] = term[j] /\ vote4[j] = j
    BY <2>1
  <2> QED
    BY <2>2 DEF ElectionInv, CountIsBacked
<1>7. LeadersWereElected'
  BY DEF ElectionInv, LeadersWereElected
<1> QED
  BY <1>2, <1>3, <1>4, <1>5, <1>6, <1>7 DEF ElectionInv

\* Nobody has voted, or asked for votes, in the term a candidacy opens.
LEMMA CandidacyKeeps ==
  ASSUME TypeOK, TypeOK', ElectionInv, NEW i \in Server, Stand4Election(i)
  PROVE  ElectionInv'
<1> DEFINE t == term[i] + 1
           ask(j) == [src |-> i, dst |-> j, boot |-> boot[i], term |-> t,
                      lastIndex |-> LastLogIndex(i), lastTerm |-> LastLogTerm(i)]
<1>1. term[i] \in Nat /\ t \in Nat /\ t > term[i]
  <2>1. term[i] \in Nat
    BY DEF TypeOK
  <2> QED
    BY <2>1
<1>2. /\ term' = [term EXCEPT ![i] = t] /\ vote4' = [vote4 EXCEPT ![i] = i]
      /\ identity' = [identity EXCEPT ![i] = "candidate"]
      /\ voteNum' = [voteNum EXCEPT ![i] = 1] /\ counted' = [counted EXCEPT ![i] = {i}]
      /\ ballots' = ballots \cup {<<t, i, i>>}
      /\ voteRequests' = voteRequests \cup {ask(j) : j \in Peers(i)}
      /\ UNCHANGED <<voteReplies, leaders>>
  BY DEF Stand4Election
<1>3. /\ term'[i] = t /\ vote4'[i] = i /\ identity'[i] = "candidate"
      /\ voteNum'[i] = 1 /\ counted'[i] = {i}
      /\ \A j \in Server \ {i} :
           /\ term'[j] = term[j] /\ vote4'[j] = vote4[j] /\ identity'[j] = identity[j]
           /\ voteNum'[j] = voteNum[j] /\ counted'[j] = counted[j]
  BY <1>2 DEF TypeOK
<1>4. \A v, c : <<t, v, c>> \in ballots => v # i
  <2> SUFFICES ASSUME NEW v, NEW c, <<t, v, c>> \in ballots PROVE v # i
    OBVIOUS
  <2>1. v \in Server /\ t <= term[v]
    BY BallotFacts DEF ElectionInv
  <2> QED
    BY <1>1, <2>1
<1>5. \A m \in voteRequests' : \/ m \in voteRequests
                               \/ \E j \in Peers(i) : m = ask(j)
  BY <1>2
<1>6. \A j : ask(j).src = i /\ ask(j).dst = j /\ ask(j).term = t
  OBVIOUS
<1>7. \A m \in voteRequests : m.src \in Server /\ <<m.term, m.src, m.src>> \in ballots
  BY DEF ElectionInv, VoteCallsAreBacked, TypeOK, VoteRequests
<1>8. \A m \in voteRequests : m.src = i => m.term # t
  BY <1>4, <1>7
<1>9. \A m \in voteReplies : m.granted => /\ m.dst \in Server
                                          /\ m.dst = i => m.term # t
  BY <1>4 DEF ElectionInv, VoteCallsAreBacked, TypeOK, VoteReplies
<1> HIDE DEF t, ask
<1>10. BallotsAreVotes'
  <2> SUFFICES ASSUME NEW b \in ballots'
               PROVE  b[1] <= term'[b[2]] /\ (b[1] = term'[b[2]] => vote4'[b[2]] = b[3])
    BY DEF BallotsAreVotes
  <2>1. CASE b = <<t, i, i>>
    BY <1>1, <1>3, <2>1
  <2>2. CASE b \in ballots
    <3>1. b[1] \in Nat /\ b[2] \in Server /\ term[b[2]] \in Nat
      BY <2>2 DEF TypeOK
    <3>2. b[1] <= term[b[2]] /\ (b[1] = term[b[2]] => vote4[b[2]] = b[3])
      BY <2>2 DEF ElectionInv, BallotsAreVotes
    <3>3. CASE b[2] = i
      BY <1>1, <1>3, <3>1, <3>2, <3>3
    <3>4. CASE b[2] # i
      BY <1>3, <3>1, <3>2, <3>4
    <3> QED
      BY <3>3, <3>4
  <2> QED
    BY <1>2, <2>1, <2>2
<1>11. OneBallotPerTerm'
  <2> SUFFICES ASSUME NEW a \in ballots', NEW b \in ballots', a[1] = b[1], a[2] = b[2]
               PROVE  a[3] = b[3]
    BY DEF OneBallotPerTerm
  <2>1. \A q \in ballots : q[1] <= term[q[2]] /\ q[1] \in Nat
    BY DEF TypeOK, ElectionInv, BallotsAreVotes
  <2>2. \A q \in ballots : ~(q[1] = t /\ q[2] = i)
    BY <1>1, <2>1
  <2>3. CASE a \in ballots /\ b \in ballots
    BY <2>3 DEF ElectionInv, OneBallotPerTerm
  <2>4. CASE a = <<t, i, i>> \/ b = <<t, i, i>>
    BY <1>2, <2>2, <2>4
  <2> QED
    BY <1>2, <2>3, <2>4
<1>12. VoteCallsAreBacked'
  <2>1. ASSUME NEW m \in voteRequests'
        PROVE  m.src # m.dst /\ <<m.term, m.src, m.src>> \in ballots'
    <3>1. CASE m \in voteRequests
      BY <1>2, <3>1 DEF ElectionInv, VoteCallsAreBacked
    <3>2. CASE \E j \in Peers(i) : m = ask(j)
      BY <1>2, <1>6, <3>2 DEF Peers
    <3> QED
      BY <1>5, <3>1, <3>2
  <2>2. \A m \in voteReplies' : m.granted =>
          <<m.term, m.dst, m.dst>> \in ballots' /\ <<m.term, m.src, m.dst>> \in ballots'
    BY <1>2 DEF ElectionInv, VoteCallsAreBacked
  <2> QED
    BY <2>1, <2>2 DEF VoteCallsAreBacked
<1>13. VoteCallsAreSingle'
  <2>1. ASSUME NEW m \in voteRequests', NEW n \in voteRequests',
               m.src = n.src, m.dst = n.dst, m.term = n.term
        PROVE  m = n
    <3>1. CASE m \in voteRequests /\ n \in voteRequests
      BY <2>1, <3>1 DEF ElectionInv, VoteCallsAreSingle
    <3>2. CASE \E j, k \in Peers(i) : m = ask(j) /\ n = ask(k)
      BY <1>6, <2>1, <3>2
    <3> QED
      BY <1>5, <1>6, <1>8, <2>1, <3>1, <3>2
  <2>2. \A m, n \in voteReplies' :
          /\ m.granted /\ n.granted
          /\ m.src = n.src /\ m.dst = n.dst /\ m.term = n.term
          => m = n
    BY <1>2 DEF ElectionInv, VoteCallsAreSingle
  <2>3. \A m \in voteRequests', n \in voteReplies' :
          ~(n.granted /\ m.src = n.dst /\ m.dst = n.src /\ m.term = n.term)
    BY <1>2, <1>5, <1>6, <1>9 DEF ElectionInv, VoteCallsAreSingle
  <2>4. ASSUME NEW m \in voteRequests', m.term = term'[m.src]
        PROVE  m.dst \notin counted'[m.src]
    <3>1. CASE m \in voteRequests
      BY <1>3, <1>7, <1>8, <2>4, <3>1 DEF ElectionInv, VoteCallsAreSingle
    <3>2. CASE \E j \in Peers(i) : m = ask(j)
      BY <1>3, <1>6, <3>2 DEF Peers
    <3> QED
      BY <1>5, <3>1, <3>2
  <2>5. \A m \in voteReplies' : m.granted /\ m.term = term'[m.dst] => m.src \notin counted'[m.dst]
    BY <1>2, <1>3, <1>9 DEF ElectionInv, VoteCallsAreSingle
  <2> QED
    BY <2>1, <2>2, <2>3, <2>4, <2>5 DEF VoteCallsAreSingle
<1>14. CountIsBacked'
  <2> SUFFICES ASSUME NEW j \in Server, vote4'[j] = j
               PROVE  /\ \A v \in counted'[j] : <<term'[j], v, j>> \in ballots'
                      /\ voteNum'[j] <= Cardinality(counted'[j])
    BY DEF CountIsBacked
  <2>1. CASE j = i
    <3>1. voteNum'[j] = 1 /\ counted'[j] = {i} /\ term'[j] = t
      BY <1>3, <2>1
    <3>2. Cardinality({i}) = 1
      BY FS_Singleton
    <3>3. voteNum'[j] <= Cardinality(counted'[j])
      BY <3>1, <3>2
    <3>4. \A v \in counted'[j] : <<term'[j], v, j>> \in ballots'
      BY <1>2, <2>1, <3>1
    <3> QED
      BY <3>3, <3>4
  <2>2. CASE j # i
    BY <1>2, <1>3, <2>2 DEF ElectionInv, CountIsBacked
  <2> QED
    BY <2>1, <2>2
<1>15. LeadersWereElected'
  BY <1>2, <1>3 DEF ElectionInv, LeadersWereElected
<1> QED
  BY <1>10, <1>11, <1>12, <1>13, <1>14, <1>15 DEF ElectionInv

\* A vote goes to one candidate of a term, and is cast once per request.
LEMMA VoteRequestKeeps ==
  ASSUME TypeOK, TypeOK', ElectionInv, NEW m \in voteRequests, HandleVoteRequest(m.dst, m)
  PROVE  ElectionInv'
<1> DEFINE i == m.dst
           t == Larger(term[i], m.term)
           answer == [src |-> i, dst |-> m.src, boot |-> m.boot, term |-> t,
                      granted |-> Grants(i, m)]
<1>1. i \in Server /\ m.src \in Server /\ m.term \in Nat /\ term[i] \in Nat
  BY DEF TypeOK, VoteRequests
<1>2. /\ t \in Nat /\ t >= term[i] /\ t >= m.term
      /\ m.term >= term[i] => t = m.term
      /\ m.term <= term[i] => t = term[i]
  BY <1>1 DEF Larger
<1>3. /\ term'[i] = t
      /\ vote4'[i] = IF Grants(i, m) THEN m.src ELSE IF m.term > term[i] THEN Nil ELSE vote4[i]
      /\ identity'[i] = IF m.term > term[i] THEN "follower" ELSE identity[i]
      /\ \A j \in Server \ {i} :
           term'[j] = term[j] /\ vote4'[j] = vote4[j] /\ identity'[j] = identity[j]
  BY <1>1 DEF TypeOK, HandleVoteRequest
<1>4. /\ voteRequests' = voteRequests \ {m}
      /\ voteReplies' = voteReplies \cup {answer}
      /\ ballots' = IF Grants(i, m) THEN ballots \cup {<<m.term, i, m.src>>} ELSE ballots
      /\ UNCHANGED <<voteNum, counted, leaders>>
  BY DEF HandleVoteRequest
<1>5. Grants(i, m) => m.term >= term[i] /\ (m.term > term[i] \/ vote4[i] \in {Nil, m.src})
  BY DEF Grants
<1>6. m.src # i /\ <<m.term, m.src, m.src>> \in ballots
  BY DEF ElectionInv, VoteCallsAreBacked
<1>7. /\ answer.src = i /\ answer.dst = m.src /\ answer.term = t
      /\ answer.granted = Grants(i, m)
  OBVIOUS
<1>8. \A b \in ballots : /\ b[1] \in Nat /\ b[2] \in Server /\ b[3] \in Server
                         /\ b[1] <= term[b[2]]
                         /\ b[1] = term[b[2]] => vote4[b[2]] = b[3]
  BY DEF TypeOK, ElectionInv, BallotsAreVotes
<1>9. Nil \notin Server
  BY ServerAssumption
<1>10. \A j \in Server : term'[j] >= term[j] /\ term[j] \in Nat /\ term'[j] \in Nat
  <2>1. \A j \in Server : term[j] \in Nat
    BY DEF TypeOK
  <2> HIDE DEF t
  <2> QED
    BY <1>1, <1>2, <1>3, <2>1
<1> HIDE DEF t, answer
\* An older ballot of i in the term of the vote is for the same candidate.
<1>11. ASSUME Grants(i, m), NEW b \in ballots, b[2] = i, b[1] = m.term
       PROVE  b[3] = m.src
  <2>1. m.term = term[i] /\ vote4[i] = b[3]
    BY <1>1, <1>5, <1>8, <1>11
  <2> QED
    BY <1>1, <1>5, <1>8, <1>9, <1>11, <2>1
<1>12. BallotsAreVotes'
  <2> SUFFICES ASSUME NEW b \in ballots'
               PROVE  b[1] <= term'[b[2]] /\ (b[1] = term'[b[2]] => vote4'[b[2]] = b[3])
    BY DEF BallotsAreVotes
  <2>1. CASE b \in ballots /\ b[2] # i
    BY <1>3, <1>8, <2>1
  <2>2. CASE b \in ballots /\ b[2] = i
    <3>1. b[1] <= t
      BY <1>1, <1>2, <1>8, <2>2
    <3>2. ASSUME b[1] = t PROVE vote4'[i] = b[3]
      <4>1. t = term[i] /\ vote4[i] = b[3] /\ ~(m.term > term[i])
        BY <1>1, <1>2, <1>8, <2>2, <3>2
      <4>2. CASE Grants(i, m)
        <5>1. b[1] = m.term
          BY <1>1, <1>2, <1>5, <3>2, <4>1, <4>2
        <5> QED
          BY <1>3, <1>11, <2>2, <4>2, <5>1
      <4>3. CASE ~Grants(i, m)
        BY <1>3, <4>1, <4>3
      <4> QED
        BY <4>2, <4>3
    <3> QED
      BY <1>3, <2>2, <3>1, <3>2
  <2>3. CASE Grants(i, m) /\ b = <<m.term, i, m.src>>
    <3>1. b[1] = m.term /\ b[2] = i /\ b[3] = m.src
      BY <2>3
    <3> QED
      BY <1>1, <1>2, <1>3, <2>3, <3>1
  <2> QED
    BY <1>4, <2>1, <2>2, <2>3
<1>13. OneBallotPerTerm'
  <2> SUFFICES ASSUME NEW a \in ballots', NEW b \in ballots', a[1] = b[1], a[2] = b[2]
               PROVE  a[3] = b[3]
    BY DEF OneBallotPerTerm
  <2>1. CASE a \in ballots /\ b \in ballots
    BY <2>1 DEF ElectionInv, OneBallotPerTerm
  <2> DEFINE new == <<m.term, i, m.src>>
  <2>2. new[1] = m.term /\ new[2] = i /\ new[3] = m.src
    OBVIOUS
  <2>3. CASE Grants(i, m) /\ (a = new \/ b = new)
    <3> HIDE DEF new
    <3>1. CASE a = new /\ b = new
      BY <3>1
    <3>2. CASE a = new /\ b \in ballots
      BY <1>11, <2>2, <2>3, <3>2
    <3>3. CASE b = new /\ a \in ballots
      BY <1>11, <2>2, <2>3, <3>3
    <3>4. a \in ballots \/ a = new
      BY <1>4 DEF new
    <3>5. b \in ballots \/ b = new
      BY <1>4 DEF new
    <3> QED
      BY <2>3, <3>1, <3>2, <3>3, <3>4, <3>5
  <2> QED
    BY <1>4, <2>1, <2>3
<1>14. VoteCallsAreBacked'
  <2>1. \A q \in voteRequests' : q.src # q.dst /\ <<q.term, q.src, q.src>> \in ballots'
    BY <1>4 DEF ElectionInv, VoteCallsAreBacked
  <2>2. ASSUME NEW q \in voteReplies', q.granted
        PROVE  <<q.term, q.dst, q.dst>> \in ballots' /\ <<q.term, q.src, q.dst>> \in ballots'
    <3>1. CASE q \in voteReplies
      BY <1>4, <2>2, <3>1 DEF ElectionInv, VoteCallsAreBacked
    <3>2. CASE q = answer
      <4>1. Grants(i, m) /\ t = m.term
        BY <1>1, <1>2, <1>5, <1>7, <2>2, <3>2
      <4> QED
        BY <1>4, <1>6, <1>7, <3>2, <4>1
    <3> QED
      BY <1>4, <3>1, <3>2
  <2> QED
    BY <2>1, <2>2 DEF VoteCallsAreBacked
<1>15. VoteCallsAreSingle'
  <2>1. Grants(i, m) => answer.term = m.term
    BY <1>1, <1>2, <1>5, <1>7
  <2>2. \A p, q \in voteRequests' : p.src = q.src /\ p.dst = q.dst /\ p.term = q.term => p = q
    BY <1>4 DEF ElectionInv, VoteCallsAreSingle
  <2>3. \A q \in voteReplies : ~(q.granted /\ m.src = q.dst /\ i = q.src /\ m.term = q.term)
    BY DEF ElectionInv, VoteCallsAreSingle
  <2>4. ASSUME NEW p \in voteReplies', NEW q \in voteReplies', p.granted, q.granted,
               p.src = q.src, p.dst = q.dst, p.term = q.term
        PROVE  p = q
    <3>1. CASE p \in voteReplies /\ q \in voteReplies
      BY <2>4, <3>1 DEF ElectionInv, VoteCallsAreSingle
    <3>2. CASE p = answer /\ q \in voteReplies
      BY <1>7, <2>1, <2>3, <2>4, <3>2
    <3>3. CASE q = answer /\ p \in voteReplies
      BY <1>7, <2>1, <2>3, <2>4, <3>3
    <3> QED
      BY <1>4, <3>1, <3>2, <3>3
  <2>5. ASSUME NEW p \in voteRequests', NEW q \in voteReplies'
        PROVE  ~(q.granted /\ p.src = q.dst /\ p.dst = q.src /\ p.term = q.term)
    <3>1. p \in voteRequests /\ p # m
      BY <1>4
    <3>2. CASE q \in voteReplies
      BY <3>1, <3>2 DEF ElectionInv, VoteCallsAreSingle
    <3>3. CASE q = answer
      <4>1. ~(p.src = m.src /\ p.dst = m.dst /\ p.term = m.term)
        BY <3>1 DEF ElectionInv, VoteCallsAreSingle
      <4> QED
        BY <1>7, <2>1, <3>3, <4>1
    <3> QED
      BY <1>4, <3>2, <3>3
  <2>6. ASSUME NEW p \in voteRequests', p.term = term'[p.src]
        PROVE  p.dst \notin counted'[p.src]
    <3>1. p \in voteRequests
      BY <1>4
    <3>2. <<p.term, p.src, p.src>> \in ballots
      BY <3>1 DEF ElectionInv, VoteCallsAreBacked
    <3>3. p.term \in Nat /\ p.src \in Server /\ p.term <= term[p.src]
      BY <3>2, BallotFacts DEF ElectionInv
    <3>4. p.term = term[p.src]
      BY <1>10, <2>6, <3>3
    <3> QED
      BY <1>4, <3>1, <3>4 DEF ElectionInv, VoteCallsAreSingle
  <2>7. ASSUME NEW q \in voteReplies', q.granted, q.term = term'[q.dst]
        PROVE  q.src \notin counted'[q.dst]
    <3>1. CASE q \in voteReplies
      <4>1. <<q.term, q.dst, q.dst>> \in ballots
        BY <2>7, <3>1 DEF ElectionInv, VoteCallsAreBacked
      <4>2. q.term \in Nat /\ q.dst \in Server /\ q.term <= term[q.dst]
        BY <4>1, BallotFacts DEF ElectionInv
      <4>3. q.term = term[q.dst]
        BY <1>10, <2>7, <4>2
      <4> QED
        BY <1>4, <2>7, <3>1, <4>3 DEF ElectionInv, VoteCallsAreSingle
    <3>2. CASE q = answer
      <4>1. Grants(i, m)
        BY <1>7, <2>7, <3>2
      <4>2. m.term = term[m.src]
        BY <1>1, <1>3, <1>6, <1>7, <2>1, <2>7, <3>2, <4>1
      <4>3. m.dst \notin counted[m.src]
        BY <4>2 DEF ElectionInv, VoteCallsAreSingle
      <4> QED
        BY <1>4, <1>7, <3>2, <4>3
    <3> QED
      BY <1>4, <3>1, <3>2
  <2> QED
    BY <2>2, <2>4, <2>5, <2>6, <2>7 DEF VoteCallsAreSingle
<1>16. CountIsBacked'
  <2> SUFFICES ASSUME NEW j \in Server, vote4'[j] = j
               PROVE  /\ \A v \in counted'[j] : <<term'[j], v, j>> \in ballots'
                      /\ voteNum'[j] <= Cardinality(counted'[j])
    BY DEF CountIsBacked
  <2>1. vote4[j] = j /\ term'[j] = term[j]
    <3>1. CASE j = i
      <4>1. ~Grants(i, m) /\ ~(m.term > term[i])
        BY <1>3, <1>6, <1>9, <3>1
      <4> QED
        BY <1>1, <1>2, <1>3, <3>1, <4>1
    <3>2. CASE j # i
      BY <1>3, <3>2
    <3> QED
      BY <3>1, <3>2
  <2> QED
    BY <1>4, <2>1 DEF ElectionInv, CountIsBacked
<1>17. LeadersWereElected'
  <2>1. ASSUME NEW j \in Server, identity'[j] = "leader"
        PROVE  identity[j] = "leader" /\ term'[j] = term[j]
    <3>1. CASE j = i
      BY <1>1, <1>2, <1>3, <2>1, <3>1
    <3>2. CASE j # i
      BY <1>3, <2>1, <3>2
    <3> QED
      BY <3>1, <3>2
  <2>2. \A j \in Server : identity'[j] = "leader" => <<term'[j], j>> \in leaders'
    BY <1>4, <2>1 DEF ElectionInv, LeadersWereElected
  <2>3. \A l \in leaders' : \E Q \in SUBSET Server :
          /\ Cardinality(Q) >= Majority
          /\ \A v \in Q : <<l[1], v, l[2]>> \in ballots'
    BY <1>4 DEF ElectionInv, LeadersWereElected
  <2> QED
    BY <2>2, <2>3 DEF LeadersWereElected
<1> QED
  BY <1>12, <1>13, <1>14, <1>15, <1>16, <1>17 DEF ElectionInv

\* Falling back to a newer term clears the vote and ends a leadership.
LEMMA StepDownRaises ==
  ASSUME TypeOK, NEW i \in Server, NEW t \in Nat, t > term[i], StepDown(i, t)
  PROVE  \A j \in Server :
           /\ term'[j] >= term[j]
           /\ vote4'[j] = IF term'[j] = term[j] THEN vote4[j] ELSE Nil
           /\ identity'[j] = "leader" => identity[j] = "leader" /\ term'[j] = term[j]
<1>1. /\ term'[i] = t /\ vote4'[i] = Nil /\ identity'[i] = "follower"
      /\ \A j \in Server \ {i} :
           term'[j] = term[j] /\ vote4'[j] = vote4[j] /\ identity'[j] = identity[j]
  BY DEF StepDown, TypeOK
<1>2. \A j \in Server : term[j] \in Nat
  BY DEF TypeOK
<1> QED
  BY <1>1, <1>2

\* So does following the sender of a message, if its term is newer.
LEMMA AdoptRaises ==
  ASSUME TypeOK, NEW i \in Server, NEW t \in Nat, t >= term[i], AdoptTerm(i, t),
         identity' = [identity EXCEPT ![i] = "follower"]
  PROVE  \A j \in Server :
           /\ term'[j] >= term[j]
           /\ vote4'[j] = IF term'[j] = term[j] THEN vote4[j] ELSE Nil
           /\ identity'[j] = "leader" => identity[j] = "leader" /\ term'[j] = term[j]
<1>1. \A j \in Server : term[j] \in Nat
  BY DEF TypeOK
<1>2. Larger(term[i], t) = t
  BY <1>1 DEF Larger
<1>3. /\ term'[i] = t /\ vote4'[i] = IF t > term[i] THEN Nil ELSE vote4[i]
      /\ identity'[i] = "follower"
      /\ \A j \in Server \ {i} :
           term'[j] = term[j] /\ vote4'[j] = vote4[j] /\ identity'[j] = identity[j]
  BY <1>2 DEF AdoptTerm, TypeOK
<1> QED
  BY <1>1, <1>3

\* A vote counted is of a voter not counted before, and a majority counted is one.
LEMMA VoteReplyKeeps ==
  ASSUME TypeOK, TypeOK', ElectionInv, NEW m \in voteReplies, HandleVoteReply(m.dst, m)
  PROVE  ElectionInv'
<1> DEFINE i == m.dst
<1>1. i \in Server /\ m.src \in Server /\ m.term \in Nat /\ term[i] \in Nat
  BY DEF TypeOK, VoteReplies
<1>2. /\ voteReplies' = voteReplies \ {m}
      /\ UNCHANGED <<voteRequests, ballots>>
  BY DEF HandleVoteReply
<1>3. CASE /\ m.term > term[i] /\ StepDown(i, m.term)
           /\ UNCHANGED <<voteNum, counted, leaders>>
  <2>1. \A j \in Server :
          /\ term'[j] >= term[j]
          /\ vote4'[j] = IF term'[j] = term[j] THEN vote4[j] ELSE Nil
          /\ identity'[j] = "leader" => identity[j] = "leader" /\ term'[j] = term[j]
    BY <1>1, <1>3, StepDownRaises
  <2> QED
    BY <1>2, <1>3, <2>1, ElectionFrame
<1>4. CASE UNCHANGED <<electionVars, voteNum, counted, leaders>>
  <2>1. \A j \in Server :
          /\ term'[j] >= term[j]
          /\ vote4'[j] = IF term'[j] = term[j] THEN vote4[j] ELSE Nil
          /\ identity'[j] = "leader" => identity[j] = "leader" /\ term'[j] = term[j]
    BY <1>4 DEF electionVars, TypeOK
  <2> QED
    BY <1>2, <1>4, <2>1, ElectionFrame
<1>5. CASE /\ m.term = term[i] /\ m.granted
           /\ counted' = [counted EXCEPT ![i] = @ \cup {m.src}]
           /\ CountVote(i)
  <2> DEFINE won == voteNum[i] + 1 >= Majority
  <2>1. /\ <<m.term, i, i>> \in ballots /\ <<m.term, m.src, i>> \in ballots
        /\ m.src \notin counted[i]
    BY <1>5 DEF ElectionInv, VoteCallsAreBacked, VoteCallsAreSingle
  <2>2. vote4[i] = i
    BY <1>5, <2>1, BallotFacts DEF ElectionInv
  <2>3. UNCHANGED <<term, vote4>>
    BY <1>5 DEF CountVote, TakeOffice, electionVars
  <2>4. /\ voteNum'[i] = IF won THEN 0 ELSE voteNum[i] + 1
        /\ \A j \in Server \ {i} : voteNum'[j] = voteNum[j]
    <3>1. voteNum \in [Server -> Nat]
      BY DEF TypeOK
    <3>2. voteNum' = [voteNum EXCEPT ![i] = IF won THEN 0 ELSE @ + 1]
      BY <1>5 DEF CountVote
    <3> QED
      BY <1>1, <3>1, <3>2
  <2>5. /\ counted'[i] = counted[i] \cup {m.src}
        /\ \A j \in Server \ {i} : counted'[j] = counted[j]
    <3>1. counted \in [Server -> SUBSET Server]
      BY DEF TypeOK
    <3> QED
      BY <1>1, <1>5, <3>1
  <2>6. /\ IsFiniteSet(counted'[i]) /\ counted'[i] \in SUBSET Server
        /\ Cardinality(counted[i]) \in Nat
        /\ Cardinality(counted'[i]) = Cardinality(counted[i]) + 1
    <3>1. counted[i] \in SUBSET Server /\ counted'[i] \in SUBSET Server
      BY <1>1 DEF TypeOK
    <3>2. IsFiniteSet(counted[i]) /\ IsFiniteSet(counted'[i])
      BY <3>1, FS_Subset, ServerAssumption
    <3>3. Cardinality(counted[i]) \in Nat
      BY <3>2, FS_CardinalityType
    <3> QED
      BY <2>1, <2>5, <3>1, <3>2, <3>3, FS_AddElement
  <2>7. voteNum[i] \in Nat /\ voteNum[i] <= Cardinality(counted[i])
    BY <1>1, <2>2 DEF TypeOK, ElectionInv, CountIsBacked
  <2>8. \A v \in counted'[i] : <<term[i], v, i>> \in ballots
    BY <1>1, <1>5, <2>1, <2>2, <2>5 DEF ElectionInv, CountIsBacked
  <2>9. BallotsAreVotes' /\ OneBallotPerTerm'
    BY <1>2, <2>3 DEF ElectionInv, BallotsAreVotes, OneBallotPerTerm
  <2>10. VoteCallsAreBacked'
    BY <1>2 DEF ElectionInv, VoteCallsAreBacked
  <2>11. VoteCallsAreSingle'
    <3>1. ASSUME NEW q \in voteRequests, q.term = term[q.src]
          PROVE  q.dst \notin counted'[q.src]
      <4>1. q.src \in Server
        BY DEF TypeOK, VoteRequests
      <4>2. q.dst \notin counted[q.src]
        BY <3>1 DEF ElectionInv, VoteCallsAreSingle
      <4>3. CASE q.src = i
        <5>1. q.dst # m.src
          BY <1>5, <3>1, <4>3 DEF ElectionInv, VoteCallsAreSingle
        <5> QED
          BY <2>5, <4>2, <4>3, <5>1
      <4>4. CASE q.src # i
        BY <2>5, <4>1, <4>2, <4>4
      <4> QED
        BY <4>3, <4>4
    <3>2. ASSUME NEW q \in voteReplies, q # m, q.granted, q.term = term[q.dst]
          PROVE  q.src \notin counted'[q.dst]
      <4>1. q.dst \in Server
        BY DEF TypeOK, VoteReplies
      <4>2. q.src \notin counted[q.dst]
        BY <3>2 DEF ElectionInv, VoteCallsAreSingle
      <4>3. CASE q.dst = i
        <5>1. q.src # m.src
          BY <1>5, <3>2, <4>3 DEF ElectionInv, VoteCallsAreSingle
        <5> QED
          BY <2>5, <4>2, <4>3, <5>1
      <4>4. CASE q.dst # i
        BY <2>5, <4>1, <4>2, <4>4
      <4> QED
        BY <4>3, <4>4
    <3> QED
      BY <1>2, <2>3, <3>1, <3>2 DEF ElectionInv, VoteCallsAreSingle
  <2>12. CountIsBacked'
    <3> SUFFICES ASSUME NEW j \in Server, vote4'[j] = j
                 PROVE  /\ \A v \in counted'[j] : <<term'[j], v, j>> \in ballots'
                        /\ voteNum'[j] <= Cardinality(counted'[j])
      BY DEF CountIsBacked
    <3>1. CASE j = i
      <4>1. voteNum'[i] <= Cardinality(counted'[i])
        BY <2>4, <2>6, <2>7
      <4> QED
        BY <1>2, <2>3, <2>8, <3>1, <4>1
    <3>2. CASE j # i
      BY <1>2, <2>3, <2>4, <2>5, <3>2 DEF ElectionInv, CountIsBacked
    <3> QED
      BY <3>1, <3>2
  <2>13. LeadersWereElected'
    <3>1. CASE won /\ TakeOffice(i)
      <4>1. /\ leaders' = leaders \cup {<<term[i], i>>}
            /\ \A j \in Server \ {i} : identity'[j] = identity[j]
        <5>1. DOMAIN identity = Server
          BY DEF TypeOK
        <5> QED
          BY <3>1, <5>1 DEF TakeOffice
      <4>2. Cardinality(counted'[i]) >= Majority
        <5>1. Majority \in Int
          BY FS_CardinalityType, ServerAssumption DEF Majority
        <5> QED
          BY <2>6, <2>7, <3>1, <5>1
      <4>3. \A j \in Server : identity'[j] = "leader" => <<term'[j], j>> \in leaders'
        BY <2>3, <4>1 DEF ElectionInv, LeadersWereElected
      <4>4. \A l \in leaders : \E Q \in SUBSET Server :
              /\ Cardinality(Q) >= Majority
              /\ \A v \in Q : <<l[1], v, l[2]>> \in ballots'
        BY <1>2 DEF ElectionInv, LeadersWereElected
      <4>5. \E Q \in SUBSET Server : /\ Cardinality(Q) >= Majority
                                     /\ \A v \in Q : <<term[i], v, i>> \in ballots'
        BY <1>2, <2>6, <2>8, <4>2
      <4> QED
        BY <4>1, <4>3, <4>4, <4>5 DEF LeadersWereElected
    <3>2. CASE UNCHANGED <<electionVars, leaders>>
      BY <1>2, <3>2 DEF ElectionInv, LeadersWereElected, electionVars
    <3> QED
      BY <1>5, <3>1, <3>2 DEF CountVote
  <2> QED
    BY <2>9, <2>10, <2>11, <2>12, <2>13 DEF ElectionInv
<1> QED
  BY <1>3, <1>4, <1>5 DEF HandleVoteReply

\* A handler that follows the sender of a newer term, and forgets its vote.
LEMMA FollowerKeeps ==
  ASSUME TypeOK, TypeOK', ElectionInv, NEW i \in Server, NEW t \in Nat,
         UNCHANGED <<voteNum, counted, ballots, leaders, voteRequests, voteReplies>>,
         UNCHANGED electionVars \/ identity' = [identity EXCEPT ![i] = "follower"],
         \/ UNCHANGED electionVars
         \/ t >= term[i] /\ AdoptTerm(i, t)
         \/ t > term[i] /\ StepDown(i, t)
  PROVE  ElectionInv'
<1>1. \A j \in Server :
        /\ term'[j] >= term[j]
        /\ vote4'[j] = IF term'[j] = term[j] THEN vote4[j] ELSE Nil
        /\ identity'[j] = "leader" => identity[j] = "leader" /\ term'[j] = term[j]
  <2>1. CASE UNCHANGED electionVars
    BY <2>1 DEF electionVars, TypeOK
  <2>2. CASE t >= term[i] /\ AdoptTerm(i, t) /\ identity' = [identity EXCEPT ![i] = "follower"]
    BY <2>2, AdoptRaises
  <2>3. CASE t > term[i] /\ StepDown(i, t)
    BY <2>3, StepDownRaises
  <2> QED
    BY <2>1, <2>2, <2>3
<1> QED
  BY <1>1, ElectionFrame

LEMMA InitElection == Init => ElectionInv
<1> SUFFICES ASSUME Init PROVE ElectionInv
  OBVIOUS
<1>1. ballots = {} /\ leaders = {} /\ voteRequests = {} /\ voteReplies = {}
  BY DEF Init
<1>2. /\ BallotsAreVotes /\ OneBallotPerTerm
      /\ VoteCallsAreBacked /\ VoteCallsAreSingle
  BY <1>1 DEF BallotsAreVotes, OneBallotPerTerm, VoteCallsAreBacked, VoteCallsAreSingle
<1>3. \A i \in Server : vote4[i] # i /\ identity[i] # "leader"
  BY ServerAssumption DEF Init
<1>4. CountIsBacked
  BY <1>3 DEF CountIsBacked
<1>5. LeadersWereElected
  BY <1>1, <1>3 DEF LeadersWereElected
<1> QED
  BY <1>2, <1>4, <1>5 DEF ElectionInv

\* Every step of Spec keeps the election invariant.
LEMMA ElectionKept ==
  ASSUME TypeOK, TypeOK', ElectionInv, [Step]_vars
  PROVE  ElectionInv'
<1> DEFINE Rest == UNCHANGED <<voteNum, counted, ballots, leaders, voteRequests, voteReplies>>
<1>1. ASSUME UNCHANGED electionVars, Rest
      PROVE  ElectionInv'
  <2>1. PICK i \in Server : TRUE
    BY ServerAssumption
  <2> QED
    BY <1>1, <2>1, FollowerKeeps
<1>2. CASE UNCHANGED vars
  BY <1>1, <1>2 DEF vars, voteCalls, history
<1>3. CASE \E i \in Server : Stand4Election(i)
  BY <1>3, CandidacyKeeps
<1>4. ASSUME NEW i \in Server, Heartbeat(i) PROVE ElectionInv'
  BY <1>1, <1>4 DEF Heartbeat, voteCalls, history
<1>5. ASSUME NEW i \in Server, ApplierTick(i) PROVE ElectionInv'
  BY <1>1, <1>5 DEF ApplierTick, voteCalls, history
<1>6. ASSUME NEW i \in Server, NEW c \in Command, Execute(i, c) PROVE ElectionInv'
  BY <1>1, <1>6 DEF Execute, voteCalls, history
<1>7. ASSUME NEW i \in Server, NEW index \in 1..MaxIndex, PersistSnapshot(i, index)
      PROVE  ElectionInv'
  BY <1>1, <1>7 DEF PersistSnapshot, voteCalls, history
<1>8. CASE \E m \in voteRequests : HandleVoteRequest(m.dst, m)
  BY <1>8, VoteRequestKeeps
<1>9. CASE \E m \in voteReplies : HandleVoteReply(m.dst, m)
  BY <1>9, VoteReplyKeeps
<1>10. ASSUME NEW m \in appendRequests, HandleAppendEntries(m.dst, m) PROVE ElectionInv'
  <2>1. m.dst \in Server /\ m.term \in Nat
    BY DEF TypeOK, AppendRequests
  <2>2. Rest
    BY <1>10 DEF HandleAppendEntries, voteCalls, history
  <2>3. \/ UNCHANGED electionVars
        \/ /\ m.term >= term[m.dst] /\ AdoptTerm(m.dst, m.term)
           /\ identity' = [identity EXCEPT ![m.dst] = "follower"]
    BY <1>10 DEF HandleAppendEntries
  <2> QED
    BY <2>1, <2>2, <2>3, FollowerKeeps
<1>11. ASSUME NEW m \in appendReplies, HandleAppendReply(m.dst, m) PROVE ElectionInv'
  <2>1. m.dst \in Server /\ m.term \in Nat
    BY DEF TypeOK, AppendReplies
  <2>2. Rest
    BY <1>11 DEF HandleAppendReply, voteCalls, history
  <2>3. \/ UNCHANGED electionVars
        \/ m.term > term[m.dst] /\ StepDown(m.dst, m.term)
    BY <1>11 DEF HandleAppendReply
  <2>4. StepDown(m.dst, m.term) => identity' = [identity EXCEPT ![m.dst] = "follower"]
    BY DEF StepDown
  <2> QED
    BY <2>1, <2>2, <2>3, <2>4, FollowerKeeps
<1>12. ASSUME NEW th \in snapshotThreads, SendSnapshot(th.src, th) PROVE ElectionInv'
  BY <1>1, <1>12 DEF SendSnapshot, voteCalls, history
<1>13. ASSUME NEW m \in snapshotRequests, HandleInstallSnapshot(m.dst, m) PROVE ElectionInv'
  <2>1. m.dst \in Server /\ m.term \in Nat
    BY DEF TypeOK, SnapshotRequests
  <2>2. Rest
    BY <1>13 DEF HandleInstallSnapshot, voteCalls, history
  <2>3. \/ UNCHANGED electionVars
        \/ /\ m.term >= term[m.dst] /\ AdoptTerm(m.dst, m.term)
           /\ identity' = [identity EXCEPT ![m.dst] = "follower"]
    BY <1>13 DEF HandleInstallSnapshot
  <2> QED
    BY <2>1, <2>2, <2>3, FollowerKeeps
<1>14. ASSUME NEW m \in snapshotReplies, HandleSnapshotReply(m.dst, m) PROVE ElectionInv'
  <2>1. m.dst \in Server /\ m.term \in Nat
    BY DEF TypeOK, SnapshotReplies
  <2>2. Rest
    BY <1>14 DEF HandleSnapshotReply, voteCalls, history
  <2>3. \/ UNCHANGED electionVars
        \/ m.term > term[m.dst] /\ StepDown(m.dst, m.term)
    BY <1>14 DEF HandleSnapshotReply
  <2>4. StepDown(m.dst, m.term) => identity' = [identity EXCEPT ![m.dst] = "follower"]
    BY DEF StepDown
  <2> QED
    BY <2>1, <2>2, <2>3, <2>4, FollowerKeeps
<1> QED
  BY <1>2, <1>3, <1>4, <1>5, <1>6, <1>7, <1>8, <1>9, <1>10, <1>11, <1>12, <1>13, <1>14
     DEF Step

\* Two majorities of the cluster share a voter.
LEMMA MajoritiesMeet ==
  ASSUME NEW P \in SUBSET Server, NEW Q \in SUBSET Server,
         Cardinality(P) >= Majority, Cardinality(Q) >= Majority
  PROVE  P \cap Q # {}
<1>1. Cardinality(Server) \in Nat /\ Cardinality(P) \in Nat /\ Cardinality(Q) \in Nat
  BY FS_Subset, FS_CardinalityType, ServerAssumption
<1>2. Cardinality(P) + Cardinality(Q) > Cardinality(Server)
  BY <1>1 DEF Majority
<1> QED
  BY <1>2, FS_MajoritiesIntersect, ServerAssumption

\* The election invariant is what ElectionSafety needs: the common voter of two
\* leaders of a term has one ballot in it.
LEMMA ElectionInvSafe ==
  ASSUME TypeOK, ElectionInv
  PROVE  ElectionSafety
<1>1. ASSUME NEW a \in leaders, NEW b \in leaders, a[1] = b[1]
      PROVE  a = b
  <2>1. PICK P \in SUBSET Server : /\ Cardinality(P) >= Majority
                                   /\ \A v \in P : <<a[1], v, a[2]>> \in ballots
    BY DEF ElectionInv, LeadersWereElected
  <2>2. PICK Q \in SUBSET Server : /\ Cardinality(Q) >= Majority
                                   /\ \A v \in Q : <<b[1], v, b[2]>> \in ballots
    BY DEF ElectionInv, LeadersWereElected
  <2>3. PICK v : v \in P /\ v \in Q
    BY <2>1, <2>2, MajoritiesMeet
  <2> DEFINE p == <<a[1], v, a[2]>>
             q == <<b[1], v, b[2]>>
  <2>4. p \in ballots /\ q \in ballots
    BY <2>1, <2>2, <2>3
  <2>5. p[1] = a[1] /\ p[2] = v /\ p[3] = a[2] /\ q[1] = b[1] /\ q[2] = v /\ q[3] = b[2]
    OBVIOUS
  <2> HIDE DEF p, q
  <2>6. a[2] = b[2]
    BY <1>1, <2>4, <2>5 DEF ElectionInv, OneBallotPerTerm
  <2>7. a \in Nat \X Server /\ b \in Nat \X Server
    BY DEF TypeOK
  <2> QED
    BY <1>1, <2>6, <2>7
<1> QED
  BY <1>1 DEF ElectionSafety, ElectionInv, LeadersWereElected

\* Every behaviour of Spec is one of CrashSpec without restarts.
LEMMA SpecTypes == Spec => []TypeOK
<1>1. [Step]_vars => [CrashStep]_vars
  BY DEF CrashStep
<1> QED
  BY <1>1, TypeCorrect, PTL DEF Spec, CrashSpec

\* Every leader holds the ballots of a majority of its term, nobody casts two in
\* one, and the shared vote counter never runs ahead of them.
THEOREM ElectionsAreBacked == Spec => []ElectionInv
<1>1. TypeOK /\ TypeOK' /\ ElectionInv /\ [Step]_vars => ElectionInv'
  BY ElectionKept
<1> QED
  BY <1>1, InitElection, SpecTypes, PTL DEF Spec

\* As long as no process ends, a term has at most one leader, in every cluster and
\* however requests, replies and vote threads interleave.
THEOREM OneLeaderPerTerm == Spec => []ElectionSafety
<1>1. TypeOK /\ ElectionInv => ElectionSafety
  BY ElectionInvSafe
<1> QED
  BY <1>1, SpecTypes, ElectionsAreBacked, PTL
=============================================================================
