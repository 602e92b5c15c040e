---------------------------- MODULE RaftLogProofs ----------------------------
(***************************************************************************)
(* Proof that an index and a term determine an entry on every node and in  *)
(* every append call, as long as no process ends.  Entries are created by  *)
(* Execute only, behind the last one of the leader of their term, and that *)
(* leader is the only one of the term (OneLeaderPerTerm) and never cuts    *)
(* the end of its log (LogsGrow): all other handlers pass entries on at    *)
(* the index they came with.                                               *)
(***************************************************************************)
EXTENDS RaftElectionProofs, RaftNodeProofs

\* Where an entry is placed.
LEMMA PlacedMembers ==
  \A p : p \in Placed <=> \/ \E i \in Server : p \in LogEntries(i)
                          \/ \E m \in appendRequests : p \in CallEntries(m)
<1>1. \A p : p \in Logged <=> \E i \in Server : p \in LogEntries(i)
  BY DEF Logged
<1>2. \A p : p \in Sent <=> \E m \in appendRequests : p \in CallEntries(m)
  BY DEF Sent
<1> QED
  BY <1>1, <1>2 DEF Placed

LEMMA PlacedTypes ==
  ASSUME TypeOK
  PROVE  /\ \A i \in Server : LogEntries(i) \subseteq Nat \X Entries
         /\ Placed \subseteq Nat \X Entries
<1>1. ASSUME NEW i \in Server, NEW p \in LogEntries(i)
      PROVE  p \in Nat \X Entries
  <2>1. logs[i] \in Seq(Entries) /\ lastSnapshotIndex[i] \in Nat
    BY DEF TypeOK
  <2>2. PICK k \in 1..Len(logs[i]) : p = <<lastSnapshotIndex[i] + k, logs[i][k]>>
    BY <1>1 DEF LogEntries
  <2>3. logs[i][k] \in Entries /\ lastSnapshotIndex[i] + k \in Nat
    BY <2>1, ElementOfSeq, LenProperties
  <2> QED
    BY <2>2, <2>3
<1>2. ASSUME NEW m \in appendRequests, NEW p \in CallEntries(m)
      PROVE  p \in Nat \X Entries
  <2>1. m.entries \in Seq(Entries) /\ m.prevIndex \in Nat
    BY DEF TypeOK, AppendRequests
  <2>2. PICK k \in 1..Len(m.entries) : p = <<m.prevIndex + k, m.entries[k]>>
    BY <1>2 DEF CallEntries
  <2>3. m.entries[k] \in Entries /\ m.prevIndex + k \in Nat
    BY <2>1, ElementOfSeq, LenProperties
  <2> QED
    BY <2>2, <2>3
<1> QED
  BY <1>1, <1>2, PlacedMembers

LEMMA PlacedParts ==
  /\ \A i \in Server : LogEntries(i) \subseteq Placed
  /\ \A m \in appendRequests : CallEntries(m) \subseteq Placed
BY PlacedMembers

\* What is placed in the next state, part by part.
LEMMA PlacedNext ==
  ASSUME NEW S, \A i \in Server : LogEntries(i)' \subseteq S,
         \A m \in appendRequests' : CallEntries(m) \subseteq S
  PROVE  Placed' \subseteq S
<1>1. Logged' \subseteq S
  BY DEF Logged
<1>2. Sent' \subseteq S
  BY DEF Sent, CallEntries
<1> QED
  BY <1>1, <1>2 DEF Placed

LEMMA LogEntriesOfOthers ==
  ASSUME NEW j \in Server, logs'[j] = logs[j], lastSnapshotIndex'[j] = lastSnapshotIndex[j]
  PROVE  LogEntries(j)' = LogEntries(j)
BY DEF LogEntries

LEMMA PlacedFrame ==
  ASSUME UNCHANGED <<logs, lastSnapshotIndex>>, appendRequests' \subseteq appendRequests
  PROVE  Placed' \subseteq Placed
<1>1. \A i \in Server : LogEntries(i)' \subseteq Placed
  BY LogEntriesOfOthers, PlacedParts
<1>2. \A m \in appendRequests' : CallEntries(m) \subseteq Placed
  BY PlacedParts
<1> QED
  BY <1>1, <1>2, PlacedNext

\* An index reached stays reached until a restart.
LEMMA ReachedStays ==
  ASSUME TypeOK, TypeOK', \A j \in Server : LogGrows(j), UNCHANGED boot
  PROVE  \A j \in Server, x \in Nat : x <= LastLogIndex(j) => x <= LastLogIndex(j)'
<1> TAKE j \in Server, x \in Nat
<1>1. LastLogIndex(j) \in Nat
  BY LogEndTypes
<1>2. LastLogIndex(j)' \in Nat
  <2>1. logs'[j] \in Seq(Entries) /\ lastSnapshotIndex'[j] \in Nat
    BY DEF TypeOK
  <2> QED
    BY <2>1, LenProperties DEF LastLogIndex
<1>3. LastLogIndex(j)' >= LastLogIndex(j)
  BY DEF LogGrows
<1> QED
  BY <1>1, <1>2, <1>3

\* The leader behind an entry stays behind it.
LEMMA LeaderStays ==
  ASSUME TypeOK, TypeOK', EntriesInv, leaders \subseteq leaders',
         \A j \in Server : LogGrows(j), UNCHANGED boot, NEW p \in Placed
  PROVE  \E l \in leaders' : l[1] = p[2].term /\ p[1] <= LastLogIndex(l[2])'
<1>1. PICK l \in leaders : l[1] = p[2].term /\ p[1] <= LastLogIndex(l[2])
  BY DEF EntriesInv
<1>2. l \in Nat \X Server /\ p \in Nat \X Entries
  BY PlacedTypes DEF TypeOK
<1>3. PICK j \in Server : j = l[2]
  BY <1>2
<1>4. PICK x \in Nat : x = p[1]
  BY <1>2
<1>5. x <= LastLogIndex(j)
  BY <1>1, <1>3, <1>4
<1>6. x <= LastLogIndex(j)'
  BY <1>5, ReachedStays
<1> QED
  BY <1>1, <1>3, <1>4, <1>6

\* No new entry: the invariant is kept while no log is cut at its end.
LEMMA EntriesFrame ==
  ASSUME TypeOK, TypeOK', EntriesInv, Placed' \subseteq Placed, leaders \subseteq leaders',
         \A j \in Server : LogGrows(j), UNCHANGED boot,
         \A j \in Server : fault'[j] # "command conflict"
  PROVE  EntriesInv'
<1>1. \A p \in Placed' : \E l \in leaders' :
        l[1] = p[2].term /\ p[1] <= LastLogIndex(l[2])'
  BY LeaderStays
<1>2. \A p, q \in Placed' : p[1] = q[1] /\ p[2].term = q[2].term => p[2] = q[2]
  BY DEF EntriesInv
<1> QED
  BY <1>1, <1>2 DEF EntriesInv

-----------------------------------------------------------------------------
(* Where the operators of the log put entries. *)

LEMMA SubSeqEntry ==
  ASSUME NEW S, NEW s \in Seq(S), NEW from \in 1..Len(s)+1
  PROVE  /\ Len(SubSeq(s, from, Len(s))) = Len(s) - from + 1
         /\ \A k \in 1..(Len(s) - from + 1) :
              /\ from + k - 1 \in 1..Len(s)
              /\ SubSeq(s, from, Len(s))[k] = s[from + k - 1]
<1>1. Len(s) \in Nat
  BY LenProperties
<1>2. Len(SubSeq(s, from, Len(s))) = Len(s) - from + 1
  BY <1>1, SubSeqProperties
<1>3. ASSUME NEW k \in 1..(Len(s) - from + 1)
      PROVE  /\ from + k - 1 \in 1..Len(s)
             /\ SubSeq(s, from, Len(s))[k] = s[from + k - 1]
  BY <1>1, <1>3, SubSeqProperties
<1> QED
  BY <1>2, <1>3

LEMMA SuffixEntries ==
  ASSUME NEW i \in Server, logs[i] \in Seq(Entries), lastSnapshotIndex[i] \in Nat,
         NEW prev \in lastSnapshotIndex[i]..LastLogIndex(i)
  PROVE  \A k \in 1..Len(Suffix(i, prev)) : <<prev + k, Suffix(i, prev)[k]>> \in LogEntries(i)
<1>1. Len(logs[i]) \in Nat
  BY LenProperties
<1>2. PICK from \in 1..Len(logs[i]) + 1 : prev = lastSnapshotIndex[i] + from - 1
  <2> DEFINE first == prev - lastSnapshotIndex[i] + 1
  <2>1. first \in 1..Len(logs[i]) + 1 /\ prev = lastSnapshotIndex[i] + first - 1
    BY <1>1 DEF LastLogIndex
  <2> QED
    BY <2>1
<1>3. Suffix(i, prev) = SubSeq(logs[i], from, Len(logs[i]))
  <2>1. prev - lastSnapshotIndex[i] + 1 = from
    BY <1>1, <1>2
  <2> QED
    BY <2>1 DEF Suffix
<1>4. Len(Suffix(i, prev)) = Len(logs[i]) - from + 1
  BY <1>3, SubSeqEntry
<1>5. \A k \in 1..(Len(logs[i]) - from + 1) :
        /\ from + k - 1 \in 1..Len(logs[i])
        /\ Suffix(i, prev)[k] = logs[i][from + k - 1]
  BY <1>3, SubSeqEntry
<1>6. ASSUME NEW k \in 1..Len(Suffix(i, prev))
      PROVE  <<prev + k, Suffix(i, prev)[k]>> \in LogEntries(i)
  <2>1. k \in 1..(Len(logs[i]) - from + 1)
    BY <1>4
  <2>2. PICK at \in 1..Len(logs[i]) : at = from + k - 1 /\ Suffix(i, prev)[k] = logs[i][at]
    BY <1>5, <2>1
  <2>3. lastSnapshotIndex[i] + at = prev + k
    <3>1. at = from + k - 1 /\ k \in Int /\ prev = lastSnapshotIndex[i] + from - 1
      BY <1>2, <2>1, <2>2
    <3> QED
      BY <1>1, <3>1
  <2> QED
    BY <2>2, <2>3 DEF LogEntries
<1> QED
  BY <1>6

LEMMA DiscardEntries ==
  ASSUME NEW i \in Server, logs[i] \in Seq(Entries), lastSnapshotIndex[i] \in Nat,
         NEW index \in Nat, index >= lastSnapshotIndex[i]
  PROVE  \A k \in 1..Len(Discard(i, index)) :
           <<index + k, Discard(i, index)[k]>> \in LogEntries(i)
<1>1. LastLogIndex(i) \in Nat /\ LastLogIndex(i) >= lastSnapshotIndex[i]
  BY LenProperties DEF LastLogIndex
<1>2. CASE index <= LastLogIndex(i)
  <2>1. Discard(i, index) = Suffix(i, index)
    BY <1>2 DEF Discard, Smaller
  <2>2. index \in lastSnapshotIndex[i]..LastLogIndex(i)
    BY <1>1, <1>2
  <2> QED
    BY <2>1, <2>2, SuffixEntries
<1>3. CASE index > LastLogIndex(i)
  <2>1. index + Len(Discard(i, index)) = index /\ Len(Discard(i, index)) \in Nat
    BY <1>1, <1>3, DiscardTypes, LenProperties DEF Larger
  <2> QED
    BY <2>1
<1> QED
  BY <1>1, <1>2, <1>3

\* Merging takes every entry from the log or from the call, at its index.
LEMMA MergedEntries ==
  ASSUME NEW i \in Server, logs[i] \in Seq(Entries), lastSnapshotIndex[i] \in Nat,
         NEW m, m.prevIndex \in lastSnapshotIndex[i]..LastLogIndex(i),
         m.entries \in Seq(Entries)
  PROVE  \A k \in 1..Len(Merged(i, m.prevIndex, m.entries)) :
           <<lastSnapshotIndex[i] + k, Merged(i, m.prevIndex, m.entries)[k]>>
             \in LogEntries(i) \cup CallEntries(m)
<1> DEFINE from == Offset(i, m.prevIndex)
           till == from + Len(m.entries)
           length == Larger(Len(logs[i]), till)
           Taken(x) == /\ from < x /\ x <= till
                       /\ x > Len(logs[i]) \/ logs[i][x].term # m.entries[x - from].term
           at(x) == IF Taken(x) THEN m.entries[x - from] ELSE logs[i][x]
<1>1. Len(logs[i]) \in Nat /\ Len(m.entries) \in Nat
  BY LenProperties
<1>2. from \in 0..Len(logs[i]) /\ lastSnapshotIndex[i] + from = m.prevIndex
  BY <1>1 DEF Offset, LastLogIndex
<1>3. length \in Nat
  BY <1>1, <1>2 DEF Larger
<1>4. Merged(i, m.prevIndex, m.entries) = [x \in 1..length |-> at(x)]
  BY DEF Merged
<1>5. Len(Merged(i, m.prevIndex, m.entries)) = length
  <2> HIDE DEF length, at
  <2>1. Merged(i, m.prevIndex, m.entries) \in Seq(Entries)
    BY MergedTypes
  <2> QED
    BY <1>3, <1>4, <2>1, LenProperties
<1> SUFFICES ASSUME NEW k \in 1..length
             PROVE  <<lastSnapshotIndex[i] + k, Merged(i, m.prevIndex, m.entries)[k]>>
                      \in LogEntries(i) \cup CallEntries(m)
  BY <1>5
<1>6. CASE Taken(k)
  <2>1. PICK n \in 1..Len(m.entries) : k = from + n
    <3>1. k - from \in 1..Len(m.entries) /\ k = from + (k - from)
      BY <1>1, <1>2, <1>3, <1>6
    <3> QED
      BY <3>1
  <2>2. k - from = n /\ m.prevIndex + n = lastSnapshotIndex[i] + k
    <3> HIDE DEF from
    <3> QED
      BY <1>1, <1>2, <2>1
  <2>3. at(k) = m.entries[n]
    BY <1>6, <2>2
  <2> HIDE DEF at, length
  <2>4. Merged(i, m.prevIndex, m.entries)[k] = m.entries[n]
    BY <1>4, <2>3
  <2> QED
    BY <2>1, <2>2, <2>4 DEF CallEntries
<1>7. CASE ~Taken(k)
  <2>1. k \in 1..Len(logs[i])
    BY <1>1, <1>2, <1>3, <1>7 DEF Larger
  <2>2. at(k) = logs[i][k]
    BY <1>7
  <2> HIDE DEF at, length
  <2>3. Merged(i, m.prevIndex, m.entries)[k] = logs[i][k]
    BY <1>4, <2>2
  <2> QED
    BY <2>1, <2>3 DEF LogEntries
<1> QED
  BY <1>6, <1>7

-----------------------------------------------------------------------------
(* The steps. *)

\* The leader of a term has its last entry: nobody else logs one of that term.
LEMMA EntriesBelowLeader ==
  ASSUME TypeOK, EntriesInv, ElectionSafety, NEW i \in Server, identity[i] = "leader",
         NEW p \in Placed, p[2].term = term[i]
  PROVE  p[1] <= LastLogIndex(i)
<1>1. PICK l \in leaders : l[1] = p[2].term /\ p[1] <= LastLogIndex(l[2])
  BY DEF EntriesInv
<1> DEFINE own == <<term[i], i>>
<1>2. own \in leaders /\ own[1] = l[1] /\ own[2] = i
  BY <1>1 DEF ElectionSafety
<1> HIDE DEF own
<1>3. l = own
  BY <1>2 DEF ElectionSafety
<1> QED
  BY <1>1, <1>2, <1>3

\* A new entry is placed behind all of its term.
LEMMA ExecuteEntries ==
  ASSUME TypeOK, TypeOK', EntriesInv, ElectionSafety, \A j \in Server : LogGrows(j),
         NEW i \in Server, NEW c \in Command, Execute(i, c)
  PROVE  EntriesInv'
<1> DEFINE e == [term |-> term[i], command |-> c]
           index == LastLogIndex(i) + 1
           new == <<index, e>>
<1>1. /\ logs' = [logs EXCEPT ![i] = Append(logs[i], e)]
      /\ UNCHANGED <<lastSnapshotIndex, appendRequests, leaders, fault, boot, term>>
      /\ identity[i] = "leader"
  BY DEF Execute, appendCalls, history, electionVars
<1>2. /\ logs \in [Server -> Seq(Entries)] /\ lastSnapshotIndex[i] \in Nat
      /\ logs[i] \in Seq(Entries) /\ Len(logs[i]) \in Nat
      /\ e \in Entries /\ index \in Nat /\ LastLogIndex(i) \in Nat
  <2>1. /\ logs \in [Server -> Seq(Entries)] /\ lastSnapshotIndex[i] \in Nat
        /\ logs[i] \in Seq(Entries) /\ e \in Entries
    BY DEF TypeOK, Entries
  <2> QED
    BY <2>1, LenProperties DEF LastLogIndex
<1>3. new[1] = index /\ new[2] = e /\ e.term = term[i]
  OBVIOUS
<1> HIDE DEF e
<1>4. logs'[i] = Append(logs[i], e)
  BY <1>1, <1>2
<1>5. /\ index = lastSnapshotIndex[i] + Len(logs[i]) + 1
      /\ Len(logs'[i]) = Len(logs[i]) + 1
      /\ LastLogIndex(i)' = index
  <2>1. index = lastSnapshotIndex[i] + Len(logs[i]) + 1
    BY <1>2 DEF LastLogIndex
  <2>2. Len(logs'[i]) = Len(logs[i]) + 1
    BY <1>2, <1>4, AppendProperties
  <2>3. LastLogIndex(i)' = lastSnapshotIndex[i] + Len(logs'[i])
    BY <1>1 DEF LastLogIndex
  <2> HIDE DEF index
  <2>4. lastSnapshotIndex[i] + Len(logs'[i]) = index
    <3>1. Len(logs[i]) \in Nat /\ lastSnapshotIndex[i] \in Nat
      BY <1>2
    <3> QED
      BY <2>1, <2>2, <3>1
  <2> QED
    BY <2>1, <2>2, <2>3, <2>4
<1>6. LogEntries(i)' \subseteq LogEntries(i) \cup {new}
  <2> SUFFICES ASSUME NEW k \in 1..Len(logs'[i])
               PROVE  <<lastSnapshotIndex[i] + k, logs'[i][k]>> \in LogEntries(i) \cup {new}
    BY <1>1 DEF LogEntries
  <2>1. CASE k \in 1..Len(logs[i])
    <3>1. logs'[i][k] = logs[i][k]
      BY <1>2, <1>4, <2>1, AppendProperties
    <3> QED
      BY <2>1, <3>1 DEF LogEntries
  <2>2. CASE k = Len(logs[i]) + 1
    <3>1. logs'[i][k] = e
      BY <1>2, <1>4, <2>2, AppendProperties
    <3>2. lastSnapshotIndex[i] + k = index
      <4> HIDE DEF index
      <4> QED
        BY <1>2, <1>5, <2>2
    <3> QED
      BY <3>1, <3>2
  <2> QED
    BY <1>2, <1>5, <2>1, <2>2
<1>7. Placed' \subseteq Placed \cup {new}
  <2>1. ASSUME NEW j \in Server, j # i
        PROVE  LogEntries(j)' = LogEntries(j)
    BY <1>1, <1>2, <2>1 DEF LogEntries
  <2>2. \A j \in Server : LogEntries(j)' \subseteq Placed \cup {new}
    BY <1>6, <2>1, PlacedParts
  <2>3. \A m \in appendRequests' : CallEntries(m) \subseteq Placed \cup {new}
    BY <1>1, PlacedParts
  <2> HIDE DEF new
  <2> QED
    BY <2>2, <2>3, PlacedNext
<1> HIDE DEF new, index
<1>8. \A p \in Placed : p[2].term = term[i] => p[1] < index
  <2> SUFFICES ASSUME NEW p \in Placed, p[2].term = term[i]
               PROVE  p[1] < index
    OBVIOUS
  <2>1. p[1] <= LastLogIndex(i) /\ p[1] \in Nat
    BY <1>1, EntriesBelowLeader, PlacedTypes
  <2> QED
    BY <1>2, <2>1 DEF index
<1>9. \A p, q \in Placed' : p[1] = q[1] /\ p[2].term = q[2].term => p[2] = q[2]
  <2> SUFFICES ASSUME NEW p \in Placed \cup {new}, NEW q \in Placed \cup {new},
                      p[1] = q[1], p[2].term = q[2].term
               PROVE  p[2] = q[2]
    BY <1>7
  <2>1. ~(index < index)
    BY <1>2
  <2>2. p \in Placed /\ q \in Placed => p[2] = q[2]
    BY DEF EntriesInv
  <2>3. p = new => q \notin Placed
    BY <1>3, <1>8, <2>1
  <2>4. q = new => p \notin Placed
    BY <1>3, <1>8, <2>1
  <2> QED
    BY <2>2, <2>3, <2>4
<1>10. ASSUME NEW p \in Placed'
       PROVE  \E l \in leaders' : l[1] = p[2].term /\ p[1] <= LastLogIndex(l[2])'
  <2>1. CASE p \in Placed
    <3>1. leaders \subseteq leaders' /\ UNCHANGED boot
      BY <1>1
    <3> QED
      BY <2>1, <3>1, LeaderStays
  <2>2. CASE p = new
    <3>1. PICK l \in leaders' : l[1] = term[i] /\ l[2] = i
      <4>1. <<term[i], i>> \in leaders'
        BY <1>1 DEF ElectionSafety
      <4> QED
        BY <4>1
    <3>2. PICK x \in Nat : x = index
      BY <1>2
    <3>3. p[1] = x /\ p[2].term = term[i] /\ x <= LastLogIndex(i)'
      BY <1>3, <1>5, <2>2, <3>2
    <3> QED
      BY <3>1, <3>3
  <2> QED
    BY <1>7, <2>1, <2>2
<1>11. \A j \in Server : fault'[j] # "command conflict"
  BY <1>1 DEF EntriesInv
<1> QED
  BY <1>9, <1>10, <1>11 DEF EntriesInv

\* A heartbeat sends entries of the log at their indexes.
LEMMA HeartbeatEntries ==
  ASSUME TypeOK, NEW i \in Server, Heartbeat(i)
  PROVE  Placed' \subseteq Placed
<1>1. UNCHANGED <<logs, lastSnapshotIndex>>
  BY DEF Heartbeat, logVars
<1>2. \A j \in Server : LogEntries(j)' \subseteq Placed
  BY <1>1, LogEntriesOfOthers, PlacedParts
<1>3. logs[i] \in Seq(Entries) /\ lastSnapshotIndex[i] \in Nat
  BY DEF TypeOK
<1>4. ASSUME NEW m \in appendRequests', m \notin appendRequests
      PROVE  CallEntries(m) \subseteq Placed
  <2>1. PICK j \in Peers(i) : /\ m = AppendRequest(i, j, round[i] + 1)
                              /\ ~(nextIndex[i][j] <= lastSnapshotIndex[i])
                              /\ ~(nextIndex[i][j] > LastLogIndex(i) + 1)
    BY <1>4 DEF Heartbeat
  <2>2. PICK prev \in Nat : prev = nextIndex[i][j] - 1 /\ prev \in lastSnapshotIndex[i]..LastLogIndex(i)
    <3>1. nextIndex[i][j] \in Nat
      BY <2>1 DEF TypeOK, Peers
    <3>2. LastLogIndex(i) \in Nat
      BY LogEndTypes
    <3> DEFINE next == nextIndex[i][j]
               last == LastLogIndex(i)
               first == lastSnapshotIndex[i]
    <3>3. ~(next <= first) /\ ~(next > last + 1)
      BY <2>1
    <3>4. next \in Nat /\ last \in Nat /\ first \in Nat
      BY <1>3, <3>1, <3>2
    <3> HIDE DEF next, last, first
    <3>5. next - 1 \in Nat /\ next - 1 \in first..last
      BY <3>3, <3>4
    <3> QED
      BY <3>5 DEF next, last, first
  <2>3. m.prevIndex = prev /\ m.entries = Suffix(i, prev)
    BY <2>1, <2>2 DEF AppendRequest
  <2>4. \A k \in 1..Len(Suffix(i, prev)) : <<prev + k, Suffix(i, prev)[k]>> \in LogEntries(i)
    BY <1>3, <2>2, SuffixEntries
  <2>5. CallEntries(m) \subseteq LogEntries(i)
    BY <2>3, <2>4 DEF CallEntries
  <2> QED
    BY <2>5, PlacedParts
<1>5. \A m \in appendRequests' : CallEntries(m) \subseteq Placed
  BY <1>4, PlacedParts
<1> QED
  BY <1>2, <1>5, PlacedNext

\* Only the log of i changes, to entries that were placed before, and no call is new.
LEMMA OneLogPlaced ==
  ASSUME TypeOK, NEW i \in Server, appendRequests' \subseteq appendRequests,
         \A j \in Server \ {i} :
           logs'[j] = logs[j] /\ lastSnapshotIndex'[j] = lastSnapshotIndex[j],
         \A k \in 1..Len(logs'[i]) : <<lastSnapshotIndex'[i] + k, logs'[i][k]>> \in Placed
  PROVE  Placed' \subseteq Placed
<1>1. LogEntries(i)' \subseteq Placed
  BY DEF LogEntries
<1>2. ASSUME NEW j \in Server
      PROVE  LogEntries(j)' \subseteq Placed
  <2>1. CASE j = i
    BY <1>1, <2>1
  <2>2. CASE j # i
    BY <2>2, LogEntriesOfOthers, PlacedParts
  <2> QED
    BY <2>1, <2>2
<1>3. \A m \in appendRequests' : CallEntries(m) \subseteq Placed
  BY PlacedParts
<1> QED
  BY <1>2, <1>3, PlacedNext

\* An entry received that meets a logged one of its index and term is that entry.
LEMMA NoConflict ==
  ASSUME TypeOK, EntriesInv, NEW i \in Server, NEW m \in appendRequests, Accepts(i, m)
  PROVE  ~CommandConflict(i, m.prevIndex, m.entries)
<1> SUFFICES ASSUME NEW n \in 1..Len(m.entries), NEW k, k = Offset(i, m.prevIndex) + n,
                    k <= Len(logs[i]), logs[i][k].term = m.entries[n].term,
                    logs[i][k].command # m.entries[n].command
             PROVE  FALSE
  BY DEF CommandConflict
<1>1. /\ lastSnapshotIndex[i] \in Nat /\ Len(logs[i]) \in Nat
      /\ m.prevIndex \in Nat /\ Len(m.entries) \in Nat
  <2>1. logs[i] \in Seq(Entries) /\ lastSnapshotIndex[i] \in Nat
    BY DEF TypeOK
  <2>2. m.entries \in Seq(Entries) /\ m.prevIndex \in Nat
    BY DEF TypeOK, AppendRequests
  <2> QED
    BY <2>1, <2>2, LenProperties
<1>2. lastSnapshotIndex[i] <= m.prevIndex
  BY DEF Accepts
<1>3. k \in 1..Len(logs[i]) /\ lastSnapshotIndex[i] + k = m.prevIndex + n
  BY <1>1, <1>2 DEF Offset
<1> DEFINE p == <<lastSnapshotIndex[i] + k, logs[i][k]>>
           q == <<m.prevIndex + n, m.entries[n]>>
<1>4. p \in Placed /\ q \in Placed
  <2>1. p \in LogEntries(i) /\ q \in CallEntries(m)
    BY <1>3 DEF LogEntries, CallEntries
  <2> QED
    BY <2>1, PlacedParts
<1>5. p[1] = q[1] /\ p[2] = logs[i][k] /\ q[2] = m.entries[n]
  BY <1>3
<1> HIDE DEF p, q
<1>6. p[2] = q[2]
  BY <1>4, <1>5 DEF EntriesInv
<1> QED
  BY <1>5, <1>6

LEMMA AppendEntriesPlaced ==
  ASSUME TypeOK, EntriesInv, NEW m \in appendRequests, HandleAppendEntries(m.dst, m)
  PROVE  /\ Placed' \subseteq Placed
         /\ \A j \in Server : fault'[j] # "command conflict"
<1> DEFINE i == m.dst
<1>1. /\ i \in Server /\ logs \in [Server -> Seq(Entries)]
      /\ logs[i] \in Seq(Entries) /\ lastSnapshotIndex[i] \in Nat
      /\ m.entries \in Seq(Entries) /\ m.prevIndex \in Nat
      /\ fault \in [Server -> Faults]
  BY DEF TypeOK, AppendRequests
<1>2. /\ UNCHANGED lastSnapshotIndex /\ appendRequests' \subseteq appendRequests
      /\ UNCHANGED <<logs, fault>> \/ (Accepts(i, m) /\ Accept(i, m))
  BY DEF HandleAppendEntries
<1> HIDE DEF i
<1>3. CASE UNCHANGED <<logs, fault>>
  BY <1>2, <1>3, PlacedFrame DEF EntriesInv
<1>4. CASE Accepts(i, m) /\ Accept(i, m)
  <2>1. logs' = [logs EXCEPT ![i] = Merged(i, m.prevIndex, m.entries)]
    BY <1>4 DEF Accept
  <2>2. UNCHANGED fault
    <3>1. ~CommandConflict(i, m.prevIndex, m.entries)
      BY <1>1, <1>4, NoConflict
    <3>2. fault' = [fault EXCEPT ![i] = fault[i]]
      BY <1>4, <3>1 DEF Accept
    <3> QED
      BY <1>1, <3>2
  <2>3. m.prevIndex \in lastSnapshotIndex[i]..LastLogIndex(i)
    BY <1>1, <1>4, LogEndTypes DEF Accepts
  <2>4. \A k \in 1..Len(Merged(i, m.prevIndex, m.entries)) :
          <<lastSnapshotIndex[i] + k, Merged(i, m.prevIndex, m.entries)[k]>> \in Placed
    BY <1>1, <2>3, MergedEntries, PlacedParts
  <2>5. logs'[i] = Merged(i, m.prevIndex, m.entries)
    BY <1>1, <2>1
  <2>6. \A j \in Server \ {i} : logs'[j] = logs[j]
    BY <1>1, <2>1
  <2>7. Placed' \subseteq Placed
    BY <1>1, <1>2, <2>4, <2>5, <2>6, OneLogPlaced
  <2> QED
    BY <2>2, <2>7 DEF EntriesInv
<1> QED
  BY <1>2, <1>3, <1>4

\* Both handlers that cut the front of a log.
LEMMA DiscardPlaced ==
  ASSUME TypeOK, NEW i \in Server, NEW index \in Nat, index >= lastSnapshotIndex[i],
         logs' = [logs EXCEPT ![i] = Discard(i, index)],
         lastSnapshotIndex' = [lastSnapshotIndex EXCEPT ![i] = index],
         UNCHANGED appendRequests
  PROVE  Placed' \subseteq Placed
<1>1. /\ logs \in [Server -> Seq(Entries)] /\ lastSnapshotIndex \in [Server -> Nat]
      /\ logs[i] \in Seq(Entries) /\ lastSnapshotIndex[i] \in Nat
  BY DEF TypeOK
<1>2. /\ logs'[i] = Discard(i, index) /\ lastSnapshotIndex'[i] = index
      /\ \A j \in Server \ {i} :
           logs'[j] = logs[j] /\ lastSnapshotIndex'[j] = lastSnapshotIndex[j]
  BY <1>1
<1>3. \A k \in 1..Len(Discard(i, index)) : <<index + k, Discard(i, index)[k]>> \in Placed
  BY <1>1, DiscardEntries, PlacedParts
<1> QED
  BY <1>2, <1>3, OneLogPlaced

LEMMA InitEntries == Init => EntriesInv
<1> SUFFICES ASSUME Init
             PROVE  EntriesInv
  OBVIOUS
<1>1. \A i \in Server : logs[i] = <<>> /\ fault[i] = "none"
  BY DEF Init
<1>2. \A i \in Server : LogEntries(i) = {}
  BY <1>1, EmptySeq DEF LogEntries
<1>3. appendRequests = {}
  BY DEF Init
<1>4. Placed = {}
  BY <1>2, <1>3, PlacedMembers
<1> QED
  BY <1>1, <1>4 DEF EntriesInv

LEMMA EntriesKept ==
  ASSUME TypeOK, TypeOK', IndexOrder, EntriesInv, ElectionSafety, [Step]_vars
  PROVE  EntriesInv'
<1>1. CASE UNCHANGED vars
  <2>1. UNCHANGED <<logs, lastSnapshotIndex, boot, appendRequests, leaders, fault>>
    BY <1>1 DEF vars, logVars, appendCalls, history
  <2>2. \A j \in Server : LogGrows(j)
    BY <2>1, SameLogs
  <2>3. Placed' \subseteq Placed
    BY <2>1, PlacedFrame
  <2>4. \A j \in Server : fault'[j] # "command conflict"
    BY <2>1 DEF EntriesInv
  <2> QED
    BY <2>1, <2>2, <2>3, <2>4, EntriesFrame
<1> SUFFICES ASSUME Step
             PROVE  EntriesInv'
  BY <1>1
<1>2. \A j \in Server : LogGrows(j)
  BY LogsGrow DEF CrashStep
<1>3. UNCHANGED boot /\ leaders \subseteq leaders'
  BY DEF Step, Stand4Election, Heartbeat, ApplierTick, Execute, PersistSnapshot,
         HandleVoteRequest, HandleVoteReply, HandleAppendEntries, HandleAppendReply,
         SendSnapshot, HandleInstallSnapshot, HandleSnapshotReply, CountVote, TakeOffice, history
<1>4. \A j \in Server : fault[j] # "command conflict"
  BY DEF EntriesInv
<1> SUFFICES \/ EntriesInv'
             \/ Placed' \subseteq Placed /\ \A j \in Server : fault'[j] # "command conflict"
  BY <1>2, <1>3, EntriesFrame
<1>5. ASSUME NEW i \in Server, Stand4Election(i)
      PROVE  Placed' \subseteq Placed /\ \A j \in Server : fault'[j] # "command conflict"
  BY <1>4, <1>5, PlacedFrame DEF Stand4Election, logVars, appendCalls
<1>6. ASSUME NEW i \in Server, Heartbeat(i)
      PROVE  Placed' \subseteq Placed /\ \A j \in Server : fault'[j] # "command conflict"
  BY <1>4, <1>6, HeartbeatEntries DEF Heartbeat, TypeOK
<1>7. ASSUME NEW i \in Server, ApplierTick(i)
      PROVE  Placed' \subseteq Placed /\ \A j \in Server : fault'[j] # "command conflict"
  BY <1>4, <1>7, PlacedFrame DEF ApplierTick, logVars, appendCalls, TypeOK
<1>8. ASSUME NEW i \in Server, NEW c \in Command, Execute(i, c)
      PROVE  EntriesInv'
  BY <1>2, <1>8, ExecuteEntries
<1>9. ASSUME NEW i \in Server, NEW index \in 1..MaxIndex, PersistSnapshot(i, index)
      PROVE  Placed' \subseteq Placed /\ \A j \in Server : fault'[j] # "command conflict"
  <2>1. /\ UNCHANGED <<appendRequests, fault>>
        /\ lastSnapshotIndex[i] + 1 <= index
        /\ logs' = [logs EXCEPT ![i] = Discard(i, index)]
        /\ lastSnapshotIndex' = [lastSnapshotIndex EXCEPT ![i] = index]
    BY <1>9 DEF PersistSnapshot, appendCalls
  <2>2. index \in Nat /\ index >= lastSnapshotIndex[i]
    <3>1. lastSnapshotIndex[i] \in Nat /\ index \in Nat
      BY <1>9, BoundsAssumption DEF TypeOK
    <3> QED
      BY <2>1, <3>1
  <2> QED
    BY <1>4, <1>9, <2>1, <2>2, DiscardPlaced
<1>10. ASSUME NEW m \in voteRequests, HandleVoteRequest(m.dst, m)
       PROVE  Placed' \subseteq Placed /\ \A j \in Server : fault'[j] # "command conflict"
  BY <1>4, <1>10, PlacedFrame DEF HandleVoteRequest, logVars, appendCalls
<1>11. ASSUME NEW m \in voteReplies, HandleVoteReply(m.dst, m)
       PROVE  Placed' \subseteq Placed /\ \A j \in Server : fault'[j] # "command conflict"
  BY <1>4, <1>11, PlacedFrame DEF HandleVoteReply, logVars, appendCalls
<1>12. ASSUME NEW m \in appendRequests, HandleAppendEntries(m.dst, m)
       PROVE  Placed' \subseteq Placed /\ \A j \in Server : fault'[j] # "command conflict"
  BY <1>12, AppendEntriesPlaced
<1>13. ASSUME NEW m \in appendReplies, HandleAppendReply(m.dst, m)
       PROVE  Placed' \subseteq Placed /\ \A j \in Server : fault'[j] # "command conflict"
  <2>1. UNCHANGED <<logs, lastSnapshotIndex>> /\ appendRequests' = appendRequests
    BY <1>13 DEF HandleAppendReply, logVars
  <2>2. fault \in [Server -> Faults] /\ m.dst \in Server
    BY DEF TypeOK, AppendReplies
  <2>3. UNCHANGED fault \/ CountAppend(m.dst, m)
    BY <1>13 DEF HandleAppendReply
  <2>4. ASSUME CountAppend(m.dst, m)
        PROVE  \A j \in Server : fault'[j] # "command conflict"
    <3> DEFINE match == Larger(matchIndex[m.dst][m.src], m.lastIndex)
               commit == IF /\ appendNum[m.dst][m.round] + 1 >= Majority
                            /\ m.newestTerm = term[m.dst]
                           THEN Larger(commitIndex[m.dst], m.lastIndex)
                           ELSE commitIndex[m.dst]
               f == CASE match > LastLogIndex(m.dst) -> "next index beyond log"
                      [] commit > LastLogIndex(m.dst) -> "commit beyond log"
                      [] OTHER -> fault[m.dst]
    <3>1. fault' = [fault EXCEPT ![m.dst] = f]
      BY <2>4 DEF CountAppend
    <3> HIDE DEF match, commit
    <3>2. f \in {"next index beyond log", "commit beyond log", fault[m.dst]}
      OBVIOUS
    <3> HIDE DEF f
    <3> QED
      BY <1>4, <2>2, <3>1, <3>2
  <2> QED
    BY <1>4, <2>1, <2>3, <2>4, PlacedFrame
<1>14. ASSUME NEW th \in snapshotThreads, SendSnapshot(th.src, th)
       PROVE  Placed' \subseteq Placed /\ \A j \in Server : fault'[j] # "command conflict"
  BY <1>4, <1>14, PlacedFrame DEF SendSnapshot, logVars, appendCalls
<1>15. ASSUME NEW m \in snapshotRequests, HandleInstallSnapshot(m.dst, m)
       PROVE  Placed' \subseteq Placed /\ \A j \in Server : fault'[j] # "command conflict"
  <2>1. /\ UNCHANGED <<appendRequests, fault>>
        /\ \/ UNCHANGED logVars
           \/ m.lastIndex > lastSnapshotIndex[m.dst] /\ Install(m.dst, m)
    BY <1>15 DEF HandleInstallSnapshot, appendCalls
  <2>2. CASE UNCHANGED logVars
    BY <1>4, <2>1, <2>2, PlacedFrame DEF logVars
  <2>3. CASE m.lastIndex > lastSnapshotIndex[m.dst] /\ Install(m.dst, m)
    <3>1. m.dst \in Server /\ m.lastIndex \in Nat
      BY DEF TypeOK, SnapshotRequests
    <3>2. m.lastIndex >= lastSnapshotIndex[m.dst]
      <4>1. lastSnapshotIndex[m.dst] \in Nat
        BY <3>1 DEF TypeOK
      <4> QED
        BY <2>3, <3>1, <4>1
    <3>3. Placed' \subseteq Placed
      BY <2>1, <2>3, <3>1, <3>2, DiscardPlaced DEF Install
    <3> QED
      BY <1>4, <2>1, <3>3
  <2> QED
    BY <2>1, <2>2, <2>3
<1>16. ASSUME NEW m \in snapshotReplies, HandleSnapshotReply(m.dst, m)
       PROVE  Placed' \subseteq Placed /\ \A j \in Server : fault'[j] # "command conflict"
  BY <1>4, <1>16, PlacedFrame DEF HandleSnapshotReply, logVars, appendCalls
<1> QED
  BY <1>5, <1>6, <1>7, <1>8, <1>9, <1>10, <1>11, <1>12, <1>13, <1>14, <1>15, <1>16 DEF Step

\* Entries that share an index and a term are equal, so SameEntry holds.
LEMMA EntriesAreSame ==
  ASSUME EntriesInv
  PROVE  SameEntry
<1>1. ASSUME NEW i \in Server, NEW j \in Server,
             NEW a \in 1..Len(logs[i]), NEW b \in 1..Len(logs[j]),
             lastSnapshotIndex[i] + a = lastSnapshotIndex[j] + b,
             logs[i][a].term = logs[j][b].term
      PROVE  logs[i][a].command = logs[j][b].command
  <2> DEFINE p == <<lastSnapshotIndex[i] + a, logs[i][a]>>
             q == <<lastSnapshotIndex[j] + b, logs[j][b]>>
  <2>1. p \in LogEntries(i) /\ q \in LogEntries(j)
    BY DEF LogEntries
  <2>2. p[1] = q[1] /\ p[2] = logs[i][a] /\ q[2] = logs[j][b]
    BY <1>1
  <2> HIDE DEF p, q
  <2>3. p[2] = q[2]
    BY <1>1, <2>1, <2>2, PlacedParts DEF EntriesInv
  <2> QED
    BY <2>2, <2>3
<1> QED
  BY <1>1 DEF SameEntry, EntriesInv

\* Every entry has been logged by the leader of its term and that leader still has
\* as long a log, whatever handlers copied, replaced or discarded it since.
THEOREM EntriesHaveALeader == Spec => []EntriesInv
<1>1. [Step]_vars => [CrashStep]_vars
  BY DEF CrashStep
<1>2. Spec => []IndexOrder
  <2>1. IndexInv => IndexOrder
    BY DEF IndexInv
  <2> QED
    BY <1>1, <2>1, IndexesOrdered, PTL DEF Spec, CrashSpec
<1>3. TypeOK /\ TypeOK' /\ IndexOrder /\ EntriesInv /\ ElectionSafety /\ [Step]_vars
      => EntriesInv'
  BY EntriesKept
<1> QED
  BY <1>2, <1>3, InitEntries, SpecTypes, OneLeaderPerTerm, PTL DEF Spec

\* As long as no process ends, an index and a term determine the command on all
\* nodes, and the handler of append calls never meets the conflict it throws at.
THEOREM OneEntryPerTerm == Spec => []SameEntry
<1>1. EntriesInv => SameEntry
  BY EntriesAreSame
<1> QED
  BY <1>1, EntriesHaveALeader, PTL
=============================================================================
