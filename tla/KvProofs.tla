------------------------------ MODULE KvProofs ------------------------------
(***************************************************************************)
(* Proofs about the key-value servers and their clerks, for every number   *)
(* of them and every bound.                                                *)
(***************************************************************************)
EXTENDS KvInvariants, TLAPS, SequenceTheorems, FiniteSetTheorems, FunctionTheorems,
        WellFoundedInduction

coreVars == <<proposals, committed, leading, elections, last, commit, applied, shot,
              batch, pushers, fault>>
loopVars == <<queue, loop, writes, lastRequestId, appliedChan, executed>>
callVars == <<calls, timeouts, call, requestId, leaderId, failures, acked, unseen>>

LEMMA CoreFrame == ASSUME CoreTypes, UNCHANGED coreVars PROVE CoreTypes'
BY DEF CoreTypes, coreVars

LEMMA LoopFrame == ASSUME LoopTypes, UNCHANGED loopVars PROVE LoopTypes'
BY DEF LoopTypes, loopVars

LEMMA CallFrame == ASSUME CallTypes, UNCHANGED callVars PROVE CallTypes'
BY DEF CallTypes, callVars

LEMMA NodeFacts ==
  /\ 0 \in Node
  /\ \A i \in Node : NextServer(i) \in Node
BY KvAssumption DEF Node, NextServer

LEMMA IndexFacts ==
  /\ MaxIndex \in Nat
  /\ \A a, b \in Indexes : a \in Nat /\ Larger(a, b) \in Indexes
  /\ \A a \in 1..MaxIndex : a \in Indexes
BY KvAssumption DEF Indexes, Larger

\* An element of a sequence.
LEMMA ElementsAppend ==
  ASSUME NEW S, NEW s \in Seq(S), NEW x
  PROVE  Elements(Append(s, x)) = Elements(s) \cup {x}
<1>1. /\ Len(Append(s, x)) = Len(s) + 1 /\ Len(s) \in Nat
      /\ \A k \in 1..Len(s) : Append(s, x)[k] = s[k]
      /\ Append(s, x)[Len(s) + 1] = x
  BY AppendProperties, LenProperties
<1>2. \A y : y \in Elements(Append(s, x)) <=> y \in Elements(s) \/ y = x
  BY <1>1 DEF Elements
<1> QED
  BY <1>2

LEMMA ElementsTail ==
  ASSUME NEW S, NEW s \in Seq(S), s # <<>>
  PROVE  /\ Elements(Tail(s)) \subseteq Elements(s)
         /\ Head(s) \in Elements(s) /\ Head(s) \in S /\ Tail(s) \in Seq(S)
<1>1. /\ Tail(s) \in Seq(S) /\ Len(Tail(s)) = Len(s) - 1 /\ Len(s) \in Nat \ {0}
      /\ \A k \in 1..Len(Tail(s)) : Tail(s)[k] = s[k + 1]
      /\ Head(s) = s[1] /\ Head(s) \in S
  BY HeadTailProperties, LenProperties, EmptySeq
<1>2. ASSUME NEW y \in Elements(Tail(s))
      PROVE  y \in Elements(s)
  <2>1. PICK k \in 1..Len(Tail(s)) : y = Tail(s)[k]
    BY DEF Elements
  <2>2. k + 1 \in 1..Len(s)
    BY <1>1, <2>1
  <2> QED
    BY <1>1, <2>1, <2>2 DEF Elements
<1> QED
  BY <1>1, <1>2 DEF Elements

LEMMA ElementsTyped ==
  ASSUME NEW S, NEW s \in Seq(S)
  PROVE  Elements(s) \subseteq S
BY ElementOfSeq DEF Elements

-----------------------------------------------------------------------------
(* Types. *)

LEMMA CommitTypes ==
  ASSUME TypeOK, Commit
  PROVE  TypeOK'
<1>1. PICK p \in proposals : committed' = Append(committed, p[2])
  BY DEF Commit
<1>2. p[2] \in Ops /\ committed \in Seq(Ops)
  BY DEF TypeOK, CoreTypes
<1>3. committed' \in Seq(Ops)
  BY <1>1, <1>2, AppendProperties
<1>4. UNCHANGED <<proposals, leading, elections, last, commit, shot, applyVars,
                  loop, serverVars, appliedChan, fault, calls, timeouts, clerkVars, history>>
  BY DEF Commit
<1>5. CoreTypes'
  BY <1>3, <1>4 DEF TypeOK, CoreTypes, applyVars
<1>6. UNCHANGED loopVars /\ UNCHANGED callVars
  BY <1>4 DEF loopVars, callVars, applyVars, serverVars, clerkVars, history
<1> QED
  BY <1>5, <1>6, LoopFrame, CallFrame DEF TypeOK

LEMMA LearnTypes ==
  ASSUME TypeOK, IndexesInv, NEW i \in Node, Learn(i)
  PROVE  TypeOK'
<1>1. PICK k \in (commit[i] + 1)..Len(committed) :
        /\ commit' = [commit EXCEPT ![i] = k]
        /\ last' = [last EXCEPT ![i] = Larger(last[i], k)]
  BY DEF Learn
<1>2. last[i] \in Indexes /\ commit[i] \in Indexes /\ committed \in Seq(Ops)
  BY DEF TypeOK, CoreTypes
<1>3. k \in Indexes
  <2>1. commit[i] \in Nat /\ MaxIndex \in Nat
    BY <1>2, IndexFacts
  <2>2. Len(committed) \in Nat /\ Len(committed) <= MaxIndex
    BY <1>2, LenProperties DEF IndexesInv
  <2>3. k \in 0..MaxIndex
    BY <2>1, <2>2
  <2> QED
    BY <2>3 DEF Indexes
<1>4. Larger(last[i], k) \in Indexes
  BY <1>2, <1>3, IndexFacts
<1>5. UNCHANGED <<proposals, committed, leading, elections, shot, applyVars, loop,
                  serverVars, appliedChan, fault, calls, timeouts, clerkVars, history>>
  BY DEF Learn
<1>6. CoreTypes'
  BY <1>1, <1>3, <1>4, <1>5 DEF TypeOK, CoreTypes, applyVars
<1>7. UNCHANGED loopVars /\ UNCHANGED callVars
  BY <1>5 DEF loopVars, callVars, applyVars, serverVars, clerkVars, history
<1> QED
  BY <1>6, <1>7, LoopFrame, CallFrame DEF TypeOK

LEMMA ElectionTypes ==
  ASSUME TypeOK, NEW i \in Node, Elected(i) \/ Deposed(i)
  PROVE  TypeOK'
<1>1. PICK b \in BOOLEAN : leading' = [leading EXCEPT ![i] = b]
  BY DEF Elected, Deposed
<1>2. elections' \in 0..MaxElections
  BY KvAssumption DEF Elected, Deposed, TypeOK, CoreTypes
<1>3. UNCHANGED <<proposals, committed, last, commit, shot, applyVars, loop,
                  serverVars, appliedChan, fault, calls, timeouts, clerkVars, history>>
  BY DEF Elected, Deposed
<1>4. leading' \in [Node -> BOOLEAN]
  BY <1>1 DEF TypeOK, CoreTypes
<1>5. CoreTypes'
  BY <1>2, <1>3, <1>4 DEF TypeOK, CoreTypes, applyVars
<1>6. UNCHANGED loopVars /\ UNCHANGED callVars
  BY <1>3 DEF loopVars, callVars, applyVars, serverVars, clerkVars, history
<1> QED
  BY <1>5, <1>6, LoopFrame, CallFrame DEF TypeOK

\* What the applier takes is committed.
LEMMA TakenTypes ==
  ASSUME TypeOK, IndexesInv, NEW i \in Node, applied[i] < commit[i]
  PROVE  LET taken == [k \in 1..(commit[i] - applied[i]) |-> applied[i] + k]
         IN  /\ taken \in Seq(1..MaxIndex)
             /\ \A k \in Elements(taken) : k <= Len(committed)
<1>1. /\ applied[i] \in Nat /\ commit[i] \in Nat /\ commit[i] <= Len(committed)
      /\ Len(committed) \in Nat /\ Len(committed) <= MaxIndex /\ MaxIndex \in Nat
  BY LenProperties, IndexFacts DEF TypeOK, CoreTypes, IndexesInv, HandsUpCommitted
<1> DEFINE n == commit[i] - applied[i]
           taken == [k \in 1..n |-> applied[i] + k]
<1>2. n \in Nat
  BY <1>1
<1>3. \A k \in 1..n : applied[i] + k \in 1..Len(committed)
  BY <1>1
<1> HIDE DEF n
<1>4. taken \in Seq(1..Len(committed))
  BY <1>2, <1>3, IsASeq
<1>5. taken \in Seq(1..MaxIndex)
  <2>1. 1..Len(committed) \subseteq 1..MaxIndex
    BY <1>1
  <2> QED
    BY <1>4, <2>1, SeqMonotonic
<1>6. Elements(taken) \subseteq 1..Len(committed)
  BY <1>4, ElementsTyped
<1>7. \A k \in Elements(taken) : k <= Len(committed)
  BY <1>1, <1>6
<1> QED
  BY <1>5, <1>7 DEF n

LEMMA ApplierTickTypes ==
  ASSUME TypeOK, IndexesInv, NEW i \in Node, ApplierTick(i)
  PROVE  TypeOK'
<1>1. PICK taken \in Seq(1..MaxIndex) : batch' = [batch EXCEPT ![i] = taken]
  BY TakenTypes DEF ApplierTick
<1>2. applied' = [applied EXCEPT ![i] = commit[i]]
  BY DEF ApplierTick
<1>3. UNCHANGED <<raftVars, pushers, queue, loop, serverVars, appliedChan, fault,
                  calls, timeouts, clerkVars, history>>
  BY DEF ApplierTick
<1>4. CoreTypes'
  BY <1>1, <1>2, <1>3 DEF TypeOK, CoreTypes, raftVars
<1>5. UNCHANGED loopVars /\ UNCHANGED callVars
  BY <1>3 DEF loopVars, callVars, serverVars, clerkVars, history
<1> QED
  BY <1>4, <1>5, LoopFrame, CallFrame DEF TypeOK

LEMMA ApplierPushTypes ==
  ASSUME TypeOK, NEW i \in Node, ApplierPush(i)
  PROVE  TypeOK'
<1> DEFINE Messages == {"command", "snapshot"} \X (1..MaxIndex)
<1>1. /\ batch[i] \in Seq(1..MaxIndex) /\ batch[i] # <<>>
      /\ queue[i] \in Seq(Messages)
  BY DEF ApplierPush, TypeOK, CoreTypes, LoopTypes
<1>2. Tail(batch[i]) \in Seq(1..MaxIndex) /\ Head(batch[i]) \in 1..MaxIndex
  BY <1>1, ElementsTail
<1>3. Append(queue[i], <<"command", Head(batch[i])>>) \in Seq(Messages)
  BY <1>1, <1>2, AppendProperties
<1>4. /\ batch' = [batch EXCEPT ![i] = Tail(batch[i])]
      /\ queue' = [queue EXCEPT ![i] = Append(queue[i], <<"command", Head(batch[i])>>)]
      /\ UNCHANGED <<raftVars, applied, pushers, loop, serverVars, appliedChan, fault,
                     calls, timeouts, clerkVars, history>>
  BY DEF ApplierPush
<1>5. CoreTypes'
  BY <1>2, <1>4 DEF TypeOK, CoreTypes, raftVars
<1>6. LoopTypes'
  <2> HIDE DEF Messages
  <2>1. queue' \in [Node -> Seq(Messages)]
    BY <1>3, <1>4 DEF TypeOK, LoopTypes, Messages
  <2> QED
    BY <1>4, <2>1 DEF TypeOK, LoopTypes, Messages, serverVars, history
<1>7. UNCHANGED callVars
  BY <1>4 DEF callVars, clerkVars, history
<1> QED
  BY <1>5, <1>6, <1>7, CallFrame DEF TypeOK

LEMMA InstallTypes ==
  ASSUME TypeOK, NEW i \in Node, NEW j \in Node, InstallSnapshot(i, j)
  PROVE  TypeOK'
<1>1. /\ last[i] \in Indexes /\ commit[i] \in Indexes /\ applied[i] \in Indexes
      /\ shot[i] \in Indexes /\ shot[j] \in Indexes /\ shot[j] > shot[i]
  BY DEF InstallSnapshot, TypeOK, CoreTypes
<1>2. shot[j] \in 1..MaxIndex
  <2>1. shot[i] \in Nat /\ shot[j] \in 0..MaxIndex
    BY <1>1, IndexFacts DEF Indexes
  <2> QED
    BY <1>1, <2>1, IndexFacts
<1>3. /\ Larger(last[i], shot[j]) \in Indexes /\ Larger(commit[i], shot[j]) \in Indexes
      /\ Larger(applied[i], shot[j]) \in Indexes
  BY <1>1, IndexFacts
<1>4. /\ shot' = [shot EXCEPT ![i] = shot[j]]
      /\ last' = [last EXCEPT ![i] = Larger(last[i], shot[j])]
      /\ commit' = [commit EXCEPT ![i] = Larger(commit[i], shot[j])]
      /\ applied' = [applied EXCEPT ![i] = Larger(applied[i], shot[j])]
      /\ pushers' = pushers \cup {<<i, shot[j]>>}
      /\ UNCHANGED <<proposals, committed, leading, elections, batch, queue, loop,
                     serverVars, appliedChan, fault, calls, timeouts, clerkVars, history>>
  BY DEF InstallSnapshot
<1>5. {last, commit, applied, shot}' \subseteq [Node -> Indexes]
  BY <1>1, <1>3, <1>4 DEF TypeOK, CoreTypes
<1>6. pushers' \subseteq Node \X (1..MaxIndex)
  BY <1>2, <1>4 DEF TypeOK, CoreTypes
<1>7. CoreTypes'
  BY <1>4, <1>5, <1>6 DEF TypeOK, CoreTypes
<1>8. UNCHANGED loopVars /\ UNCHANGED callVars
  BY <1>4 DEF loopVars, callVars, serverVars, clerkVars, history
<1> QED
  BY <1>7, <1>8, LoopFrame, CallFrame DEF TypeOK

LEMMA PushSnapshotTypes ==
  ASSUME TypeOK, NEW p \in pushers, PushSnapshot(p[1], p[2])
  PROVE  TypeOK'
<1> DEFINE Messages == {"command", "snapshot"} \X (1..MaxIndex)
<1>1. PICK i \in Node, k \in 1..MaxIndex : i = p[1] /\ k = p[2]
  BY DEF TypeOK, CoreTypes
<1>2. /\ pushers' \subseteq pushers
      /\ queue' = [queue EXCEPT ![i] = Append(queue[i], <<"snapshot", k>>)]
      /\ UNCHANGED <<raftVars, applied, batch, loop, serverVars, appliedChan, fault,
                     calls, timeouts, clerkVars, history>>
  BY <1>1 DEF PushSnapshot
<1>3. queue[i] \in Seq(Messages)
  BY DEF TypeOK, LoopTypes
<1>4. Append(queue[i], <<"snapshot", k>>) \in Seq(Messages)
  BY <1>3, AppendProperties
<1>5. CoreTypes'
  BY <1>2 DEF TypeOK, CoreTypes, raftVars
<1>6. LoopTypes'
  <2> HIDE DEF Messages
  <2>1. queue' \in [Node -> Seq(Messages)]
    BY <1>2, <1>4 DEF TypeOK, LoopTypes, Messages
  <2> QED
    BY <1>2, <2>1 DEF TypeOK, LoopTypes, Messages, serverVars, history
<1>7. UNCHANGED callVars
  BY <1>2 DEF callVars, clerkVars, history
<1> QED
  BY <1>5, <1>6, <1>7, CallFrame DEF TypeOK

LEMMA CheckTypes ==
  ASSUME TypeOK, NEW i \in Node, CheckCommand(i)
  PROVE  TypeOK'
<1> DEFINE Messages == {"command", "snapshot"} \X (1..MaxIndex)
<1>1. queue[i] \in Seq(Messages) /\ queue[i] # <<>>
  BY DEF CheckCommand, TypeOK, LoopTypes
<1>2. Tail(queue[i]) \in Seq(Messages) /\ Head(queue[i]) \in Messages
  BY <1>1, ElementsTail
<1>3. PICK k \in 1..MaxIndex : k = Head(queue[i])[2]
  BY <1>2
<1> DEFINE d == DuplicateRequest(i, committed[k])
<1>4. d \in BOOLEAN
  BY DEF DuplicateRequest
<1>5. /\ queue' = [queue EXCEPT ![i] = Tail(queue[i])]
      /\ loop' = [loop EXCEPT ![i] = [step |-> "checked", index |-> k, duplicate |-> d]]
      /\ UNCHANGED <<raftVars, applied, batch, pushers, serverVars, appliedChan,
                     fault, calls, timeouts, clerkVars, history>>
  BY <1>3 DEF CheckCommand
<1> HIDE DEF d
<1>6. [step |-> "checked", index |-> k, duplicate |-> d]
        \in [step : {"idle", "checked", "executed"}, index : Indexes, duplicate : BOOLEAN]
  BY <1>4, IndexFacts
<1>7. queue' \in [Node -> Seq(Messages)]
  <2> HIDE DEF Messages
  <2> QED
    BY <1>2, <1>5 DEF TypeOK, LoopTypes, Messages
<1>8. LoopTypes'
  BY <1>5, <1>6, <1>7 DEF TypeOK, LoopTypes, serverVars, history
<1>9. UNCHANGED coreVars /\ UNCHANGED callVars
  BY <1>5 DEF coreVars, callVars, raftVars, clerkVars, history
<1> QED
  BY <1>8, <1>9, CoreFrame, CallFrame DEF TypeOK

\* The command the loop works on.
LEMMA LoopCommand ==
  ASSUME TypeOK, IndexesInv, NEW i \in Node, loop[i].step # "idle"
  PROVE  /\ loop[i].index \in 1..Len(committed) /\ loop[i].index \in 1..MaxIndex
         /\ committed[loop[i].index] \in Ops
         /\ committed[loop[i].index] \in Elements(committed)
<1>1. committed \in Seq(Ops) /\ Len(committed) \in Nat
  BY LenProperties DEF TypeOK, CoreTypes
<1>2. loop[i].index \in 1..Len(committed) /\ Len(committed) <= MaxIndex
  BY DEF IndexesInv, HandsUpCommitted
<1>3. loop[i].index \in 1..MaxIndex
  BY <1>1, <1>2, IndexFacts
<1> QED
  BY <1>1, <1>2, <1>3, ElementOfSeq DEF Elements

LEMMA OpTypes ==
  ASSUME NEW op \in Ops
  PROVE  op[1] \in Client /\ op[2] \in 1..MaxCalls /\ op[2] \in 0..MaxCalls /\ op[2] \in Nat
         /\ op = <<op[1], op[2]>>
BY KvAssumption DEF Ops

LEMMA ExecuteTypes ==
  ASSUME TypeOK, IndexesInv, NEW i \in Node, ExecutePutOp(i)
  PROVE  TypeOK'
<1>1. PICK op : op = committed[loop[i].index]
  OBVIOUS
<1>2. op \in Ops
  BY <1>1, LoopCommand DEF ExecutePutOp
<1>3. PICK c \in Client, r \in 0..MaxCalls : c = op[1] /\ r = op[2]
  BY <1>2, OpTypes
<1>4. /\ loop' = [loop EXCEPT ![i].step = "executed"]
      /\ \/ UNCHANGED serverVars
         \/ /\ writes' = [writes EXCEPT ![i] = Append(writes[i], op)]
            /\ lastRequestId' = [lastRequestId EXCEPT ![i][c] = r]
      /\ UNCHANGED <<raftVars, applyVars, appliedChan, fault, calls, timeouts,
                     clerkVars, history>>
  BY <1>1, <1>3 DEF ExecutePutOp
<1>5. loop' \in [Node -> [step : {"idle", "checked", "executed"}, index : Indexes,
                          duplicate : BOOLEAN]]
  <2> DEFINE Stands == [step : {"idle", "checked", "executed"}, index : Indexes,
                        duplicate : BOOLEAN]
  <2>1. loop[i] \in Stands /\ loop \in [Node -> Stands]
    BY DEF TypeOK, LoopTypes
  <2>2. [loop[i] EXCEPT !.step = "executed"] \in Stands
    BY <2>1
  <2>3. loop' = [loop EXCEPT ![i] = [loop[i] EXCEPT !.step = "executed"]]
    BY <1>4
  <2> HIDE DEF Stands
  <2>4. loop' \in [Node -> Stands]
    BY <2>1, <2>2, <2>3
  <2> QED
    BY <2>4 DEF Stands
<1>6. writes' \in [Node -> Seq(Ops)] /\ lastRequestId' \in [Node -> [Client -> 0..MaxCalls]]
  <2>1. CASE UNCHANGED serverVars
    BY <2>1 DEF serverVars, TypeOK, LoopTypes
  <2>2. CASE /\ writes' = [writes EXCEPT ![i] = Append(writes[i], op)]
             /\ lastRequestId' = [lastRequestId EXCEPT ![i][c] = r]
    <3>1. Append(writes[i], op) \in Seq(Ops)
      BY <1>2, AppendProperties DEF TypeOK, LoopTypes
    <3> QED
      BY <2>2, <3>1 DEF TypeOK, LoopTypes
  <2> QED
    BY <1>4, <2>1, <2>2
<1>7. LoopTypes'
  BY <1>4, <1>5, <1>6 DEF TypeOK, LoopTypes, applyVars, history
<1>8. UNCHANGED coreVars /\ UNCHANGED callVars
  BY <1>4 DEF coreVars, callVars, raftVars, applyVars, clerkVars, history
<1> QED
  BY <1>7, <1>8, CoreFrame, CallFrame DEF TypeOK

LEMMA TryPushTypes ==
  ASSUME TypeOK, IndexesInv, NEW i \in Node, TryPush2Wait(i)
  PROVE  TypeOK'
<1>1. PICK k \in 1..MaxIndex : k = loop[i].index
  BY LoopCommand DEF TryPush2Wait
<1>2. k \in Indexes /\ committed[k] \in Ops
  BY <1>1, LoopCommand, IndexFacts DEF TryPush2Wait
<1>3. /\ shot' = shot \/ shot' = [shot EXCEPT ![i] = k]
      /\ appliedChan' = IF appliedChan[i][k] = None THEN appliedChan
                        ELSE [appliedChan EXCEPT ![i][k] = Append(appliedChan[i][k], committed[k])]
      /\ loop' = [loop EXCEPT ![i] = Idle]
      /\ executed' = [executed EXCEPT ![i] = k]
      /\ UNCHANGED <<proposals, committed, leading, elections, last, commit,
                     applyVars, serverVars, fault, calls, timeouts, clerkVars, acked, unseen>>
  BY <1>1 DEF TryPush2Wait, MaySnapshot
<1>4. shot' \in [Node -> Indexes] /\ executed' \in [Node -> Indexes]
  BY <1>2, <1>3 DEF TypeOK, CoreTypes, LoopTypes
<1>5. CoreTypes'
  BY <1>3, <1>4 DEF TypeOK, CoreTypes, applyVars
<1>6. Idle \in [step : {"idle", "checked", "executed"}, index : Indexes, duplicate : BOOLEAN]
  BY IndexFacts DEF Idle, Indexes
<1>7. loop' \in [Node -> [step : {"idle", "checked", "executed"}, index : Indexes,
                          duplicate : BOOLEAN]]
  BY <1>3, <1>6 DEF TypeOK, LoopTypes
<1>8. appliedChan' \in [Node -> [1..MaxIndex -> Seq(Ops) \cup {None}]]
  <2>1. CASE appliedChan[i][k] = None
    BY <1>3, <2>1 DEF TypeOK, LoopTypes
  <2>2. CASE appliedChan[i][k] # None
    <3>1. appliedChan[i] \in [1..MaxIndex -> Seq(Ops) \cup {None}]
      BY DEF TypeOK, LoopTypes
    <3>3. appliedChan[i][k] \in Seq(Ops)
      BY <2>2, <3>1
    <3>2. Append(appliedChan[i][k], committed[k]) \in Seq(Ops)
      BY <1>2, <3>3, AppendProperties
    <3> QED
      BY <1>3, <2>2, <3>2 DEF TypeOK, LoopTypes
  <2> QED
    BY <2>1, <2>2
<1>9. LoopTypes'
  BY <1>3, <1>4, <1>7, <1>8 DEF TypeOK, LoopTypes, applyVars, serverVars
<1>10. UNCHANGED callVars
  BY <1>3 DEF callVars, clerkVars
<1> QED
  BY <1>5, <1>9, <1>10, CallFrame DEF TypeOK

LEMMA LoadTypes ==
  ASSUME TypeOK, NEW i \in Node, LoadSnapshot(i)
  PROVE  TypeOK'
<1> DEFINE Messages == {"command", "snapshot"} \X (1..MaxIndex)
<1>1. queue[i] \in Seq(Messages) /\ queue[i] # <<>>
  BY DEF LoadSnapshot, TypeOK, LoopTypes
<1>2. Tail(queue[i]) \in Seq(Messages)
  BY <1>1, ElementsTail
<1>3. /\ queue' = [queue EXCEPT ![i] = Tail(queue[i])]
      /\ fault' = [fault EXCEPT ![i] = TRUE]
      /\ leading' = [leading EXCEPT ![i] = FALSE]
      /\ calls' \subseteq calls
      /\ UNCHANGED <<proposals, committed, elections, last, commit, shot, applied,
                     batch, pushers, loop, serverVars, appliedChan, timeouts,
                     clerkVars, history>>
  BY DEF LoadSnapshot
<1>4. queue' \in [Node -> Seq(Messages)]
  <2> HIDE DEF Messages
  <2> QED
    BY <1>2, <1>3 DEF TypeOK, LoopTypes, Messages
<1>5. LoopTypes'
  BY <1>3, <1>4 DEF TypeOK, LoopTypes, serverVars, history
<1>6. fault' \in [Node -> BOOLEAN] /\ leading' \in [Node -> BOOLEAN]
  BY <1>3 DEF TypeOK, CoreTypes
<1>7. CoreTypes'
  BY <1>3, <1>6 DEF TypeOK, CoreTypes
<1>8. CallTypes'
  BY <1>3 DEF TypeOK, CallTypes, clerkVars, history
<1> QED
  BY <1>5, <1>7, <1>8 DEF TypeOK

-----------------------------------------------------------------------------
(* A sequence without its repetitions. *)

Firsts(seq) == {k \in 1..Len(seq) : \A m \in 1..(k - 1) : seq[m] # seq[k]}
Rank(seq, k) == Cardinality({m \in Firsts(seq) : m <= k})

\* A nonempty set of positive numbers has a least one.
LEMMA LeastOne ==
  ASSUME NEW T, T \subseteq Nat, T # {}
  PROVE  \E x \in T : \A y \in T : x <= y
<1>1. PICK x \in T : \A y \in T : <<y, x>> \notin OpToRel(<, Nat)
  BY WFMin, NatLessThanWellFounded
<1>2. ASSUME NEW y \in T
      PROVE  x <= y
  <2>1. x \in Nat /\ y \in Nat /\ <<y, x>> \notin OpToRel(<, Nat)
    BY <1>1
  <2>2. ~(y < x)
    <3>1. <<y, x>> \in Nat \X Nat /\ <<y, x>>[1] = y /\ <<y, x>>[2] = x
      BY <2>1
    <3> QED
      BY <2>1, <3>1, Zenon DEF OpToRel
  <2>3. x \in Nat /\ y \in Nat
    BY <2>1
  <2> QED
    BY <2>2, <2>3
<1> QED
  BY <1>2

\* Every value of a sequence has a first occurrence.
LEMMA FirstsCover ==
  ASSUME NEW S, NEW s \in Seq(S), NEW y \in Elements(s)
  PROVE  \E k \in Firsts(s) : s[k] = y
<1> DEFINE T == {k \in 1..Len(s) : s[k] = y}
<1>1. T \subseteq Nat /\ T # {}
  BY DEF Elements
<1>2. PICK k \in T : \A m \in T : k <= m
  BY <1>1, LeastOne
<1>3. k \in 1..Len(s) /\ s[k] = y /\ Len(s) \in Nat
  BY <1>2, LenProperties
<1>4. \A m \in 1..(k - 1) : s[m] # s[k]
  BY <1>2, <1>3
<1> QED
  BY <1>3, <1>4 DEF Firsts

LEMMA FirstsFinite ==
  ASSUME NEW S, NEW s \in Seq(S)
  PROVE  /\ Firsts(s) \subseteq 1..Len(s) /\ Firsts(s) \subseteq Nat
         /\ IsFiniteSet(Firsts(s)) /\ Cardinality(Firsts(s)) \in Nat
         /\ \A k : Rank(s, k) \in 0..Cardinality(Firsts(s))
         /\ \A k : IsFiniteSet({m \in Firsts(s) : m <= k})
<1>1. Len(s) \in Nat /\ Firsts(s) \subseteq 1..Len(s)
  BY LenProperties DEF Firsts
<1>2. IsFiniteSet(1..Len(s))
  BY <1>1, FS_Interval
<1>3. IsFiniteSet(Firsts(s)) /\ Cardinality(Firsts(s)) \in Nat
  BY <1>1, <1>2, FS_Subset, FS_CardinalityType
<1>4. ASSUME NEW k
      PROVE  Rank(s, k) \in 0..Cardinality(Firsts(s)) /\ IsFiniteSet({m \in Firsts(s) : m <= k})
  <2> DEFINE T == {m \in Firsts(s) : m <= k}
  <2>1. IsFiniteSet(T) /\ Cardinality(T) <= Cardinality(Firsts(s))
    BY <1>3, FS_Subset
  <2>2. Cardinality(T) \in Nat
    BY <2>1, FS_CardinalityType
  <2> QED
    BY <1>3, <2>1, <2>2 DEF Rank
<1>5. \A k : Rank(s, k) \in 0..Cardinality(Firsts(s))
  BY <1>4
<1>6. \A k : IsFiniteSet({m \in Firsts(s) : m <= k})
  BY <1>4
<1>7. Firsts(s) \subseteq Nat
  BY <1>1
<1> QED
  BY <1>1, <1>3, <1>5, <1>6, <1>7, Zenon

\* No two first occurrences have the same rank.
LEMMA RanksDiffer ==
  ASSUME NEW S, NEW s \in Seq(S), NEW a \in Firsts(s), NEW b \in Firsts(s),
         Rank(s, a) = Rank(s, b)
  PROVE  a = b
<1> DEFINE UpTo(k) == {m \in Firsts(s) : m <= k}
<1>1. Firsts(s) \subseteq Nat
  BY FirstsFinite
<1>2. ASSUME NEW j \in Firsts(s), NEW k \in Firsts(s), j < k
      PROVE  Rank(s, j) # Rank(s, k)
  <2>1. UpTo(j) \subseteq UpTo(k) /\ k \in UpTo(k) /\ k \notin UpTo(j)
    BY <1>1, <1>2
  <2>2. IsFiniteSet(UpTo(k))
    BY FirstsFinite
  <2>3. Cardinality(UpTo(k)) = Cardinality(UpTo(j)) => UpTo(k) = UpTo(j)
    BY <2>1, <2>2, FS_Subset
  <2> QED
    BY <2>1, <2>3 DEF Rank
<1> QED
  BY <1>1, <1>2

\* The ranks of the first occurrences are 1, 2, 3, ...
LEMMA RanksCover ==
  ASSUME NEW S, NEW s \in Seq(S), NEW n \in 1..Cardinality(Firsts(s))
  PROVE  \E k \in Firsts(s) : Rank(s, k) = n
<1> DEFINE F == Firsts(s)
           c == Cardinality(F)
           f == [k \in F |-> Rank(s, k)]
<1>1. F \subseteq Nat /\ IsFiniteSet(F) /\ c \in Nat
  BY FirstsFinite
<1>2. \A k \in F : Rank(s, k) \in 1..c
  <2>1. TAKE k \in F
  <2>2. k \in {m \in F : m <= k}
    BY <1>1
  <2>3. Rank(s, k) # 0
    BY <2>2, FirstsFinite, FS_EmptySet DEF Rank
  <2> QED
    BY <1>1, <2>3, FirstsFinite
<1>4. \A a, b \in F : f[a] = f[b] => a = b
  BY RanksDiffer
<1>5. f \in [F -> 1..c]
  BY <1>2
<1>6. f \in Injection(F, 1..c)
  BY <1>4, <1>5, Fun_IsInj
<1>7. IsFiniteSet(1..c) /\ Cardinality(1..c) = c
  BY <1>1, FS_Interval
<1>8. f \in Surjection(F, 1..c)
  BY <1>6, <1>7, FS_Injection
<1>9. \A m \in 1..c : \E k \in F : f[k] = m
  BY <1>8 DEF Surjection
<1> QED
  BY <1>9

\* The n-th first occurrence.
Nth(seq, n) == CHOOSE k \in {k \in Firsts(seq) : Rank(seq, k) = n} : TRUE

LEMMA FirstOccurrencesDef ==
  ASSUME NEW s
  PROVE  FirstOccurrences(s) = [n \in 1..Cardinality(Firsts(s)) |-> s[Nth(s, n)]]
BY DEF FirstOccurrences, Firsts, Rank, Nth

LEMMA NthProperties ==
  ASSUME NEW S, NEW s \in Seq(S), NEW n \in 1..Cardinality(Firsts(s))
  PROVE  Nth(s, n) \in Firsts(s) /\ Rank(s, Nth(s, n)) = n
<1> DEFINE T == {k \in Firsts(s) : Rank(s, k) = n}
<1>1. T # {}
  BY RanksCover
<1>2. Nth(s, n) \in T
  BY <1>1 DEF Nth
<1> QED
  BY <1>2

LEMMA FirstOccurrencesType ==
  ASSUME NEW S, NEW s \in Seq(S)
  PROVE  /\ FirstOccurrences(s) \in Seq(S)
         /\ Len(FirstOccurrences(s)) = Cardinality(Firsts(s))
<1>1. Cardinality(Firsts(s)) \in Nat /\ Firsts(s) \subseteq 1..Len(s)
  BY FirstsFinite
<1>2. \A n \in 1..Cardinality(Firsts(s)) : s[Nth(s, n)] \in S
  BY <1>1, NthProperties, ElementOfSeq
<1> DEFINE c == Cardinality(Firsts(s))
           o == [n \in 1..c |-> s[Nth(s, n)]]
<1>3. o \in Seq(S) /\ Len(o) = c
  <2> HIDE DEF c
  <2>1. c \in Nat /\ \A n \in 1..c : s[Nth(s, n)] \in S
    BY <1>1, <1>2 DEF c
  <2> QED
    BY <2>1
<1> QED
  BY <1>3, FirstOccurrencesDef

\* Nothing is lost.
LEMMA FirstOccurrencesElements ==
  ASSUME NEW S, NEW s \in Seq(S)
  PROVE  Elements(FirstOccurrences(s)) = Elements(s)
<1> DEFINE o == FirstOccurrences(s)
           c == Cardinality(Firsts(s))
<1>1. /\ c \in Nat /\ Firsts(s) \subseteq 1..Len(s) /\ Firsts(s) \subseteq Nat
      /\ o \in Seq(S) /\ Len(o) = c
      /\ \A n \in 1..c : o[n] = s[Nth(s, n)]
  BY FirstsFinite, FirstOccurrencesType, FirstOccurrencesDef
<1>2. ASSUME NEW y \in Elements(o)
      PROVE  y \in Elements(s)
  <2>1. PICK n \in 1..c : y = o[n]
    BY <1>1 DEF Elements
  <2>2. Nth(s, n) \in 1..Len(s) /\ y = s[Nth(s, n)]
    BY <1>1, <2>1, NthProperties
  <2> QED
    BY <2>2 DEF Elements
<1>3. ASSUME NEW y \in Elements(s)
      PROVE  y \in Elements(o)
  <2>1. PICK k \in Firsts(s) : s[k] = y
    BY FirstsCover
  <2>2. Rank(s, k) \in 1..c
    <3>1. k \in {m \in Firsts(s) : m <= k}
      BY <1>1
    <3>2. Rank(s, k) # 0
      BY <3>1, FirstsFinite, FS_EmptySet DEF Rank
    <3> QED
      BY <1>1, <3>2, FirstsFinite
  <2>3. PICK n \in 1..c : n = Rank(s, k)
    BY <2>2
  <2>4. Nth(s, n) \in Firsts(s) /\ Rank(s, Nth(s, n)) = n
    BY NthProperties
  <2>5. Nth(s, n) = k
    BY <2>3, <2>4, RanksDiffer
  <2> QED
    BY <1>1, <2>1, <2>5 DEF Elements
<1> QED
  BY <1>2, <1>3

\* A repetition adds nothing, anything else is added at the end.
LEMMA FirstOccurrencesAppend ==
  ASSUME NEW S, NEW s \in Seq(S), NEW x \in S
  PROVE  FirstOccurrences(Append(s, x)) =
           IF x \in Elements(s) THEN FirstOccurrences(s)
           ELSE Append(FirstOccurrences(s), x)
<1> DEFINE t == Append(s, x)
           n == Len(s) + 1
           c == Cardinality(Firsts(s))
           o == FirstOccurrences(s)
<1>1. /\ t \in Seq(S) /\ Len(t) = n /\ Len(s) \in Nat /\ t[n] = x
      /\ \A k \in 1..Len(s) : t[k] = s[k]
  BY AppendProperties, LenProperties
<1>2. /\ c \in Nat /\ Firsts(s) \subseteq 1..Len(s) /\ IsFiniteSet(Firsts(s))
      /\ Firsts(t) \subseteq 1..n
  BY <1>1, FirstsFinite
<1> HIDE DEF t, n
<1>3. ASSUME NEW k \in 1..Len(s)
      PROVE  k \in Firsts(t) <=> k \in Firsts(s)
  <2>1. k \in 1..Len(t) /\ \A m \in 1..(k - 1) : m \in 1..Len(s)
    BY <1>1 DEF n
  <2> QED
    BY <1>1, <2>1 DEF Firsts
<1>4. n \in Firsts(t) <=> x \notin Elements(s)
  <2>1. n \in 1..Len(t) /\ n - 1 = Len(s)
    BY <1>1 DEF n
  <2>2. n \in Firsts(t) <=> \A m \in 1..Len(s) : s[m] # x
    BY <1>1, <2>1 DEF Firsts
  <2> QED
    BY <2>2 DEF Elements
<1>5. n \notin Firsts(s) /\ 1..n = (1..Len(s)) \cup {n}
  BY <1>1, <1>2 DEF n
<1>6. ASSUME NEW k \in 1..Len(s)
      PROVE  Rank(t, k) = Rank(s, k)
  <2>1. \A m \in Firsts(t) : m <= k => m \in 1..Len(s)
    BY <1>1, <1>2 DEF n
  <2>2. {m \in Firsts(t) : m <= k} = {m \in Firsts(s) : m <= k}
    BY <1>2, <1>3, <2>1
  <2> QED
    BY <2>2 DEF Rank
<1>7. o = [m \in 1..c |-> s[Nth(s, m)]] /\ o \in Seq(S) /\ Len(o) = c
  BY FirstOccurrencesDef, FirstOccurrencesType
<1>8. FirstOccurrences(t) = [m \in 1..Cardinality(Firsts(t)) |-> t[Nth(t, m)]]
  BY FirstOccurrencesDef
<1>9. CASE x \in Elements(s)
  <2>1. Firsts(t) = Firsts(s)
    BY <1>2, <1>3, <1>4, <1>5, <1>9
  <2>2. ASSUME NEW m \in 1..c
        PROVE  t[Nth(t, m)] = s[Nth(s, m)]
    <3>1. {k \in Firsts(t) : Rank(t, k) = m} = {k \in Firsts(s) : Rank(s, k) = m}
      BY <1>2, <1>6, <2>1
    <3>2. Nth(t, m) = Nth(s, m)
      BY <3>1 DEF Nth
    <3>3. Nth(s, m) \in 1..Len(s)
      BY <1>2, NthProperties
    <3> QED
      BY <1>1, <3>2, <3>3
  <2> QED
    BY <1>7, <1>8, <1>9, <2>1, <2>2 DEF t
<1>10. CASE x \notin Elements(s)
  <2>1. Firsts(t) = Firsts(s) \cup {n}
    BY <1>2, <1>3, <1>4, <1>5, <1>10
  <2>2. Cardinality(Firsts(t)) = c + 1
    BY <1>2, <1>5, <2>1, FS_AddElement
  <2>3. Rank(t, n) = c + 1
    <3>1. {m \in Firsts(t) : m <= n} = Firsts(t)
      BY <1>1, <1>2 DEF n
    <3> QED
      BY <2>2, <3>1 DEF Rank
  <2>4. ASSUME NEW m \in 1..c
        PROVE  t[Nth(t, m)] = s[Nth(s, m)]
    <3>0. m # c + 1
      BY <1>2
    <3>1. {k \in Firsts(t) : Rank(t, k) = m} = {k \in Firsts(s) : Rank(s, k) = m}
      BY <1>2, <1>6, <2>1, <2>3, <3>0
    <3>2. Nth(t, m) = Nth(s, m)
      BY <3>1 DEF Nth
    <3>3. Nth(s, m) \in 1..Len(s)
      BY <1>2, NthProperties
    <3> QED
      BY <1>1, <3>2, <3>3
  <2>5. t[Nth(t, c + 1)] = x
    <3>1. c + 1 \in 1..Cardinality(Firsts(t))
      BY <1>2, <2>2
    <3>2. Nth(t, c + 1) \in Firsts(t) /\ Rank(t, Nth(t, c + 1)) = c + 1
      BY <1>1, <3>1, NthProperties
    <3>3. Nth(t, c + 1) = n
      BY <1>1, <2>1, <2>3, <3>2, RanksDiffer
    <3> QED
      BY <1>1, <3>3
  <2> DEFINE a == Append(o, x)
             b == FirstOccurrences(t)
  <2>6. a \in Seq(S) /\ Len(a) = c + 1 /\ a[c + 1] = x /\ \A m \in 1..c : a[m] = o[m]
    <3>1. o \in Seq(S) /\ Len(o) = c
      BY <1>7
    <3> HIDE DEF o, c
    <3> QED
      BY <3>1, AppendProperties
  <2>7. b \in Seq(S) /\ Len(b) = c + 1
    BY <1>1, <2>2, FirstOccurrencesType
  <2>8. \A m \in 1..c : b[m] = o[m]
    BY <1>2, <1>7, <1>8, <2>2, <2>4
  <2>9. b[c + 1] = x
    BY <1>2, <1>8, <2>2, <2>5
  <2> HIDE DEF a, b, c
  <2>10. \A m \in 1..Len(a) : a[m] = b[m]
    BY <1>2, <2>6, <2>8, <2>9
  <2>11. a = b
    BY <2>6, <2>7, <2>10, SeqEqual
  <2> QED
    BY <1>10, <2>11 DEF a, b, t
<1> QED
  BY <1>9, <1>10

-----------------------------------------------------------------------------
(* Types: handlers and clerks. *)

Handlers == [client : Client, kind : Kinds, req : 1..MaxCalls, attempt : 0..MaxFailures,
             node : Node, step : Steps, index : Indexes]
Waiting == [kind : Kinds \cup {"none"}, req : 0..MaxCalls, node : Node,
            attempt : 0..MaxFailures]

LEMMA CallFacts ==
  ASSUME CallTypes
  PROVE  /\ calls \subseteq Handlers /\ call \in [Client -> Waiting]
         /\ requestId \in [Client -> 0..MaxCalls] /\ leaderId \in [Client -> Node]
         /\ failures \in 0..MaxFailures /\ timeouts \in 0..MaxTimeouts
         /\ acked \subseteq Ops /\ unseen \subseteq Ops
BY DEF CallTypes, Handlers, Waiting

LEMMA FromCallFacts ==
  ASSUME calls \subseteq Handlers, call \in [Client -> Waiting],
         requestId \in [Client -> 0..MaxCalls], leaderId \in [Client -> Node],
         failures \in 0..MaxFailures, timeouts \in 0..MaxTimeouts,
         acked \subseteq Ops, unseen \subseteq Ops
  PROVE  CallTypes
BY DEF CallTypes, Handlers, Waiting

LEMMA HandlerFields ==
  ASSUME NEW h \in Handlers
  PROVE  /\ h.client \in Client /\ h.kind \in Kinds /\ h.req \in 1..MaxCalls
         /\ h.attempt \in 0..MaxFailures /\ h.node \in Node /\ h.step \in Steps
         /\ h.index \in Indexes /\ Op(h) \in Ops
BY DEF Handlers, Op, Ops

\* The handler that h becomes, and the one a call starts.
After(h, s, k) == [h EXCEPT !.step = s, !.index = k]

LEMMA Moved ==
  ASSUME NEW h \in Handlers, NEW s \in Steps, NEW k \in Indexes
  PROVE  LET m == After(h, s, k)
         IN  /\ m \in Handlers
             /\ m.step = s /\ m.index = k /\ m.client = h.client /\ m.kind = h.kind
             /\ m.req = h.req /\ m.attempt = h.attempt /\ m.node = h.node
             /\ Op(m) = Op(h)
BY DEF Handlers, Op, After

LEMMA Arrived ==
  ASSUME NEW c \in Client, NEW kind \in Kinds, NEW r \in 1..MaxCalls,
         NEW a \in 0..MaxFailures, NEW i \in Node
  PROVE  LET n == Handler(c, kind, r, a, i)
         IN  /\ n \in Handlers /\ n.step = "arrived" /\ n.index = 0
             /\ n.client = c /\ n.kind = kind /\ n.req = r /\ n.attempt = a /\ n.node = i
             /\ Op(n) = <<c, r>>
BY IndexFacts DEF Handlers, Handler, Steps, Indexes, Op

LEMMA MovesTypes ==
  ASSUME TypeOK, NEW h \in calls, NEW s \in Steps, NEW k \in Indexes, Moves(h, s, k),
         UNCHANGED <<clerkVars, acked, unseen>>, timeouts' \in 0..MaxTimeouts
  PROVE  CallTypes'
<1>1. CallTypes
  BY DEF TypeOK
<1>2. h \in Handlers
  BY <1>1, CallFacts
<1>3. After(h, s, k) \in Handlers
  BY <1>2, Moved
<1>4. calls' \subseteq Handlers
  BY <1>1, <1>3, CallFacts DEF Moves, After
<1> HIDE DEF Moves
<1>5. CallTypes'
  BY <1>1, <1>4 DEF CallTypes, Handlers, clerkVars
<1> QED
  BY <1>5

LEMMA AnswerTypes ==
  ASSUME TypeOK, NEW h \in calls, NEW err, Answer(h, err), UNCHANGED timeouts,
         unseen' \subseteq Ops
  PROVE  CallTypes'
<1>1. CallTypes
  BY DEF TypeOK
<1>2. h \in Handlers /\ call[h.client] \in Waiting
  BY <1>1, CallFacts, HandlerFields
<1>3. /\ h.client \in Client /\ h.kind \in Kinds /\ h.req \in 1..MaxCalls
      /\ h.attempt \in 0..MaxFailures /\ h.node \in Node /\ Op(h) \in Ops
      /\ NextServer(h.node) \in Node
  BY <1>2, HandlerFields, NodeFacts
<1>4. Handler(h.client, h.kind, h.req, h.attempt, NextServer(h.node)) \in Handlers
  BY <1>3, Arrived
<1>5. calls' \subseteq Handlers
  BY <1>1, <1>4, CallFacts DEF Answer
<1>6. NoCall \in Waiting
  BY KvAssumption, NodeFacts DEF NoCall, Waiting
<1>7. [call[h.client] EXCEPT !.node = NextServer(h.node)] \in Waiting
  BY <1>2, <1>3 DEF Waiting
<1>8. \/ call' = call
      \/ call' = [call EXCEPT ![h.client] = NoCall]
      \/ call' = [call EXCEPT ![h.client] =
                    [call[h.client] EXCEPT !.node = NextServer(h.node)]]
  BY DEF Answer
<1>9. call' \in [Client -> Waiting]
  BY <1>1, <1>6, <1>7, <1>8, CallFacts
<1>10. leaderId' \in [Client -> Node]
  BY <1>1, <1>3, CallFacts DEF Answer
<1>11. acked' \subseteq Ops
  BY <1>1, <1>3, CallFacts DEF Answer, Op
<1>12. UNCHANGED <<requestId, failures>>
  BY DEF Answer
<1> QED
  BY <1>1, <1>5, <1>9, <1>10, <1>11, <1>12 DEF CallTypes, Handlers, Waiting

LEMMA ClerkTypes ==
  ASSUME TypeOK, RequestsInv, NEW c \in Client,
         RpcFailure(c) \/ \E kind \in Kinds : Call(c, kind)
  PROVE  TypeOK'
<1>1. CallTypes
  BY DEF TypeOK
<1>2. call[c] \in Waiting /\ requestId[c] \in 0..MaxCalls /\ leaderId[c] \in Node
  BY <1>1, CallFacts
<1>3. MaxCalls \in Nat /\ MaxFailures \in Nat
  BY KvAssumption
<1>4. ASSUME NEW kind \in Kinds, Call(c, kind)
      PROVE  CallTypes'
  <2>1. requestId[c] + 1 \in 1..MaxCalls /\ requestId[c] + 1 \in 0..MaxCalls
    BY <1>2, <1>3, <1>4 DEF Call
  <2>2. PICK r \in 1..MaxCalls : r = requestId[c] + 1 /\ r \in 0..MaxCalls
    BY <2>1
  <2>3. /\ requestId' = [requestId EXCEPT ![c] = r]
        /\ call' = [call EXCEPT ![c] =
             [kind |-> kind, req |-> r, node |-> leaderId[c], attempt |-> 0]]
        /\ calls' = calls \cup {Handler(c, kind, r, 0, leaderId[c])}
        /\ UNCHANGED <<timeouts, leaderId, failures, history>>
    BY <1>4, <2>2 DEF Call
  <2>4. 0 \in 0..MaxFailures
    BY <1>3
  <2>5. Handler(c, kind, r, 0, leaderId[c]) \in Handlers
    BY <1>2, <2>4, Arrived
  <2>6. [kind |-> kind, req |-> r, node |-> leaderId[c], attempt |-> 0] \in Waiting
    BY <1>2, <2>2, <2>4 DEF Waiting
  <2>7. calls' \subseteq Handlers /\ call' \in [Client -> Waiting]
        /\ requestId' \in [Client -> 0..MaxCalls]
    BY <1>1, <2>2, <2>3, <2>5, <2>6, CallFacts
  <2> QED
    BY <1>1, <2>3, <2>7 DEF CallTypes, Handlers, Waiting, history
<1>5. ASSUME RpcFailure(c)
      PROVE  CallTypes'
  <2>1. call[c].kind \in Kinds /\ call[c].req \in 1..MaxCalls
    <3>1. call[c].kind # "none"
      BY <1>5 DEF RpcFailure, Waits, RequestsInv, ClerkInv
    <3>2. call[c].req > 0
      BY <3>1 DEF RequestsInv, ClerkInv
    <3>3. call[c].kind \in Kinds \cup {"none"} /\ call[c].req \in 0..MaxCalls
      BY <1>2 DEF Waiting
    <3> QED
      BY <1>3, <3>1, <3>2, <3>3
  <2>2. call[c].attempt + 1 \in 0..MaxFailures /\ failures + 1 \in 0..MaxFailures
    <3>1. call[c].attempt \in Nat /\ failures \in Nat
      BY <1>1, <1>2, <1>3, CallFacts DEF Waiting
    <3>2. call[c].attempt <= failures /\ failures < MaxFailures
      BY <1>5 DEF RpcFailure, RequestsInv, ClerkInv
    <3> QED
      BY <1>3, <3>1, <3>2
  <2>3. PICK i \in {call[c].node, NextServer(call[c].node)}, a \in 0..MaxFailures :
          /\ call' = [call EXCEPT ![c] = [call[c] EXCEPT !.node = i, !.attempt = a]]
          /\ calls' = calls \cup {Handler(c, call[c].kind, call[c].req, a, i)}
    BY <1>5, <2>2 DEF RpcFailure
  <2>4. i \in Node
    BY <1>2, NodeFacts DEF Waiting
  <2>5. [call[c] EXCEPT !.node = i, !.attempt = a] \in Waiting
    BY <1>2, <2>4 DEF Waiting
  <2>6. Handler(c, call[c].kind, call[c].req, a, i) \in Handlers
    BY <2>1, <2>4, Arrived
  <2>7. calls' \subseteq Handlers /\ call' \in [Client -> Waiting]
    BY <1>1, <2>3, <2>5, <2>6, CallFacts
  <2>8. failures' \in 0..MaxFailures /\ UNCHANGED <<timeouts, requestId, leaderId, history>>
    BY <1>5, <2>2 DEF RpcFailure
  <2> QED
    BY <1>1, <2>7, <2>8 DEF CallTypes, Handlers, Waiting, history
<1>6. CallTypes'
  BY <1>4, <1>5
<1>7. UNCHANGED coreVars /\ UNCHANGED loopVars
  BY DEF RpcFailure, Call, coreVars, loopVars, raftVars, applyVars, serverVars, history
<1> QED
  BY <1>6, <1>7, CoreFrame, LoopFrame DEF TypeOK

LEMMA CallsFacts ==
  ASSUME TypeOK, NEW h \in calls
  PROVE  /\ h \in Handlers /\ h.client \in Client /\ h.node \in Node /\ h.req \in 1..MaxCalls
         /\ h.index \in Indexes /\ Op(h) \in Ops
BY CallFacts, HandlerFields DEF TypeOK

LEMMA ProposeTypes ==
  ASSUME TypeOK, NEW h \in calls, Propose(h)
  PROVE  TypeOK'
<1>1. h.node \in Node /\ Op(h) \in Ops /\ last[h.node] \in Indexes
  BY CallsFacts DEF TypeOK, CoreTypes
<1>2. PICK k : /\ last[h.node] < k /\ k <= MaxIndex
               /\ k \in {last[h.node] + 1} \cup {p[1] + 1 : p \in proposals}
               /\ proposals' = proposals \cup {<<k, Op(h)>>}
               /\ last' = [last EXCEPT ![h.node] = k]
               /\ Moves(h, "logged", k)
  BY DEF Propose
<1>3. k \in Indexes
  <2>1. \A p \in proposals : p[1] \in Nat
    BY IndexFacts DEF TypeOK, CoreTypes
  <2>2. k \in Nat
    BY <1>1, <1>2, <2>1, IndexFacts
  <2> QED
    BY <1>2, <2>2, IndexFacts DEF Indexes
<1>4. UNCHANGED <<committed, leading, elections, commit, shot, applyVars, loop,
                  serverVars, appliedChan, fault, timeouts, clerkVars, history>>
  BY DEF Propose
<1>5. CoreTypes'
  BY <1>1, <1>2, <1>3, <1>4 DEF TypeOK, CoreTypes, applyVars
<1>6. UNCHANGED loopVars
  BY <1>4 DEF loopVars, applyVars, serverVars, history
<1>7. CallTypes'
  <2>1. "logged" \in Steps /\ timeouts' \in 0..MaxTimeouts
    BY <1>4 DEF Steps, TypeOK, CallTypes
  <2>2. UNCHANGED <<clerkVars, acked, unseen>>
    BY <1>4 DEF history
  <2> QED
    BY <1>2, <1>3, <2>1, <2>2, MovesTypes
<1> QED
  BY <1>5, <1>6, <1>7, LoopFrame DEF TypeOK

\* A registration or its end changes one queue.
LEMMA ChanUpdate ==
  ASSUME TypeOK, NEW i \in Node, NEW k
  PROVE  /\ [appliedChan EXCEPT ![i][k] = None]
              \in [Node -> [1..MaxIndex -> Seq(Ops) \cup {None}]]
         /\ [appliedChan EXCEPT ![i][k] = IF appliedChan[i][k] = None THEN <<>>
                                          ELSE appliedChan[i][k]]
              \in [Node -> [1..MaxIndex -> Seq(Ops) \cup {None}]]
<1> DEFINE Queues == Seq(Ops) \cup {None}
           q == IF appliedChan[i][k] = None THEN <<>> ELSE appliedChan[i][k]
           a == [appliedChan[i] EXCEPT ![k] = None]
           b == [appliedChan[i] EXCEPT ![k] = q]
<1>1. appliedChan \in [Node -> [1..MaxIndex -> Queues]] /\ <<>> \in Queues
  BY EmptySeq DEF TypeOK, LoopTypes
<1>2. appliedChan[i] \in [1..MaxIndex -> Queues] /\ None \in Queues
  BY <1>1
<1>3. k \in 1..MaxIndex => q \in Queues
  BY <1>1, <1>2
<1> HIDE DEF Queues, q
<1>4. a \in [1..MaxIndex -> Queues] /\ b \in [1..MaxIndex -> Queues]
  BY <1>2, <1>3
<1> HIDE DEF a, b
<1>5. [appliedChan EXCEPT ![i] = a] \in [Node -> [1..MaxIndex -> Queues]]
  BY <1>1, <1>4
<1>6. [appliedChan EXCEPT ![i] = b] \in [Node -> [1..MaxIndex -> Queues]]
  BY <1>1, <1>4
<1> QED
  BY <1>5, <1>6 DEF a, b, q, Queues

LEMMA RegisterTypes ==
  ASSUME TypeOK, NEW h \in calls, Register(h)
  PROVE  TypeOK'
<1>1. h.node \in Node /\ h.index \in Indexes
  BY CallsFacts
<1>2. /\ Moves(h, "waiting", h.index)
      /\ appliedChan' = [appliedChan EXCEPT ![h.node][h.index] =
                           IF appliedChan[h.node][h.index] = None THEN <<>>
                           ELSE appliedChan[h.node][h.index]]
      /\ UNCHANGED <<raftVars, applyVars, loop, serverVars, fault, timeouts,
                     clerkVars, history>>
  BY DEF Register
<1>3. appliedChan' \in [Node -> [1..MaxIndex -> Seq(Ops) \cup {None}]]
  BY <1>1, <1>2, ChanUpdate
<1>4. LoopTypes'
  BY <1>2, <1>3 DEF TypeOK, LoopTypes, applyVars, serverVars, history
<1>5. UNCHANGED coreVars
  BY <1>2 DEF coreVars, raftVars, applyVars
<1>6. CallTypes'
  <2>1. "waiting" \in Steps /\ timeouts' \in 0..MaxTimeouts
    BY <1>2 DEF Steps, TypeOK, CallTypes
  <2>2. UNCHANGED <<clerkVars, acked, unseen>>
    BY <1>2 DEF history
  <2> QED
    BY <1>1, <1>2, <2>1, <2>2, MovesTypes
<1> QED
  BY <1>4, <1>5, <1>6, CoreFrame DEF TypeOK

LEMMA OtherMovesTypes ==
  ASSUME TypeOK, NEW h \in calls, GiveUp(h) \/ WaitApplied(h)
  PROVE  TypeOK'
<1>1. h.index \in Indexes /\ commit[h.node] \in Indexes
  BY CallsFacts DEF TypeOK, CoreTypes
<1>2. UNCHANGED <<raftVars, applyVars, loop, serverVars, appliedChan, fault,
                  clerkVars, history>>
  BY DEF GiveUp, WaitApplied
<1>3. PICK s \in Steps, k \in Indexes : Moves(h, s, k)
  BY <1>1 DEF GiveUp, WaitApplied, Steps
<1>4. timeouts' \in 0..MaxTimeouts
  <2>1. timeouts \in 0..MaxTimeouts /\ MaxTimeouts \in Nat
    BY KvAssumption DEF TypeOK, CallTypes
  <2>2. timeouts' = timeouts \/ (timeouts < MaxTimeouts /\ timeouts' = timeouts + 1)
    BY DEF GiveUp, WaitApplied
  <2> QED
    BY <2>1, <2>2
<1>5. UNCHANGED <<clerkVars, acked, unseen>>
  BY <1>2 DEF history
<1>6. CallTypes'
  BY <1>3, <1>4, <1>5, MovesTypes
<1>7. UNCHANGED coreVars /\ UNCHANGED loopVars
  BY <1>2 DEF coreVars, loopVars, raftVars, applyVars, serverVars, history
<1> QED
  BY <1>6, <1>7, CoreFrame, LoopFrame DEF TypeOK

LEMMA AnsweredTypes ==
  ASSUME TypeOK, NEW h \in calls, Refuse(h) \/ Pop(h) \/ AfterTimeout(h)
  PROVE  TypeOK'
<1>1. h.node \in Node
  BY CallsFacts
<1>2. UNCHANGED <<raftVars, applyVars, loop, serverVars, fault, timeouts, executed, unseen>>
  BY DEF Refuse, Pop, AfterTimeout
<1>3. PICK err : Answer(h, err)
  BY DEF Refuse, Pop, AfterTimeout
<1>4. CallTypes'
  <2>1. unseen' \subseteq Ops
    BY <1>2 DEF TypeOK, CallTypes
  <2> QED
    BY <1>2, <1>3, <2>1, AnswerTypes
<1>5. \/ appliedChan' = appliedChan
      \/ appliedChan' = [appliedChan EXCEPT ![h.node][h.index] = None]
  BY DEF Refuse, Pop, AfterTimeout, Unregister
<1>6. appliedChan' \in [Node -> [1..MaxIndex -> Seq(Ops) \cup {None}]]
  <2>1. CASE appliedChan' = appliedChan
    BY <2>1 DEF TypeOK, LoopTypes
  <2>2. CASE appliedChan' = [appliedChan EXCEPT ![h.node][h.index] = None]
    BY <1>1, <2>2, ChanUpdate
  <2> QED
    BY <1>5, <2>1, <2>2
<1>7. LoopTypes'
  BY <1>2, <1>6 DEF TypeOK, LoopTypes, applyVars, serverVars
<1>8. UNCHANGED coreVars
  BY <1>2 DEF coreVars, raftVars, applyVars
<1> QED
  BY <1>4, <1>7, <1>8, CoreFrame DEF TypeOK

LEMMA ReadTypes ==
  ASSUME TypeOK, NEW h \in calls, ExecuteGetOp(h) \/ WaitAppliedTimeout(h)
  PROVE  TypeOK'
<1>1. /\ h.node \in Node /\ h.client \in Client /\ h.req \in 0..MaxCalls
      /\ Op(h) \in Ops
  BY CallsFacts
<1>2. UNCHANGED <<raftVars, applyVars, loop, writes, appliedChan, fault, timeouts, executed>>
  BY DEF ExecuteGetOp, WaitAppliedTimeout, serverVars, history
<1>3. \/ lastRequestId' = lastRequestId
      \/ lastRequestId' = [lastRequestId EXCEPT ![h.node][h.client] = h.req]
  BY DEF ExecuteGetOp, WaitAppliedTimeout, serverVars
<1>4. lastRequestId' \in [Node -> [Client -> 0..MaxCalls]]
  <2>1. PICK i \in Node, c \in Client, r \in 0..MaxCalls :
          \/ lastRequestId' = lastRequestId
          \/ lastRequestId' = [lastRequestId EXCEPT ![i][c] = r]
    BY <1>1, <1>3
  <2>2. CASE lastRequestId' = lastRequestId
    BY <2>2 DEF TypeOK, LoopTypes
  <2>3. CASE lastRequestId' = [lastRequestId EXCEPT ![i][c] = r]
    <3>1. lastRequestId \in [Node -> [Client -> 0..MaxCalls]]
      BY DEF TypeOK, LoopTypes
    <3>2. [lastRequestId[i] EXCEPT ![c] = r] \in [Client -> 0..MaxCalls]
      BY <3>1
    <3>3. lastRequestId' = [lastRequestId EXCEPT ![i] = [lastRequestId[i] EXCEPT ![c] = r]]
      BY <2>3
    <3> QED
      BY <3>1, <3>2, <3>3
  <2> QED
    BY <2>1, <2>2, <2>3
<1>5. LoopTypes'
  BY <1>2, <1>4 DEF TypeOK, LoopTypes, applyVars
<1>6. unseen' \subseteq Ops
  BY <1>1 DEF ExecuteGetOp, WaitAppliedTimeout, history, TypeOK, CallTypes
<1>7. \/ Answer(h, "OK")
      \/ calls' = calls \ {h} /\ UNCHANGED <<clerkVars, acked>>
  BY DEF ExecuteGetOp, WaitAppliedTimeout, history
<1>8. CallTypes'
  <2>1. CASE Answer(h, "OK")
    BY <1>2, <1>6, <2>1, AnswerTypes
  <2>2. CASE calls' = calls \ {h} /\ UNCHANGED <<clerkVars, acked>>
    BY <1>2, <1>6, <2>2 DEF TypeOK, CallTypes, clerkVars
  <2> QED
    BY <1>7, <2>1, <2>2
<1>9. UNCHANGED coreVars
  BY <1>2 DEF coreVars, raftVars, applyVars
<1> QED
  BY <1>5, <1>8, <1>9, CoreFrame DEF TypeOK

LEMMA InitTypes == Init => TypeOK
<1> SUFFICES ASSUME Init PROVE TypeOK
  OBVIOUS
<1>1. 0 \in Indexes /\ 0 \in 0..MaxCalls /\ 0 \in 0..MaxFailures /\ 0 \in 0..MaxTimeouts
      /\ 0 \in 0..MaxElections /\ 0 \in Node
  BY KvAssumption, NodeFacts, IndexFacts DEF Indexes
<1>2. CoreTypes
  BY <1>1, EmptySeq DEF Init, CoreTypes
<1>3. Idle \in [step : {"idle", "checked", "executed"}, index : Indexes, duplicate : BOOLEAN]
  BY <1>1 DEF Idle
<1>4. LoopTypes
  BY <1>1, <1>3, EmptySeq DEF Init, LoopTypes
<1>5. NoCall \in Waiting
  BY <1>1 DEF NoCall, Waiting
<1>6. CallTypes
  BY <1>1, <1>5 DEF Init, CallTypes, Waiting
<1> QED
  BY <1>2, <1>4, <1>6 DEF TypeOK

\* What every step keeps of the types, given what it may rely on.
LEMMA NextTypes ==
  ASSUME TypeOK, IndexesInv, RequestsInv, [Next]_vars
  PROVE  TypeOK'
<1>1. CASE Commit
  BY <1>1, CommitTypes
<1>2. ASSUME NEW i \in Node, RaftStep(i)
      PROVE  TypeOK'
  BY <1>2, LearnTypes, ElectionTypes, ApplierTickTypes, ApplierPushTypes, InstallTypes,
     PushSnapshotTypes DEF RaftStep
<1>3. ASSUME NEW i \in Node, LoopStep(i)
      PROVE  TypeOK'
  BY <1>3, CheckTypes, ExecuteTypes, TryPushTypes, LoadTypes DEF LoopStep
<1>4. ASSUME NEW h \in calls, HandlerStep(h)
      PROVE  TypeOK'
  BY <1>4, ProposeTypes, RegisterTypes, OtherMovesTypes, AnsweredTypes, ReadTypes
     DEF HandlerStep
<1>5. ASSUME NEW c \in Client, RpcFailure(c) \/ \E kind \in Kinds : Call(c, kind)
      PROVE  TypeOK'
  BY <1>5, ClerkTypes
<1>6. CASE UNCHANGED vars
  <2>1. UNCHANGED coreVars /\ UNCHANGED loopVars /\ UNCHANGED callVars
    BY <1>6 DEF vars, coreVars, loopVars, callVars, raftVars, applyVars, serverVars,
                clerkVars, history
  <2> QED
    BY <2>1, CoreFrame, LoopFrame, CallFrame DEF TypeOK
<1> QED
  BY <1>1, <1>2, <1>3, <1>4, <1>5, <1>6 DEF Next

-----------------------------------------------------------------------------
(* Indexes. *)

indexVars == <<proposals, committed, commit, applied, shot, batch, queue, loop, pushers>>

LEMMA IndexesFrame == ASSUME IndexesInv, UNCHANGED indexVars PROVE IndexesInv'
BY DEF IndexesInv, HandsUpCommitted, Elements, indexVars

LEMMA NodeTypes ==
  ASSUME TypeOK, NEW i \in Node
  PROVE  /\ {last[i], commit[i], applied[i], shot[i], executed[i]} \subseteq Nat
         /\ batch[i] \in Seq(1..MaxIndex)
         /\ queue[i] \in Seq({"command", "snapshot"} \X (1..MaxIndex))
         /\ loop[i] \in [step : {"idle", "checked", "executed"}, index : Indexes,
                         duplicate : BOOLEAN]
         /\ committed \in Seq(Ops) /\ Len(committed) \in Nat
<1>1. /\ {last[i], commit[i], applied[i], shot[i], executed[i]} \subseteq Indexes
      /\ batch[i] \in Seq(1..MaxIndex)
      /\ queue[i] \in Seq({"command", "snapshot"} \X (1..MaxIndex))
      /\ loop[i] \in [step : {"idle", "checked", "executed"}, index : Indexes,
                         duplicate : BOOLEAN]
      /\ committed \in Seq(Ops)
  BY DEF TypeOK, CoreTypes, LoopTypes
<1>2. Indexes \subseteq Nat
  BY IndexFacts
<1> QED
  BY <1>1, <1>2, LenProperties

LEMMA CommitIndexes ==
  ASSUME TypeOK, IndexesInv, Commit
  PROVE  IndexesInv'
<1>1. PICK p \in proposals : p[1] = Len(committed) + 1 /\ committed' = Append(committed, p[2])
  BY DEF Commit
<1>2. p \in Indexes \X Ops /\ p = <<p[1], p[2]>> /\ committed \in Seq(Ops)
  BY DEF TypeOK, CoreTypes
<1>3. Len(committed) \in Nat /\ p[1] <= MaxIndex /\ MaxIndex \in Nat
  BY <1>2, LenProperties, IndexFacts DEF Indexes
<1>4. /\ Len(committed') = Len(committed) + 1
      /\ \A k \in 1..Len(committed) : committed'[k] = committed[k]
      /\ committed'[Len(committed) + 1] = p[2]
  BY <1>1, <1>2, AppendProperties
<1>5. UNCHANGED <<proposals, commit, applied, shot, batch, queue, loop, pushers>>
  BY DEF Commit, applyVars
<1>6. \A k \in 1..Len(committed') : <<k, committed'[k]>> \in proposals'
  <2>1. TAKE k \in 1..Len(committed')
  <2>2. CASE k \in 1..Len(committed)
    BY <1>4, <1>5, <2>2 DEF IndexesInv
  <2>3. CASE k = Len(committed) + 1
    BY <1>1, <1>2, <1>4, <1>5, <2>3
  <2> QED
    BY <1>3, <1>4, <2>2, <2>3
<1>7. ASSUME NEW i \in Node
      PROVE  HandsUpCommitted(i)'
  <2>1. HandsUpCommitted(i)
    BY DEF IndexesInv
  <2>2. /\ \A k \in Elements(batch[i]) : k \in Nat
        /\ \A m \in Elements(queue[i]) : m[2] \in Nat
        /\ loop[i].index \in Nat /\ commit[i] \in Nat
    <3>1. /\ Elements(batch[i]) \subseteq 1..MaxIndex
          /\ Elements(queue[i]) \subseteq {"command", "snapshot"} \X (1..MaxIndex)
      BY NodeTypes, ElementsTyped
    <3>2. loop[i].index \in Indexes
      BY NodeTypes
    <3> QED
      BY <3>1, <3>2, NodeTypes, IndexFacts
  <2>3. /\ Elements(batch[i])' = Elements(batch[i]) /\ Elements(queue[i])' = Elements(queue[i])
        /\ UNCHANGED <<commit[i], applied[i], shot[i], loop[i]>>
    BY <1>5 DEF Elements
  <2>4. PICK n \in Nat : n = Len(committed) /\ n + 1 = Len(committed')
    BY <1>3, <1>4
  <2>5. /\ commit[i] <= n + 1 /\ (loop[i].step # "idle" => loop[i].index \in 1..(n + 1))
        /\ applied[i] <= commit[i] /\ shot[i] <= commit[i]
    BY <2>1, <2>2, <2>4 DEF HandsUpCommitted
  <2>6. /\ \A k \in Elements(batch[i]) : k <= n + 1
        /\ \A m \in Elements(queue[i]) : m[2] <= n + 1
    BY <2>1, <2>2, <2>4 DEF HandsUpCommitted
  <2> QED
    BY <2>3, <2>4, <2>5, <2>6 DEF HandsUpCommitted
<1>8. \A p2 \in pushers' : p2[2] <= Len(committed')
  <2>1. \A p2 \in pushers : p2[2] \in Nat /\ p2[2] <= Len(committed)
    BY DEF IndexesInv, TypeOK, CoreTypes
  <2> QED
    BY <1>3, <1>4, <1>5, <2>1
<1> QED
  BY <1>1, <1>3, <1>4, <1>5, <1>6, <1>7, <1>8 DEF IndexesInv

\* A step of one node changes nothing of the indexes of the others.
LEMMA NodeStepIndexes ==
  ASSUME IndexesInv, NEW i \in Node, UNCHANGED <<proposals, committed>>,
         HandsUpCommitted(i)',
         \A j \in Node \ {i} : /\ UNCHANGED <<commit[j], applied[j], shot[j]>>
                               /\ UNCHANGED <<batch[j], queue[j], loop[j]>>,
         \A p \in pushers' : p[2] <= Len(committed)
  PROVE  IndexesInv'
<1>1. ASSUME NEW j \in Node \ {i}
      PROVE  HandsUpCommitted(j)'
  BY <1>1 DEF IndexesInv, HandsUpCommitted, Elements
<1>2. \A j \in Node : HandsUpCommitted(j)'
  BY <1>1
<1> QED
  BY <1>2 DEF IndexesInv

LEMMA CoreIndexes ==
  ASSUME TypeOK, IndexesInv, NEW i \in Node, RaftStep(i)
  PROVE  IndexesInv'
<1>1. /\ HandsUpCommitted(i)
      /\ {commit[i], applied[i], shot[i], Len(committed)} \subseteq Nat
      /\ \A p \in pushers : p[2] <= Len(committed)
      /\ batch[i] \in Seq(1..MaxIndex)
      /\ queue[i] \in Seq({"command", "snapshot"} \X (1..MaxIndex))
  BY NodeTypes DEF IndexesInv
<1>2. CASE Learn(i)
  <2>1. PICK k \in (commit[i] + 1)..Len(committed) :
          /\ commit' = [commit EXCEPT ![i] = k]
          /\ UNCHANGED <<proposals, committed, applied, shot, batch, queue, loop, pushers>>
    BY <1>2 DEF Learn, applyVars
  <2>2. commit'[i] = k /\ \A j \in Node \ {i} : commit'[j] = commit[j]
    BY <2>1 DEF TypeOK, CoreTypes
  <2>3. HandsUpCommitted(i)'
    BY <1>1, <2>1, <2>2 DEF HandsUpCommitted, Elements
  <2> QED
    BY <1>1, <2>1, <2>2, <2>3, NodeStepIndexes
<1>3. CASE Elected(i) \/ Deposed(i)
  <2>1. UNCHANGED indexVars
    BY <1>3 DEF Elected, Deposed, indexVars, applyVars
  <2> QED
    BY <2>1, IndexesFrame
<1>4. CASE ApplierTick(i)
  <2>1. PICK taken : /\ \A k \in Elements(taken) : k <= Len(committed)
                     /\ batch' = [batch EXCEPT ![i] = taken]
    BY <1>4, TakenTypes DEF ApplierTick
  <2>2. /\ applied' = [applied EXCEPT ![i] = commit[i]]
        /\ UNCHANGED <<proposals, committed, commit, shot, queue, loop, pushers>>
    BY <1>4 DEF ApplierTick, raftVars
  <2>3. /\ applied'[i] = commit[i] /\ batch'[i] = taken
        /\ \A j \in Node \ {i} : UNCHANGED <<applied[j], batch[j]>>
    BY <2>1, <2>2 DEF TypeOK, CoreTypes
  <2>4. HandsUpCommitted(i)'
    BY <1>1, <2>1, <2>2, <2>3 DEF HandsUpCommitted, Elements
  <2> QED
    BY <1>1, <2>2, <2>3, <2>4, NodeStepIndexes
<1>5. CASE ApplierPush(i)
  <2> DEFINE k == Head(batch[i])
  <2>1. /\ batch[i] # <<>>
        /\ batch' = [batch EXCEPT ![i] = Tail(batch[i])]
        /\ queue' = [queue EXCEPT ![i] = Append(queue[i], <<"command", k>>)]
        /\ UNCHANGED <<proposals, committed, commit, applied, shot, loop, pushers>>
    BY <1>5 DEF ApplierPush, raftVars
  <2>2. k \in Elements(batch[i]) /\ Elements(Tail(batch[i])) \subseteq Elements(batch[i])
    BY <1>1, <2>1, ElementsTail
  <2>3. Elements(Append(queue[i], <<"command", k>>)) = Elements(queue[i]) \cup {<<"command", k>>}
    BY <1>1, ElementsAppend
  <2>4. /\ batch'[i] = Tail(batch[i]) /\ queue'[i] = Append(queue[i], <<"command", k>>)
        /\ \A j \in Node \ {i} : UNCHANGED <<batch[j], queue[j]>>
    BY <2>1 DEF TypeOK, CoreTypes, LoopTypes
  <2>5. /\ Elements(batch[i])' = Elements(Tail(batch[i]))
        /\ Elements(queue[i])' = Elements(Append(queue[i], <<"command", k>>))
    BY <2>4 DEF Elements
  <2>6. /\ \A n \in Elements(batch[i])' : n <= Len(committed)
        /\ \A m \in Elements(queue[i])' : m[2] <= Len(committed)
    BY <1>1, <2>2, <2>3, <2>5 DEF HandsUpCommitted
  <2>7. HandsUpCommitted(i)'
    BY <1>1, <2>1, <2>6 DEF HandsUpCommitted
  <2> QED
    BY <1>1, <2>1, <2>4, <2>7, NodeStepIndexes
<1>6. ASSUME NEW j \in Node, InstallSnapshot(i, j)
      PROVE  IndexesInv'
  <2>1. shot[j] \in Nat /\ shot[j] <= Len(committed)
    <3>1. shot[j] \in Nat /\ commit[j] \in Nat /\ HandsUpCommitted(j)
      BY NodeTypes DEF IndexesInv
    <3> QED
      BY <1>1, <3>1 DEF HandsUpCommitted
  <2>2. PICK s \in Nat : s = shot[j]
    BY <2>1
  <2>3. /\ shot' = [shot EXCEPT ![i] = s]
        /\ commit' = [commit EXCEPT ![i] = Larger(commit[i], s)]
        /\ applied' = [applied EXCEPT ![i] = Larger(applied[i], s)]
        /\ pushers' = pushers \cup {<<i, s>>}
        /\ UNCHANGED <<proposals, committed, batch, queue, loop>>
    BY <1>6, <2>2 DEF InstallSnapshot
  <2>4. /\ shot'[i] = s /\ commit'[i] = Larger(commit[i], s)
        /\ applied'[i] = Larger(applied[i], s)
        /\ \A l \in Node \ {i} : UNCHANGED <<commit[l], applied[l], shot[l]>>
    BY <2>3 DEF TypeOK, CoreTypes
  <2>5. HandsUpCommitted(i)'
    BY <1>1, <2>1, <2>2, <2>3, <2>4 DEF HandsUpCommitted, Elements, Larger
  <2>6. \A p \in pushers' : p[2] <= Len(committed)
    BY <1>1, <2>1, <2>2, <2>3
  <2> QED
    BY <2>3, <2>4, <2>5, <2>6, NodeStepIndexes
<1>7. ASSUME NEW p \in pushers, p[1] = i, PushSnapshot(i, p[2])
      PROVE  IndexesInv'
  <2> DEFINE m == <<"snapshot", p[2]>>
  <2>1. /\ pushers' \subseteq pushers
        /\ queue' = [queue EXCEPT ![i] = Append(queue[i], m)]
        /\ UNCHANGED <<proposals, committed, commit, applied, shot, batch, loop>>
    BY <1>7 DEF PushSnapshot, raftVars
  <2>2. Elements(Append(queue[i], m)) = Elements(queue[i]) \cup {m}
    BY <1>1, ElementsAppend
  <2>3. queue'[i] = Append(queue[i], m) /\ \A j \in Node \ {i} : UNCHANGED queue[j]
    BY <2>1 DEF TypeOK, LoopTypes
  <2>4. Elements(queue[i])' = Elements(Append(queue[i], m)) /\ m[2] <= Len(committed)
    BY <1>1, <2>3 DEF Elements
  <2>5. Elements(batch[i])' = Elements(batch[i])
    BY <2>1 DEF Elements
  <2> HIDE DEF m
  <2>6. HandsUpCommitted(i)'
    BY <1>1, <2>1, <2>2, <2>4, <2>5 DEF HandsUpCommitted
  <2> QED
    BY <1>1, <2>1, <2>3, <2>6, NodeStepIndexes
<1> QED
  BY <1>2, <1>3, <1>4, <1>5, <1>6, <1>7 DEF RaftStep

LEMMA LoopIndexes ==
  ASSUME TypeOK, IndexesInv, NEW i \in Node, LoopStep(i)
  PROVE  IndexesInv'
<1>1. /\ HandsUpCommitted(i)
      /\ {commit[i], applied[i], shot[i], Len(committed)} \subseteq Nat
      /\ \A p \in pushers : p[2] <= Len(committed)
      /\ queue[i] \in Seq({"command", "snapshot"} \X (1..MaxIndex))
  BY NodeTypes DEF IndexesInv
<1>2. CASE CheckCommand(i)
  <2> DEFINE k == Head(queue[i])[2]
             next == [step |-> "checked", index |-> k,
                      duplicate |-> DuplicateRequest(i, committed[k])]
  <2>1. /\ queue[i] # <<>>
        /\ queue' = [queue EXCEPT ![i] = Tail(queue[i])]
        /\ loop' = [loop EXCEPT ![i] = next]
        /\ UNCHANGED <<proposals, committed, commit, applied, shot, batch, pushers>>
    BY <1>2 DEF CheckCommand, raftVars
  <2>2. /\ Elements(Tail(queue[i])) \subseteq Elements(queue[i])
        /\ Head(queue[i]) \in Elements(queue[i])
        /\ Head(queue[i]) \in {"command", "snapshot"} \X (1..MaxIndex)
    BY <1>1, <2>1, ElementsTail
  <2>3. k \in 1..Len(committed)
    BY <1>1, <2>2 DEF HandsUpCommitted
  <2>4. next.index = k
    OBVIOUS
  <2> HIDE DEF next, k
  <2>5. /\ queue'[i] = Tail(queue[i]) /\ loop'[i] = next
        /\ \A j \in Node \ {i} : UNCHANGED <<queue[j], loop[j]>>
    BY <2>1 DEF TypeOK, LoopTypes
  <2>6. /\ Elements(queue[i])' = Elements(Tail(queue[i]))
        /\ Elements(batch[i])' = Elements(batch[i])
    BY <2>1, <2>5 DEF Elements
  <2>7. HandsUpCommitted(i)'
    BY <1>1, <2>1, <2>2, <2>3, <2>4, <2>5, <2>6 DEF HandsUpCommitted
  <2> QED
    BY <1>1, <2>1, <2>5, <2>7, NodeStepIndexes
<1>3. CASE ExecutePutOp(i)
  <2>1. /\ loop[i].step = "checked" /\ loop' = [loop EXCEPT ![i].step = "executed"]
        /\ UNCHANGED <<proposals, committed, commit, applied, shot, batch, queue, pushers>>
    BY <1>3 DEF ExecutePutOp, raftVars, applyVars
  <2>2. loop'[i].index = loop[i].index /\ \A j \in Node \ {i} : UNCHANGED loop[j]
    BY <2>1 DEF TypeOK, LoopTypes
  <2>3. HandsUpCommitted(i)'
    BY <1>1, <2>1, <2>2 DEF HandsUpCommitted, Elements
  <2> QED
    BY <1>1, <2>1, <2>2, <2>3, NodeStepIndexes
<1>4. CASE TryPush2Wait(i)
  <2>1. /\ shot' = shot \/ (loop[i].index <= commit[i] /\ shot' = [shot EXCEPT ![i] = loop[i].index])
        /\ loop' = [loop EXCEPT ![i] = Idle]
        /\ UNCHANGED <<proposals, committed, commit, applied, batch, queue, pushers>>
    BY <1>4 DEF TryPush2Wait, MaySnapshot, applyVars
  <2>2. /\ shot'[i] = shot[i] \/ (loop[i].index <= commit[i] /\ shot'[i] = loop[i].index)
        /\ loop'[i] = Idle
        /\ \A j \in Node \ {i} : UNCHANGED <<shot[j], loop[j]>>
    BY <2>1 DEF TypeOK, CoreTypes, LoopTypes
  <2>3. Idle.step = "idle"
    BY DEF Idle
  <2>4. shot'[i] <= commit[i] /\ loop'[i].step = "idle"
    BY <1>1, <2>2, <2>3 DEF HandsUpCommitted
  <2>5. /\ Elements(queue[i])' = Elements(queue[i])
        /\ Elements(batch[i])' = Elements(batch[i])
    BY <2>1 DEF Elements
  <2>6. HandsUpCommitted(i)'
    BY <1>1, <2>1, <2>4, <2>5 DEF HandsUpCommitted
  <2> QED
    BY <1>1, <2>1, <2>2, <2>6, NodeStepIndexes
<1>5. CASE LoadSnapshot(i)
  <2>1. /\ queue[i] # <<>>
        /\ queue' = [queue EXCEPT ![i] = Tail(queue[i])]
        /\ UNCHANGED <<proposals, committed, commit, applied, shot, batch, loop, pushers>>
    BY <1>5 DEF LoadSnapshot
  <2>2. Elements(Tail(queue[i])) \subseteq Elements(queue[i])
    BY <1>1, <2>1, ElementsTail
  <2>3. queue'[i] = Tail(queue[i]) /\ \A j \in Node \ {i} : UNCHANGED queue[j]
    BY <2>1 DEF TypeOK, LoopTypes
  <2>4. /\ Elements(queue[i])' = Elements(Tail(queue[i]))
        /\ Elements(batch[i])' = Elements(batch[i])
    BY <2>1, <2>3 DEF Elements
  <2>5. HandsUpCommitted(i)'
    BY <1>1, <2>1, <2>2, <2>4 DEF HandsUpCommitted
  <2> QED
    BY <1>1, <2>1, <2>3, <2>5, NodeStepIndexes
<1> QED
  BY <1>2, <1>3, <1>4, <1>5 DEF LoopStep

LEMMA ProposeIndexes ==
  ASSUME TypeOK, IndexesInv, NEW h \in calls, Propose(h)
  PROVE  IndexesInv'
<1>1. PICK k : last[h.node] < k /\ proposals' = proposals \cup {<<k, Op(h)>>}
               /\ k \in {last[h.node] + 1} \cup {p[1] + 1 : p \in proposals}
  BY DEF Propose
<1>2. k > 0
  <2>1. last[h.node] \in Nat
    BY CallsFacts, NodeTypes
  <2>2. \A p \in proposals : p[1] \in Nat
    BY IndexFacts DEF TypeOK, CoreTypes
  <2> QED
    BY <1>1, <2>1, <2>2
<1>3. UNCHANGED <<committed, commit, applied, shot, batch, queue, loop, pushers>>
  BY DEF Propose, applyVars
<1>4. \A i \in Node : HandsUpCommitted(i)'
  BY <1>3 DEF IndexesInv, HandsUpCommitted, Elements
<1> QED
  BY <1>1, <1>2, <1>3, <1>4 DEF IndexesInv

LEMMA NextIndexes ==
  ASSUME TypeOK, IndexesInv, [Next]_vars
  PROVE  IndexesInv'
<1>1. CASE Commit
  BY <1>1, CommitIndexes
<1>2. ASSUME NEW i \in Node, RaftStep(i) \/ LoopStep(i)
      PROVE  IndexesInv'
  BY <1>2, CoreIndexes, LoopIndexes
<1>3. ASSUME NEW h \in calls, HandlerStep(h)
      PROVE  IndexesInv'
  <2>1. CASE Propose(h)
    BY <2>1, ProposeIndexes
  <2>2. CASE ~Propose(h)
    <3>1. UNCHANGED <<raftVars, applyVars, loop>>
      BY <1>3, <2>2
         DEF HandlerStep, Refuse, Register, Pop, GiveUp, AfterTimeout, WaitApplied,
             ExecuteGetOp, WaitAppliedTimeout
    <3> QED
      BY <3>1, IndexesFrame DEF raftVars, applyVars, indexVars
  <2> QED
    BY <2>1, <2>2
<1>4. ASSUME NEW c \in Client, RpcFailure(c) \/ \E kind \in Kinds : Call(c, kind)
      PROVE  IndexesInv'
  BY <1>4, IndexesFrame DEF RpcFailure, Call, raftVars, applyVars, indexVars
<1>5. CASE UNCHANGED vars
  BY <1>5, IndexesFrame DEF vars, raftVars, applyVars, indexVars
<1> QED
  BY <1>1, <1>2, <1>3, <1>4, <1>5 DEF Next

-----------------------------------------------------------------------------
(* The queues that handlers wait at. *)

AtQueue(h) == h.step \in {"waiting", "gave up"}

\* Nobody new has an index, and nobody who waits loses its queue.
LEMMA FewerWaiters ==
  ASSUME TypeOK, TypeOK', WaitersInv,
         \A i \in Node : last[i] <= last'[i],
         \A g \in calls' : g \in calls \/ ~Logs(g),
         \A g \in calls' : g \in calls /\ AtQueue(g) => appliedChan'[g.node][g.index] # None
  PROVE  WaitersInv'
<1>1. \A g \in calls' : Logs(g) => g \in calls
  OBVIOUS
<1>2. ASSUME NEW g \in calls', Logs(g)
      PROVE  g.index \in 1..last'[g.node]
  <2>1. g.index \in 1..last[g.node]
    BY <1>1, <1>2 DEF WaitersInv
  <2>2. g.node \in Node
    BY <1>1, <1>2, CallsFacts
  <2>3. last[g.node] \in Indexes /\ last'[g.node] \in Indexes
    BY <2>2 DEF TypeOK, CoreTypes
  <2>4. last[g.node] \in Nat /\ last'[g.node] \in Nat
    BY <2>3, IndexFacts
  <2> QED
    BY <2>1, <2>2, <2>4
<1>3. \A f, g \in calls' :
        Logs(f) /\ Logs(g) /\ f.node = g.node /\ f.index = g.index => f = g
  BY <1>1 DEF WaitersInv
<1>4. \A g \in calls' : AtQueue(g) => appliedChan'[g.node][g.index] # None
  BY <1>1 DEF AtQueue, Logs
<1> QED
  BY <1>2, <1>3, <1>4 DEF WaitersInv, Logs, AtQueue

\* Handler h, now m, has an index of its own.
LEMMA OneMoves ==
  ASSUME TypeOK, TypeOK', WaitersInv, NEW h \in calls, NEW m,
         calls' = (calls \ {h}) \cup {m},
         m.index \in 1..last'[m.node],
         \A g \in calls \ {h} : Logs(g) /\ g.node = m.node => g.index # m.index,
         \A i \in Node : last[i] <= last'[i],
         AtQueue(m) => appliedChan'[m.node][m.index] # None,
         \A g \in calls \ {h} : AtQueue(g) => appliedChan'[g.node][g.index] # None
  PROVE  WaitersInv'
<1>1. ASSUME NEW g \in calls', Logs(g)
      PROVE  g.index \in 1..last'[g.node]
  <2>1. CASE g = m
    BY <2>1
  <2>2. CASE g \in calls
    <3>1. g.index \in 1..last[g.node]
      BY <1>1, <2>2 DEF WaitersInv
    <3>2. g.node \in Node
      BY <2>2, CallsFacts
    <3>3. last[g.node] \in Indexes /\ last'[g.node] \in Indexes
      BY <3>2 DEF TypeOK, CoreTypes
    <3>4. last[g.node] \in Nat /\ last'[g.node] \in Nat
      BY <3>3, IndexFacts
    <3> QED
      BY <3>1, <3>2, <3>4
  <2> QED
    BY <2>1, <2>2
<1>2. \A f, g \in calls' :
        Logs(f) /\ Logs(g) /\ f.node = g.node /\ f.index = g.index => f = g
  BY DEF WaitersInv
<1>3. \A g \in calls' : AtQueue(g) => appliedChan'[g.node][g.index] # None
  OBVIOUS
<1> QED
  BY <1>1, <1>2, <1>3 DEF WaitersInv, Logs, AtQueue

LEMMA HasQueue ==
  ASSUME WaitersInv, NEW g \in calls, AtQueue(g)
  PROVE  appliedChan[g.node][g.index] # None
BY DEF WaitersInv, AtQueue

LEMMA NotNone == None \notin Seq(Ops)
<1>1. Ops \subseteq Client \X Nat
  BY KvAssumption DEF Ops
<1> QED
  BY <1>1, NoneAssumption, SeqMonotonic

\* The index of a handler that waits is one of the log.
LEMMA AtIndex ==
  ASSUME TypeOK, WaitersInv, NEW g \in calls, Logs(g) \/ AtQueue(g)
  PROVE  g.index \in 1..MaxIndex
<1>1. g.index \in 1..last[g.node]
  BY DEF WaitersInv, Logs, AtQueue
<1>2. last[g.node] \in 0..MaxIndex /\ MaxIndex \in Nat
  BY CallsFacts, IndexFacts DEF TypeOK, CoreTypes, Indexes
<1> QED
  BY <1>1, <1>2

LEMMA SystemWaiters ==
  ASSUME TypeOK, TypeOK', IndexesInv, WaitersInv,
         Commit \/ \E i \in Node : RaftStep(i) \/ LoopStep(i)
  PROVE  WaitersInv'
<1>1. \A i \in Node : last[i] \in Nat /\ last[i] <= last'[i]
  <2>1. TAKE i \in Node
  <2>2. last[i] \in Nat /\ \A j \in Node : commit[j] \in Nat /\ shot[j] \in Nat
    BY NodeTypes
  <2>3. \/ UNCHANGED last
        \/ \E j \in Node, k \in Nat : last' = [last EXCEPT ![j] = Larger(last[j], k)]
    <3>1. ASSUME NEW j \in Node, Learn(j)
          PROVE  \E k \in Nat : last' = [last EXCEPT ![j] = Larger(last[j], k)]
      <4>1. commit[j] \in Nat /\ Len(committed) \in Nat
        BY NodeTypes
      <4>2. PICK k \in (commit[j] + 1)..Len(committed) :
              last' = [last EXCEPT ![j] = Larger(last[j], k)]
        BY <3>1 DEF Learn
      <4>3. k \in Nat
        BY <4>1
      <4> QED
        BY <4>2, <4>3
    <3>2. ASSUME NEW j \in Node, NEW l \in Node, InstallSnapshot(j, l)
          PROVE  \E k \in Nat : last' = [last EXCEPT ![j] = Larger(last[j], k)]
      BY <2>2, <3>2 DEF InstallSnapshot
    <3> QED
      BY <3>1, <3>2
         DEF Commit, RaftStep, LoopStep, Elected, Deposed, ApplierTick, ApplierPush,
             PushSnapshot, CheckCommand, ExecutePutOp, TryPush2Wait, LoadSnapshot,
             raftVars
  <2>4. last \in [Node -> Nat]
    BY NodeTypes DEF TypeOK, CoreTypes
  <2>5. CASE UNCHANGED last
    BY <2>2, <2>5
  <2>6. ASSUME NEW j \in Node, NEW k \in Nat, last' = [last EXCEPT ![j] = Larger(last[j], k)]
        PROVE  last[i] <= last'[i]
    BY <2>4, <2>6 DEF Larger
  <2> QED
    BY <2>2, <2>3, <2>5, <2>6
<1>2. calls' \subseteq calls
  BY DEF Commit, RaftStep, LoopStep, Learn, Elected, Deposed, ApplierTick, ApplierPush,
         InstallSnapshot, PushSnapshot, CheckCommand, ExecutePutOp, TryPush2Wait,
         LoadSnapshot
<1>3. \/ UNCHANGED appliedChan
      \/ \E i \in Node : /\ TryPush2Wait(i)
                         /\ appliedChan[i][loop[i].index] # None
                         /\ appliedChan' = [appliedChan EXCEPT ![i][loop[i].index] =
                              Append(appliedChan[i][loop[i].index], committed[loop[i].index])]
  <2>1. (\E i \in Node : TryPush2Wait(i)) \/ UNCHANGED appliedChan
    BY DEF Commit, RaftStep, LoopStep, Learn, Elected, Deposed, ApplierTick, ApplierPush,
           InstallSnapshot, PushSnapshot, CheckCommand, ExecutePutOp, LoadSnapshot
  <2> QED
    BY <2>1 DEF TryPush2Wait
<1>4. ASSUME NEW g \in calls, AtQueue(g)
      PROVE  appliedChan'[g.node][g.index] # None
  <2>1. appliedChan[g.node][g.index] # None
    BY <1>4, HasQueue
  <2>2. CASE UNCHANGED appliedChan
    BY <2>1, <2>2
  <2>3. ASSUME NEW i \in Node, TryPush2Wait(i), appliedChan[i][loop[i].index] # None,
               appliedChan' = [appliedChan EXCEPT ![i][loop[i].index] =
                  Append(appliedChan[i][loop[i].index], committed[loop[i].index])]
        PROVE  appliedChan'[g.node][g.index] # None
    <3>1. PICK k \in 1..MaxIndex : k = loop[i].index /\ committed[k] \in Ops
      BY <2>3, LoopCommand DEF TryPush2Wait
    <3>2. appliedChan \in [Node -> [1..MaxIndex -> Seq(Ops) \cup {None}]]
      BY DEF TypeOK, LoopTypes
    <3>3. appliedChan[i] \in [1..MaxIndex -> Seq(Ops) \cup {None}]
      BY <3>2
    <3>4. appliedChan[i][k] \in Seq(Ops)
      BY <2>3, <3>1, <3>3
    <3> DEFINE q == Append(appliedChan[i][k], committed[k])
    <3>5. q \in Seq(Ops)
      BY <3>1, <3>4, AppendProperties
    <3>6. q # None
      BY <3>5, NotNone
    <3>7. appliedChan' = [appliedChan EXCEPT ![i] = [appliedChan[i] EXCEPT ![k] = q]]
      BY <2>3, <3>1
    <3> HIDE DEF q
    <3>8. \A j \in Node \ {i} : appliedChan'[j] = appliedChan[j]
      BY <3>2, <3>7
    <3>9. appliedChan'[i] = [appliedChan[i] EXCEPT ![k] = q]
      BY <3>2, <3>7
    <3>10. g.node \in Node
      BY CallsFacts
    <3>11. CASE g.node # i
      BY <2>1, <3>8, <3>10, <3>11
    <3>12. CASE g.node = i
      <4>1. g.index \in 1..MaxIndex
        BY <1>4, AtIndex
      <4> QED
        BY <2>1, <3>3, <3>6, <3>9, <3>12, <4>1
    <3> QED
      BY <3>11, <3>12
  <2> QED
    BY <1>3, <2>2, <2>3
<1> QED
  BY <1>1, <1>2, <1>4, FewerWaiters

\* One entry of the queues is set to q.
SetsQueue(i, k, q) == appliedChan' = [appliedChan EXCEPT ![i][k] = q]

LEMMA ChanEntry ==
  ASSUME TypeOK, NEW i \in Node, NEW k \in 1..MaxIndex,
         NEW q, SetsQueue(i, k, q)
  PROVE  /\ appliedChan'[i][k] = q
         /\ \A j \in Node, n \in 1..MaxIndex :
              j # i \/ n # k => appliedChan'[j][n] = appliedChan[j][n]
<1>1. appliedChan \in [Node -> [1..MaxIndex -> Seq(Ops) \cup {None}]]
  BY DEF TypeOK, LoopTypes
<1>2. appliedChan[i] \in [1..MaxIndex -> Seq(Ops) \cup {None}]
  BY <1>1
<1>3. appliedChan' = [appliedChan EXCEPT ![i] = [appliedChan[i] EXCEPT ![k] = q]]
  BY DEF SetsQueue
<1>4. appliedChan'[i] = [appliedChan[i] EXCEPT ![k] = q]
  BY <1>1, <1>3
<1>5. \A j \in Node : j # i => appliedChan'[j] = appliedChan[j]
  BY <1>1, <1>3
<1>6. \A n \in 1..MaxIndex : n # k => appliedChan'[i][n] = appliedChan[i][n]
  BY <1>2, <1>4
<1>7. appliedChan'[i][k] = q
  BY <1>2, <1>4
<1> QED
  BY <1>5, <1>6, <1>7

\* Whatever the answer, h is gone, and whoever asks again has no index yet.
LEMMA AnswerCalls ==
  ASSUME TypeOK, NEW h \in calls, NEW err, Answer(h, err)
  PROVE  /\ \A g \in calls' :
              \/ g \in calls \ {h}
              \/ /\ g.step = "arrived" /\ Op(g) = Op(h) /\ g.kind = h.kind
                 /\ g.client = h.client /\ g.req = h.req /\ Awaited(h)
         /\ \A g \in calls' : g \in calls \/ ~Logs(g)
         /\ \A g \in calls' : AtQueue(g) => g \in calls \ {h}
<1> DEFINE n == Handler(h.client, h.kind, h.req, h.attempt, NextServer(h.node))
<1>1. n.step = "arrived" /\ Op(n) = Op(h) /\ n.kind = h.kind /\ n.client = h.client
      /\ n.req = h.req
  BY DEF Handler, Op
<1> HIDE DEF n
<1>2. \/ calls' = calls \ {h}
      \/ Awaited(h) /\ calls' = (calls \ {h}) \cup {n}
  BY DEF Answer, n
<1>3. \A g \in calls' : g \in calls \ {h} \/ (g = n /\ Awaited(h))
  BY <1>2
<1> QED
  BY <1>1, <1>3 DEF Logs, AtQueue

LEMMA MovesCalls ==
  ASSUME NEW h \in calls, NEW s, NEW k, Moves(h, s, k)
  PROVE  calls' = (calls \ {h}) \cup {After(h, s, k)}
BY DEF Moves, After

LEMMA ProposeWaiters ==
  ASSUME TypeOK, TypeOK', WaitersInv, NEW h \in calls, Propose(h)
  PROVE  WaitersInv'
<1>1. h.node \in Node /\ h \in Handlers
  BY CallsFacts
<1>2. PICK k : /\ last[h.node] < k /\ k <= MaxIndex
               /\ last' = [last EXCEPT ![h.node] = k]
               /\ Moves(h, "logged", k)
  BY DEF Propose
<1>3. UNCHANGED appliedChan
  BY DEF Propose
<1>4. last \in [Node -> Indexes] /\ last' \in [Node -> Indexes]
  BY DEF TypeOK, CoreTypes
<1>5. last'[h.node] = k /\ k \in Indexes /\ \A j \in Node \ {h.node} : last'[j] = last[j]
  BY <1>1, <1>2, <1>4
<1>6. k \in Nat /\ last[h.node] \in Nat /\ \A j \in Node : last[j] \in Nat
  BY <1>1, <1>4, <1>5, IndexFacts
<1> DEFINE m == After(h, "logged", k)
<1>7. m.node = h.node /\ m.index = k /\ m.step = "logged"
  <2>1. "logged" \in Steps
    BY DEF Steps
  <2> QED
    BY <1>1, <1>5, <2>1, Moved
<1>8. calls' = (calls \ {h}) \cup {m}
  BY <1>2, MovesCalls
<1> HIDE DEF m
<1>9. m.index \in 1..last'[m.node]
  BY <1>2, <1>5, <1>6, <1>7
<1>10. \A i \in Node : last[i] <= last'[i]
  BY <1>2, <1>5, <1>6
<1>11. ASSUME NEW g \in calls \ {h}, Logs(g), g.node = m.node
       PROVE  g.index # m.index
  <2>1. g.index \in 1..last[h.node]
    BY <1>7, <1>11 DEF WaitersInv
  <2> QED
    BY <1>2, <1>6, <1>7, <2>1
<1>12. ~AtQueue(m)
  BY <1>7 DEF AtQueue
<1>13. \A g \in calls \ {h} : AtQueue(g) => appliedChan'[g.node][g.index] # None
  BY <1>3, HasQueue
<1> QED
  BY <1>8, <1>9, <1>10, <1>11, <1>12, <1>13, OneMoves

\* A handler that has an index goes on with it.
LEMMA SameIndex ==
  ASSUME TypeOK, TypeOK', WaitersInv, NEW h \in calls, Logs(h), UNCHANGED last,
         NEW s \in Steps, Moves(h, s, h.index),
         appliedChan'[h.node][h.index] # None,
         \A g \in calls \ {h} : AtQueue(g) => appliedChan'[g.node][g.index] # None
  PROVE  WaitersInv'
<1>1. h \in Handlers /\ h.index \in Indexes
  BY CallsFacts
<1> DEFINE m == After(h, s, h.index)
<1>2. m.node = h.node /\ m.index = h.index
  BY <1>1, Moved
<1>3. calls' = (calls \ {h}) \cup {m}
  BY MovesCalls
<1> HIDE DEF m
<1>4. m.index \in 1..last'[m.node]
  BY <1>2 DEF WaitersInv
<1>5. \A g \in calls \ {h} : Logs(g) /\ g.node = m.node => g.index # m.index
  BY <1>2 DEF WaitersInv
<1>6. \A i \in Node : last[i] <= last'[i]
  BY NodeTypes
<1> QED
  BY <1>2, <1>3, <1>4, <1>5, <1>6, OneMoves

LEMMA HandlerWaiters ==
  ASSUME TypeOK, TypeOK', WaitersInv, NEW h \in calls, HandlerStep(h)
  PROVE  WaitersInv'
<1>1. h.node \in Node /\ h \in Handlers
  BY CallsFacts
<1>2. CASE Propose(h)
  BY <1>2, ProposeWaiters
<1>3. CASE Register(h)
  <2>1. /\ Logs(h) /\ UNCHANGED last /\ Moves(h, "waiting", h.index) /\ "waiting" \in Steps
        /\ appliedChan' = [appliedChan EXCEPT ![h.node][h.index] =
                             IF appliedChan[h.node][h.index] = None THEN <<>>
                             ELSE appliedChan[h.node][h.index]]
    BY <1>3 DEF Register, Logs, raftVars, Steps
  <2>3. h.index \in 1..MaxIndex
    BY <2>1, AtIndex
  <2>2. PICK q : SetsQueue(h.node, h.index, q) /\ q # None
    BY <2>1, NotNone, EmptySeq DEF SetsQueue
  <2>4. appliedChan'[h.node][h.index] # None
    BY <1>1, <2>2, <2>3, ChanEntry
  <2>5. ASSUME NEW g \in calls \ {h}, AtQueue(g)
        PROVE  appliedChan'[g.node][g.index] # None
    <3>1. g.node \in Node /\ g.index \in 1..MaxIndex
      BY <2>5, CallsFacts, AtIndex
    <3>2. appliedChan[g.node][g.index] # None
      BY <2>5, HasQueue
    <3> QED
      BY <1>1, <2>2, <2>3, <3>1, <3>2, ChanEntry
  <2> QED
    BY <2>1, <2>4, <2>5, SameIndex
<1>4. CASE GiveUp(h)
  <2>1. /\ Logs(h) /\ AtQueue(h) /\ UNCHANGED <<last, appliedChan>>
        /\ Moves(h, "gave up", h.index) /\ "gave up" \in Steps
    BY <1>4 DEF GiveUp, Logs, AtQueue, raftVars, Steps
  <2>2. \A g \in calls : AtQueue(g) => appliedChan'[g.node][g.index] # None
    BY <2>1, HasQueue
  <2> QED
    BY <2>1, <2>2, SameIndex
<1>5. CASE Pop(h) \/ AfterTimeout(h)
  <2>1. /\ AtQueue(h) /\ UNCHANGED last
        /\ SetsQueue(h.node, h.index, None)
    BY <1>5 DEF Pop, AfterTimeout, AtQueue, raftVars, Unregister, SetsQueue
  <2>2. PICK err : Answer(h, err)
    BY <1>5 DEF Pop, AfterTimeout
  <2>3. h.index \in 1..MaxIndex
    BY <2>1, AtIndex
  <2>4. ASSUME NEW g \in calls', g \in calls, AtQueue(g)
        PROVE  appliedChan'[g.node][g.index] # None
    <3>1. g \in calls \ {h}
      BY <2>2, <2>4, AnswerCalls
    <3>2. g.node \in Node /\ g.index \in 1..MaxIndex
      BY <2>4, CallsFacts, AtIndex
    <3>3. appliedChan[g.node][g.index] # None
      BY <2>4, HasQueue
    <3>4. ~(g.node = h.node /\ g.index = h.index)
      BY <2>1, <2>4, <3>1 DEF WaitersInv, Logs, AtQueue
    <3> QED
      BY <1>1, <2>1, <2>3, <3>2, <3>3, <3>4, ChanEntry
  <2>5. \A i \in Node : last[i] <= last'[i]
    BY <2>1, NodeTypes
  <2>6. \A g \in calls' : g \in calls \/ ~Logs(g)
    BY <2>2, AnswerCalls
  <2> QED
    BY <2>4, <2>5, <2>6, FewerWaiters
<1>6. CASE Refuse(h) \/ WaitApplied(h) \/ ExecuteGetOp(h) \/ WaitAppliedTimeout(h)
  <2>1. UNCHANGED <<last, appliedChan>>
    BY <1>6 DEF Refuse, WaitApplied, ExecuteGetOp, WaitAppliedTimeout, raftVars
  <2>2. \A g \in calls' : g \in calls \/ ~Logs(g)
    <3>1. CASE \E err : Answer(h, err)
      BY <3>1, AnswerCalls
    <3>2. CASE calls' = calls \ {h}
      BY <3>2
    <3>3. CASE WaitApplied(h)
      <4>1. calls' = (calls \ {h}) \cup {After(h, "reading", commit[h.node])}
        BY <3>3, MovesCalls DEF WaitApplied
      <4>2. commit[h.node] \in Indexes
        BY <1>1 DEF TypeOK, CoreTypes
      <4>3. After(h, "reading", commit[h.node]).step = "reading"
        <5>1. "reading" \in Steps
          BY DEF Steps
        <5> QED
          BY <1>1, <4>2, <5>1, Moved
      <4> QED
        BY <4>1, <4>3 DEF Logs
    <3> QED
      BY <1>6, <3>1, <3>2, <3>3 DEF Refuse, ExecuteGetOp, WaitAppliedTimeout
  <2>3. \A g \in calls : AtQueue(g) => appliedChan'[g.node][g.index] # None
    BY <2>1, HasQueue
  <2>4. \A i \in Node : last[i] <= last'[i]
    BY <2>1, NodeTypes
  <2> QED
    BY <2>2, <2>3, <2>4, FewerWaiters
<1> QED
  BY <1>2, <1>3, <1>4, <1>5, <1>6 DEF HandlerStep

LEMMA NextWaiters ==
  ASSUME TypeOK, TypeOK', IndexesInv, WaitersInv, [Next]_vars
  PROVE  WaitersInv'
<1>1. CASE Commit \/ \E i \in Node : RaftStep(i) \/ LoopStep(i)
  BY <1>1, SystemWaiters
<1>2. ASSUME NEW h \in calls, HandlerStep(h)
      PROVE  WaitersInv'
  BY <1>2, HandlerWaiters
<1>3. ASSUME NEW c \in Client, RpcFailure(c) \/ \E kind \in Kinds : Call(c, kind)
      PROVE  WaitersInv'
  <2>1. UNCHANGED <<last, appliedChan>>
    BY <1>3 DEF RpcFailure, Call, raftVars
  <2>2. \A g \in calls' : g \in calls \/ g.step = "arrived"
    BY <1>3 DEF RpcFailure, Call, Handler
  <2>3. \A g \in calls' : g \in calls \/ ~Logs(g)
    BY <2>2 DEF Logs
  <2>4. \A g \in calls : AtQueue(g) => appliedChan'[g.node][g.index] # None
    BY <2>1, HasQueue
  <2>5. \A i \in Node : last[i] <= last'[i]
    BY <2>1, NodeTypes
  <2> QED
    BY <2>3, <2>4, <2>5, FewerWaiters
<1>4. CASE UNCHANGED vars
  BY <1>4 DEF vars, raftVars, WaitersInv
<1> QED
  BY <1>1, <1>2, <1>3, <1>4 DEF Next

-----------------------------------------------------------------------------
(* Requests. *)

requestVars == <<call, requestId, failures, calls, proposals, committed, lastRequestId>>

\* Known and Pending, as far as they depend on the state, are kept.
LEMMA RequestsFrame ==
  ASSUME RequestsInv, UNCHANGED <<call, requestId, failures, proposals, committed>>,
         \A g \in calls' : g \in calls \/ HandlerInv(g),
         \A i \in Node, c \in Client : Known(<<c, lastRequestId'[i][c]>>)
  PROVE  RequestsInv'
<1>1. \A g : HandlerInv(g) => HandlerInv(g)'
  BY DEF HandlerInv, Known, Pending, AwaitedPut, Elements
<1>2. \A g \in calls' : HandlerInv(g)'
  BY <1>1 DEF RequestsInv
<1>3. \A c \in Client : ClerkInv(c)'
  BY DEF RequestsInv, ClerkInv
<1>4. \A p \in proposals' : (Known(p[2]) /\ Pending(p[2]))'
  BY DEF RequestsInv, Known, Pending, AwaitedPut, Elements
<1>5. \A i \in Node, c \in Client : Known(<<c, lastRequestId[i][c]>>)'
  BY DEF Known
<1> QED
  BY <1>2, <1>3, <1>4, <1>5 DEF RequestsInv

LEMMA SameLatest ==
  ASSUME RequestsInv, UNCHANGED lastRequestId
  PROVE  \A i \in Node, c \in Client : Known(<<c, lastRequestId'[i][c]>>)
BY DEF RequestsInv

LEMMA CommittedKnown ==
  ASSUME TypeOK, IndexesInv, RequestsInv, NEW op \in Elements(committed)
  PROVE  Known(op) /\ op \in Ops
<1>1. PICK k \in 1..Len(committed) : op = committed[k]
  BY DEF Elements
<1>2. <<k, committed[k]>> \in proposals
  BY DEF IndexesInv
<1>3. <<k, committed[k]>>[2] = op
  BY <1>1
<1>4. op \in Ops
  BY <1>1, ElementOfSeq DEF TypeOK, CoreTypes
<1> QED
  BY <1>2, <1>3, <1>4 DEF RequestsInv

LEMMA CommitElements ==
  ASSUME TypeOK, NEW p \in proposals, committed' = Append(committed, p[2])
  PROVE  /\ Elements(committed)' = Elements(committed) \cup {p[2]}
         /\ p[2] \in Ops /\ committed \in Seq(Ops)
<1>1. p[2] \in Ops /\ committed \in Seq(Ops)
  BY DEF TypeOK, CoreTypes
<1>2. Elements(Append(committed, p[2])) = Elements(committed) \cup {p[2]}
  BY <1>1, ElementsAppend
<1>3. Elements(committed)' = Elements(Append(committed, p[2]))
  BY DEF Elements
<1> QED
  BY <1>1, <1>2, <1>3

LEMMA CommitRequests ==
  ASSUME TypeOK, RequestsInv, Commit
  PROVE  RequestsInv'
<1>1. PICK p \in proposals : committed' = Append(committed, p[2])
  BY DEF Commit
<1>2. Elements(committed) \subseteq Elements(committed)'
  BY <1>1, CommitElements
<1>3. UNCHANGED <<call, requestId, failures, calls, proposals, lastRequestId>>
  BY DEF Commit, clerkVars, serverVars
<1>4. \A op : Known(op)' = Known(op) /\ AwaitedPut(op)' = AwaitedPut(op)
  BY <1>3 DEF Known, AwaitedPut
<1>5. \A op : Pending(op) => Pending(op)'
  BY <1>2, <1>4 DEF Pending
<1>6. \A g \in calls' : HandlerInv(g)'
  BY <1>3, <1>5 DEF RequestsInv, HandlerInv, Known, Op
<1>7. \A c \in Client : ClerkInv(c)'
  BY <1>3 DEF RequestsInv, ClerkInv
<1>8. \A i \in Node, c \in Client : Known(<<c, lastRequestId[i][c]>>)'
  BY <1>3 DEF RequestsInv, Known
<1>9. \A q \in proposals' : (Known(q[2]) /\ Pending(q[2]))'
  BY <1>3, <1>4, <1>5 DEF RequestsInv
<1> QED
  BY <1>6, <1>7, <1>8, <1>9 DEF RequestsInv

\* One entry of the table of requests is set to r.
SetsLatest(i, c, r) == lastRequestId' = [lastRequestId EXCEPT ![i][c] = r]

LEMMA LatestEntry ==
  ASSUME TypeOK, NEW i \in Node, NEW c \in Client, NEW r, SetsLatest(i, c, r)
  PROVE  /\ lastRequestId'[i][c] = r
         /\ \A j \in Node, d \in Client :
              j # i \/ d # c => lastRequestId'[j][d] = lastRequestId[j][d]
<1>1. lastRequestId \in [Node -> [Client -> 0..MaxCalls]]
  BY DEF TypeOK, LoopTypes
<1>2. lastRequestId[i] \in [Client -> 0..MaxCalls]
  BY <1>1
<1>3. lastRequestId' = [lastRequestId EXCEPT ![i] = [lastRequestId[i] EXCEPT ![c] = r]]
  BY DEF SetsLatest
<1>4. lastRequestId'[i] = [lastRequestId[i] EXCEPT ![c] = r]
  BY <1>1, <1>3
<1>5. \A j \in Node : j # i => lastRequestId'[j] = lastRequestId[j]
  BY <1>1, <1>3
<1>6. \A d \in Client : d # c => lastRequestId'[i][d] = lastRequestId[i][d]
  BY <1>2, <1>4
<1>7. lastRequestId'[i][c] = r
  BY <1>2, <1>4
<1> QED
  BY <1>5, <1>6, <1>7

LEMMA LatestKnown ==
  ASSUME TypeOK, RequestsInv, NEW i \in Node, NEW c \in Client, NEW r, SetsLatest(i, c, r),
         Known(<<c, r>>)
  PROVE  \A j \in Node, d \in Client : Known(<<d, lastRequestId'[j][d]>>)
<1>1. \A j \in Node, d \in Client :
        \/ j = i /\ d = c /\ lastRequestId'[j][d] = r
        \/ lastRequestId'[j][d] = lastRequestId[j][d]
  BY LatestEntry
<1> QED
  BY <1>1 DEF RequestsInv

LEMMA LoopRequests ==
  ASSUME TypeOK, IndexesInv, RequestsInv, NEW i \in Node, RaftStep(i) \/ LoopStep(i)
  PROVE  RequestsInv'
<1>1. UNCHANGED <<call, requestId, failures, proposals, committed>> /\ calls' \subseteq calls
  BY DEF RaftStep, LoopStep, Learn, Elected, Deposed, ApplierTick, ApplierPush,
         InstallSnapshot, PushSnapshot, CheckCommand, ExecutePutOp, TryPush2Wait,
         LoadSnapshot, raftVars, clerkVars
<1>2. UNCHANGED lastRequestId \/ ExecutePutOp(i)
  BY DEF RaftStep, LoopStep, Learn, Elected, Deposed, ApplierTick, ApplierPush,
         InstallSnapshot, PushSnapshot, CheckCommand, TryPush2Wait,
         LoadSnapshot, serverVars
<1>3. CASE UNCHANGED lastRequestId
  BY <1>1, <1>3, SameLatest, RequestsFrame
<1>4. CASE ExecutePutOp(i) /\ ~UNCHANGED lastRequestId
  <2> DEFINE op == committed[loop[i].index]
  <2>1. SetsLatest(i, op[1], op[2]) /\ loop[i].step # "idle"
    BY <1>4 DEF ExecutePutOp, serverVars, SetsLatest
  <2>2. op \in Elements(committed)
    BY <2>1, LoopCommand
  <2> HIDE DEF op
  <2>3. Known(op) /\ op[1] \in Client /\ op = <<op[1], op[2]>>
    BY <2>2, CommittedKnown, OpTypes
  <2>4. \A j \in Node, d \in Client : Known(<<d, lastRequestId'[j][d]>>)
    BY <2>1, <2>3, LatestKnown
  <2> QED
    BY <1>1, <2>4, RequestsFrame
<1> QED
  BY <1>2, <1>3, <1>4

LEMMA CallsKnown ==
  ASSUME RequestsInv, NEW h \in calls
  PROVE  HandlerInv(h)
BY DEF RequestsInv

\* A handler that goes on stays what it is.
LEMMA MovesRequests ==
  ASSUME TypeOK, RequestsInv, NEW h \in calls, NEW s \in Steps, NEW k \in Indexes,
         Moves(h, s, k), s = "reading" => h.kind = "get",
         s \in {"logged", "waiting", "gave up"} => h.kind = "put"
  PROVE  \A g \in calls' : g \in calls \/ HandlerInv(g)
<1> DEFINE m == After(h, s, k)
<1>1. h \in Handlers
  BY CallsFacts
<1>2. /\ m.step = s /\ m.client = h.client /\ m.kind = h.kind
      /\ m.req = h.req /\ Op(m) = Op(h)
  BY <1>1 DEF After, Op, Handlers
<1>3. calls' = (calls \ {h}) \cup {m}
  BY MovesCalls
<1> HIDE DEF m
<1>4. HandlerInv(h)
  BY CallsKnown
<1>5. HandlerInv(m)
  BY <1>2, <1>4 DEF HandlerInv, Logs
<1> QED
  BY <1>3, <1>5

LEMMA ProposeRequests ==
  ASSUME TypeOK, RequestsInv, NEW h \in calls, Propose(h)
  PROVE  RequestsInv'
<1>1. PICK k : /\ last[h.node] < k /\ k <= MaxIndex
               /\ last' = [last EXCEPT ![h.node] = k]
               /\ proposals' = proposals \cup {<<k, Op(h)>>}
               /\ Moves(h, "logged", k)
  BY DEF Propose
<1>2. /\ h.kind = "put"
      /\ UNCHANGED <<call, requestId, failures, committed, lastRequestId>>
  BY DEF Propose, clerkVars, serverVars
<1>3. HandlerInv(h)
  BY CallsKnown
<1>4. \A op : Known(op)' = Known(op) /\ Pending(op)' = Pending(op)
  BY <1>2 DEF Known, Pending, AwaitedPut, Elements
<1>5. \A p \in proposals' : (Known(p[2]) /\ Pending(p[2]))'
  BY <1>1, <1>2, <1>3, <1>4 DEF RequestsInv, HandlerInv
<1> DEFINE m == After(h, "logged", k)
<1>6. h \in Handlers
  BY CallsFacts
<1>7. /\ m.step = "logged" /\ m.client = h.client /\ m.kind = h.kind
      /\ m.req = h.req /\ Op(m) = Op(h)
  BY <1>6 DEF After, Op, Handlers
<1>8. calls' = (calls \ {h}) \cup {m}
  BY <1>1, MovesCalls
<1> HIDE DEF m
<1>9. HandlerInv(m)
  BY <1>2, <1>3, <1>7 DEF HandlerInv, Logs
<1>10. \A g : HandlerInv(g) => HandlerInv(g)'
  BY <1>2, <1>4 DEF HandlerInv, Logs, Op
<1>11. \A g \in calls' : HandlerInv(g)'
  BY <1>8, <1>9, <1>10 DEF RequestsInv
<1>12. \A c \in Client : ClerkInv(c)'
  BY <1>2 DEF RequestsInv, ClerkInv
<1>13. \A i \in Node, c \in Client : Known(<<c, lastRequestId[i][c]>>)'
  BY <1>2 DEF RequestsInv, Known
<1> QED
  BY <1>5, <1>11, <1>12, <1>13 DEF RequestsInv

\* The call of c becomes w.
SetsCall(c, w) == call' = [call EXCEPT ![c] = w]

LEMMA CallEntry ==
  ASSUME TypeOK, NEW c \in Client, NEW w, SetsCall(c, w)
  PROVE  /\ call'[c] = w
         /\ \A d \in Client : d # c => call'[d] = call[d]
BY CallFacts DEF SetsCall, TypeOK

\* What an answer does to the clerk.
LEMMA AnswerCases ==
  ASSUME NEW h, NEW err, Answer(h, err)
  PROVE  /\ UNCHANGED <<requestId, failures>>
         /\ \/ UNCHANGED <<call, acked>>
            \/ /\ Awaited(h) /\ UNCHANGED acked
               /\ \E i : SetsCall(h.client, [call[h.client] EXCEPT !.node = i])
            \/ /\ Awaited(h) /\ err = "OK" /\ SetsCall(h.client, NoCall)
               /\ acked' = IF h.kind = "put" THEN acked \cup {Op(h)} ELSE acked
BY DEF Answer, SetsCall, Op

LEMMA ProposalTypes ==
  ASSUME TypeOK, NEW p \in proposals
  PROVE  p[2] \in Ops /\ p[2][1] \in Client /\ p[2] = <<p[2][1], p[2][2]>>
BY OpTypes DEF TypeOK, CoreTypes

\* The clerks still want what they wanted.
LEMMA SameRequests ==
  ASSUME TypeOK, RequestsInv, UNCHANGED <<requestId, proposals, committed>>,
         \A d \in Client : call'[d].kind = call[d].kind /\ call'[d].req = call[d].req,
         \A d \in Client : ClerkInv(d)',
         \A g \in calls' : g \in calls \/ (HandlerInv(g) /\ g.client \in Client),
         \A i \in Node, c \in Client : Known(<<c, lastRequestId'[i][c]>>)
  PROVE  RequestsInv'
<1>1. \A op : op[1] \in Client => Known(op)' = Known(op) /\ Pending(op)' = Pending(op)
  BY DEF Known, Pending, AwaitedPut, Elements
<1>2. \A p \in proposals' : (Known(p[2]) /\ Pending(p[2]))'
  BY <1>1, ProposalTypes DEF RequestsInv
<1>3. \A g \in calls' : HandlerInv(g) /\ g.client \in Client
  BY CallsKnown, CallsFacts
<1>4. ASSUME NEW g \in calls'
      PROVE  HandlerInv(g)'
  <2>1. HandlerInv(g) /\ g.client \in Client /\ Op(g)[1] = g.client
    BY <1>3 DEF Op
  <2>2. Known(Op(g))' = Known(Op(g)) /\ Pending(Op(g))' = Pending(Op(g))
    BY <1>1, <2>1 DEF Op
  <2>3. call'[g.client].kind = call[g.client].kind /\ call'[g.client].req = call[g.client].req
    BY <2>1
  <2> QED
    BY <2>1, <2>2, <2>3 DEF HandlerInv, Logs
<1>5. \A i \in Node, c \in Client : Known(<<c, lastRequestId[i][c]>>)'
  BY DEF Known
<1> QED
  BY <1>2, <1>4, <1>5 DEF RequestsInv

\* An answer ends a call only when its put is committed.
LEMMA AnswerRequests ==
  ASSUME TypeOK, RequestsInv, NEW h \in calls, NEW err, Answer(h, err),
         UNCHANGED <<proposals, committed>>,
         Awaited(h) /\ err = "OK" /\ h.kind = "put" => Op(h) \in Elements(committed),
         \A i \in Node, c \in Client : Known(<<c, lastRequestId'[i][c]>>)
  PROVE  RequestsInv'
<1>1. h \in Handlers /\ HandlerInv(h) /\ h.client \in Client /\ h.req \in 1..MaxCalls
  BY CallsFacts, CallsKnown
<1>2. h.kind # "none"
  <2>1. h.kind \in Kinds /\ Kinds \subseteq {"put", "get"}
    BY <1>1, HandlerFields, KvAssumption
  <2> QED
    BY <2>1
<1>3. UNCHANGED <<requestId, failures>>
  BY AnswerCases
<1>4. call \in [Client -> Waiting] /\ failures \in Nat
  BY CallFacts, KvAssumption DEF TypeOK
<1> DEFINE c == h.client
<1>5. \A g \in calls' : g \in calls \/ (HandlerInv(g) /\ g.client \in Client)
  BY <1>1, AnswerCalls DEF HandlerInv, Logs
<1>6. CASE UNCHANGED call
  <2>1. \A d \in Client : ClerkInv(d)'
    BY <1>3, <1>6 DEF RequestsInv, ClerkInv
  <2> QED
    BY <1>3, <1>5, <1>6, <2>1, SameRequests
<1>7. ASSUME Awaited(h), NEW i, SetsCall(c, [call[c] EXCEPT !.node = i])
      PROVE  RequestsInv'
  <2>1. call'[c] = [call[c] EXCEPT !.node = i] /\ \A d \in Client : d # c => call'[d] = call[d]
    BY <1>1, <1>7, CallEntry
  <2>2. call[c] \in Waiting
    BY <1>1, <1>4
  <2>3. /\ call'[c].kind = call[c].kind /\ call'[c].req = call[c].req
        /\ call'[c].attempt = call[c].attempt
    BY <2>1, <2>2 DEF Waiting
  <2>4. call[c].kind # "none"
    BY <1>2, <1>7 DEF Awaited
  <2>5. \A d \in Client : ClerkInv(d)'
    <3>1. TAKE d \in Client
    <3>2. ClerkInv(d)
      BY DEF RequestsInv
    <3> QED
      BY <1>3, <2>1, <2>3, <2>4, <3>2 DEF ClerkInv
  <2>6. \A d \in Client : call'[d].kind = call[d].kind /\ call'[d].req = call[d].req
    BY <2>1, <2>3
  <2> QED
    BY <1>3, <1>5, <2>5, <2>6, SameRequests
<1>8. CASE Awaited(h) /\ err = "OK" /\ SetsCall(c, NoCall)
  <2>1. call'[c] = NoCall /\ \A d \in Client : d # c => call'[d] = call[d]
    BY <1>1, <1>8, CallEntry
  <2>2. NoCall.kind = "none" /\ NoCall.req = 0 /\ NoCall.attempt = 0
    BY DEF NoCall
  <2>3. \A d \in Client : ClerkInv(d)'
    <3>1. TAKE d \in Client
    <3>2. ClerkInv(d)
      BY DEF RequestsInv
    <3> QED
      BY <1>3, <1>4, <2>1, <2>2, <3>2 DEF ClerkInv
  <2>4. ASSUME NEW op \in Ops, Pending(op)
        PROVE  Pending(op)'
    <3>1. op[1] \in Client /\ op = <<op[1], op[2]>>
      BY OpTypes
    <3>2. CASE op \in Elements(committed)
      BY <3>2 DEF Pending, Elements
    <3>3. CASE AwaitedPut(op) /\ op[1] # c
      BY <2>1, <3>1, <3>3 DEF Pending, AwaitedPut
    <3>4. CASE AwaitedPut(op) /\ op[1] = c
      <4>1. h.kind = "put" /\ op = Op(h)
        BY <1>8, <3>1, <3>4 DEF AwaitedPut, Awaited, Op
      <4>2. op \in Elements(committed)
        BY <1>8, <4>1
      <4> QED
        BY <3>2, <4>2
    <3> QED
      BY <2>4, <3>2, <3>3, <3>4 DEF Pending
  <2>5. \A op : Known(op)' = Known(op)
    BY <1>3 DEF Known
  <2>6. \A p \in proposals' : (Known(p[2]) /\ Pending(p[2]))'
    BY <2>4, <2>5, ProposalTypes DEF RequestsInv
  <2>7. ASSUME NEW g \in calls
        PROVE  HandlerInv(g)'
    <3>1. HandlerInv(g) /\ g.client \in Client /\ g.req \in 1..MaxCalls /\ Op(g) \in Ops
      BY CallsKnown, CallsFacts
    <3>2. call'[g.client].req = g.req => call'[g.client].kind = g.kind
      <4>1. CASE g.client = c
        BY <2>1, <2>2, <3>1, <4>1
      <4>2. CASE g.client # c
        BY <2>1, <3>1, <4>2 DEF HandlerInv
      <4> QED
        BY <4>1, <4>2
    <3>3. g.kind = "put" => Pending(Op(g))'
      BY <2>4, <3>1 DEF HandlerInv
    <3>4. Known(Op(g))'
      BY <2>5, <3>1 DEF HandlerInv
    <3> QED
      BY <3>1, <3>2, <3>3, <3>4 DEF HandlerInv, Logs, Op
  <2>8. \A g \in calls' : HandlerInv(g)'
    <3>1. TAKE g \in calls'
    <3>2. CASE g \in calls
      BY <2>7, <3>2
    <3>3. CASE g \notin calls
      <4>1. /\ g.step = "arrived" /\ Op(g) = Op(h) /\ g.kind = h.kind
            /\ g.client = c /\ g.req = h.req
        BY <3>3, AnswerCalls
      <4>2. HandlerInv(h)'
        BY <2>7
      <4> QED
        BY <4>1, <4>2 DEF HandlerInv, Logs, Op
    <3> QED
      BY <3>2, <3>3
  <2>9. \A i \in Node, d \in Client : Known(<<d, lastRequestId[i][d]>>)'
    BY <2>5 DEF Known
  <2> QED
    BY <2>3, <2>6, <2>8, <2>9 DEF RequestsInv
<1> QED
  BY <1>6, <1>7, <1>8, AnswerCases

\* If the table knows the request its clerk waits for, it is the latest one there.
LEMMA LatestServed ==
  ASSUME TypeOK, RequestsInv, AnswersInv, NEW i \in Node, NEW op \in Ops, Known(op),
         DuplicateRequest(i, op)
  PROVE  Served(i, op)
<1> SUFFICES ASSUME AwaitedPut(op)
             PROVE  op \in Elements(writes[i])
  BY DEF Served
<1>1. op[1] \in Client /\ op[2] \in Nat /\ op = <<op[1], op[2]>>
  BY OpTypes
<1>2. requestId[op[1]] = op[2]
  <2>1. ClerkInv(op[1]) /\ call[op[1]].kind = "put" /\ call[op[1]].req = op[2]
    BY <1>1 DEF RequestsInv, AwaitedPut
  <2> QED
    BY <2>1 DEF ClerkInv
<1>3. op[2] <= lastRequestId[i][op[1]]
  BY DEF DuplicateRequest
<1>4. lastRequestId[i][op[1]] <= requestId[op[1]]
  BY <1>1 DEF RequestsInv, Known
<1>5. lastRequestId[i] \in [Client -> 0..MaxCalls]
  BY DEF TypeOK, LoopTypes
<1>6. lastRequestId[i][op[1]] \in Nat
  BY <1>1, <1>5, KvAssumption
<1>7. lastRequestId[i][op[1]] = op[2]
  BY <1>1, <1>2, <1>3, <1>4, <1>6
<1>8. Served(i, op)
  BY <1>1, <1>7 DEF AnswersInv
<1> QED
  BY <1>8 DEF Served

\* A handler that may answer OK has the put in the table of its server.
LEMMA AnsweredIsServed ==
  ASSUME TypeOK, WaitersInv, RequestsInv, AnswersInv, NEW h \in calls, Awaited(h),
         h.kind = "put",
         \/ /\ h.step = "waiting" /\ appliedChan[h.node][h.index] # <<>>
            /\ Head(appliedChan[h.node][h.index]) = Op(h)
         \/ DuplicateRequest(h.node, Op(h))
  PROVE  Op(h) \in Elements(writes[h.node])
<1>1. h.node \in Node /\ h.client \in Client /\ h.req \in 1..MaxCalls
  BY CallsFacts
<1>2. Op(h)[1] = h.client /\ Op(h)[2] = h.req /\ Op(h) = <<h.client, h.req>>
  BY DEF Op
<1>3. AwaitedPut(Op(h))
  BY <1>2 DEF Awaited, AwaitedPut
<1>4. CASE /\ h.step = "waiting" /\ appliedChan[h.node][h.index] # <<>>
           /\ Head(appliedChan[h.node][h.index]) = Op(h)
  <2>1. AtQueue(h) /\ Logs(h)
    BY <1>4 DEF AtQueue, Logs
  <2>2. h.index \in 1..MaxIndex /\ appliedChan[h.node][h.index] # None
    BY <2>1, AtIndex, HasQueue
  <2>3. appliedChan[h.node] \in [1..MaxIndex -> Seq(Ops) \cup {None}]
    BY <1>1 DEF TypeOK, LoopTypes
  <2>4. appliedChan[h.node][h.index] \in Seq(Ops)
    BY <2>2, <2>3
  <2>5. Op(h) \in Elements(appliedChan[h.node][h.index])
    BY <1>4, <2>4, ElementsTail
  <2>6. Served(h.node, Op(h))
    BY <1>1, <2>2, <2>5 DEF AnswersInv, QueuesServed
  <2> QED
    BY <1>3, <2>6 DEF Served
<1>5. CASE DuplicateRequest(h.node, Op(h))
  <2>1. Known(Op(h)) /\ Op(h) \in Ops
    BY CallsKnown, CallsFacts DEF HandlerInv
  <2>2. Served(h.node, Op(h))
    BY <1>1, <1>5, <2>1, LatestServed
  <2> QED
    BY <1>3, <2>2 DEF Served
<1> QED
  BY <1>4, <1>5

Ends(h) == Refuse(h) \/ Pop(h) \/ AfterTimeout(h) \/ ExecuteGetOp(h) \/ WaitAppliedTimeout(h)

\* A handler that ends gives no answer, or one that is true.
LEMMA TrueAnswers ==
  ASSUME TypeOK, WaitersInv, RequestsInv, AnswersInv, NEW h \in calls, Ends(h)
  PROVE  \/ calls' = calls \ {h} /\ UNCHANGED <<clerkVars, acked>>
         \/ \E err : /\ Answer(h, err)
                     /\ Awaited(h) /\ err = "OK" /\ h.kind = "put"
                          => Op(h) \in Elements(writes[h.node])
<1>1. CASE Refuse(h)
  BY <1>1 DEF Refuse
<1>2. CASE Pop(h)
  <2> DEFINE received == appliedChan[h.node][h.index]
             err == IF Head(received) = Op(h) THEN "OK" ELSE "ErrWrongLeader"
  <2>1. Answer(h, err) /\ h.step = "waiting" /\ received # <<>>
    BY <1>2 DEF Pop
  <2>2. err = "OK" => Head(received) = Op(h)
    OBVIOUS
  <2> HIDE DEF err
  <2>3. Awaited(h) /\ err = "OK" /\ h.kind = "put" => Op(h) \in Elements(writes[h.node])
    BY <2>1, <2>2, AnsweredIsServed
  <2> QED
    BY <2>1, <2>3
<1>3. CASE AfterTimeout(h)
  <2> DEFINE err == IF DuplicateRequest(h.node, Op(h)) THEN "OK" ELSE "ErrWrongLeader"
  <2>1. Answer(h, err)
    BY <1>3 DEF AfterTimeout
  <2>2. err = "OK" => DuplicateRequest(h.node, Op(h))
    OBVIOUS
  <2> HIDE DEF err
  <2>3. Awaited(h) /\ err = "OK" /\ h.kind = "put" => Op(h) \in Elements(writes[h.node])
    BY <2>2, AnsweredIsServed
  <2> QED
    BY <2>1, <2>3
<1>4. CASE ExecuteGetOp(h)
  <2>1. h.kind = "get"
    BY <1>4, CallsKnown DEF ExecuteGetOp, HandlerInv
  <2> QED
    BY <1>4, <2>1 DEF ExecuteGetOp
<1>5. CASE WaitAppliedTimeout(h)
  BY <1>5 DEF WaitAppliedTimeout, history
<1> QED
  BY <1>1, <1>2, <1>3, <1>4, <1>5 DEF Ends

LEMMA EndRequests ==
  ASSUME TypeOK, WaitersInv, RequestsInv, AnswersInv, NEW h \in calls, Ends(h)
  PROVE  RequestsInv'
<1>1. UNCHANGED <<proposals, committed>>
  BY DEF Ends, Refuse, Pop, AfterTimeout, ExecuteGetOp, WaitAppliedTimeout, raftVars
<1>2. h.node \in Node /\ h.client \in Client
  BY CallsFacts
<1>3. \A i \in Node, c \in Client : Known(<<c, lastRequestId'[i][c]>>)
  <2>1. UNCHANGED lastRequestId \/ SetsLatest(h.node, h.client, h.req)
    BY DEF Ends, Refuse, Pop, AfterTimeout, ExecuteGetOp, WaitAppliedTimeout, serverVars,
           SetsLatest
  <2>2. Known(<<h.client, h.req>>)
    BY CallsKnown DEF HandlerInv, Op
  <2> QED
    BY <1>2, <2>1, <2>2, SameLatest, LatestKnown
<1>4. CASE calls' = calls \ {h} /\ UNCHANGED <<clerkVars, acked>>
  BY <1>1, <1>3, <1>4, RequestsFrame DEF clerkVars
<1>5. ASSUME NEW err, Answer(h, err),
             Awaited(h) /\ err = "OK" /\ h.kind = "put" => Op(h) \in Elements(writes[h.node])
      PROVE  RequestsInv'
  <2>1. Elements(writes[h.node]) \subseteq Elements(committed)
    BY <1>2 DEF AnswersInv
  <2> QED
    BY <1>1, <1>3, <1>5, <2>1, AnswerRequests
<1> QED
  BY <1>4, <1>5, TrueAnswers

LEMMA MoveRequests ==
  ASSUME TypeOK, RequestsInv, NEW h \in calls, Register(h) \/ GiveUp(h) \/ WaitApplied(h)
  PROVE  RequestsInv'
<1>1. h.index \in Indexes /\ commit[h.node] \in Indexes
  BY CallsFacts DEF TypeOK, CoreTypes
<1>2. Logs(h) => h.kind = "put"
  BY CallsKnown DEF HandlerInv
<1>3. \A g \in calls' : g \in calls \/ HandlerInv(g)
  <2>1. CASE Register(h)
    <3>1. h.kind = "put" /\ Moves(h, "waiting", h.index) /\ "waiting" \in Steps
      BY <1>2, <2>1 DEF Register, Logs, Steps
    <3> QED
      BY <1>1, <3>1, MovesRequests
  <2>2. CASE GiveUp(h)
    <3>1. h.kind = "put" /\ Moves(h, "gave up", h.index) /\ "gave up" \in Steps
      BY <1>2, <2>2 DEF GiveUp, Logs, Steps
    <3> QED
      BY <1>1, <3>1, MovesRequests
  <2>3. CASE WaitApplied(h)
    <3>1. h.kind = "get" /\ Moves(h, "reading", commit[h.node]) /\ "reading" \in Steps
      BY <2>3 DEF WaitApplied, Steps
    <3> QED
      BY <1>1, <3>1, MovesRequests
  <2> QED
    BY <2>1, <2>2, <2>3
<1>4. UNCHANGED <<call, requestId, failures, proposals, committed, lastRequestId>>
  BY DEF Register, GiveUp, WaitApplied, raftVars, clerkVars, serverVars
<1> QED
  BY <1>3, <1>4, SameLatest, RequestsFrame

LEMMA FailureRequests ==
  ASSUME TypeOK, RequestsInv, NEW c \in Client, RpcFailure(c)
  PROVE  RequestsInv'
<1>1. call \in [Client -> Waiting] /\ failures \in Nat
  BY CallFacts, KvAssumption DEF TypeOK
<1>2. call[c] \in Waiting /\ call[c].attempt \in Nat
  BY <1>1, KvAssumption DEF Waiting
<1>3. PICK i : /\ SetsCall(c, [call[c] EXCEPT !.node = i, !.attempt = call[c].attempt + 1])
               /\ calls' = calls \cup
                    {Handler(c, call[c].kind, call[c].req, call[c].attempt + 1, i)}
  BY DEF RpcFailure, SetsCall
<1>4. /\ call[c] # NoCall /\ failures' = failures + 1
      /\ UNCHANGED <<proposals, committed, lastRequestId, requestId>>
  BY DEF RpcFailure, Waits, raftVars, serverVars
<1>5. /\ call'[c] = [call[c] EXCEPT !.node = i, !.attempt = call[c].attempt + 1]
      /\ \A d \in Client : d # c => call'[d] = call[d]
  BY <1>3, CallEntry
<1>6. /\ call'[c].kind = call[c].kind /\ call'[c].req = call[c].req
      /\ call'[c].attempt = call[c].attempt + 1
  BY <1>2, <1>5 DEF Waiting
<1>7. ClerkInv(c) /\ call[c].kind # "none" /\ call[c].req = requestId[c]
  BY <1>4 DEF RequestsInv, ClerkInv
<1>8. \A d \in Client : ClerkInv(d)'
  <2>1. TAKE d \in Client
  <2>2. ClerkInv(d) /\ call[d].attempt \in Nat
    BY <1>1, KvAssumption DEF RequestsInv, Waiting
  <2>3. CASE d = c
    <3>1. call'[c].attempt <= failures'
      BY <1>1, <1>2, <1>4, <1>6, <1>7 DEF ClerkInv
    <3> QED
      BY <1>4, <1>6, <1>7, <2>3, <3>1 DEF ClerkInv
  <2>4. CASE d # c
    <3>1. call'[d] = call[d] /\ call'[d].attempt <= failures'
      BY <1>1, <1>4, <1>5, <2>2, <2>4 DEF ClerkInv
    <3> QED
      BY <1>4, <2>2, <3>1 DEF ClerkInv
  <2> QED
    BY <2>3, <2>4
<1>9. \A d \in Client : call'[d].kind = call[d].kind /\ call'[d].req = call[d].req
  BY <1>5, <1>6
<1> DEFINE n == Handler(c, call[c].kind, call[c].req, call[c].attempt + 1, i)
<1>10. /\ n.step = "arrived" /\ n.client = c /\ n.kind = call[c].kind /\ n.req = call[c].req
       /\ Op(n) = <<c, call[c].req>>
  BY DEF Handler, Op
<1>11. calls' = calls \cup {n}
  BY <1>3
<1> HIDE DEF n
<1>12. HandlerInv(n)
  <2>1. Known(Op(n))
    <3>1. requestId[c] \in Nat
      BY CallFacts, KvAssumption DEF TypeOK
    <3> QED
      BY <1>7, <1>10, <3>1 DEF Known
  <2>2. n.kind = "put" => Pending(Op(n))
    <3>1. Op(n)[1] = c /\ Op(n)[2] = call[c].req
      BY <1>10
    <3>2. n.kind = "put" => AwaitedPut(Op(n))
      BY <1>10, <3>1 DEF AwaitedPut
    <3> QED
      BY <3>2 DEF Pending
  <2> QED
    BY <1>10, <2>1, <2>2 DEF HandlerInv, Logs
<1>13. \A g \in calls' : g \in calls \/ (HandlerInv(g) /\ g.client \in Client)
  BY <1>10, <1>11, <1>12
<1> QED
  BY <1>4, <1>8, <1>9, <1>13, SameLatest, SameRequests

LEMMA CallRequests ==
  ASSUME TypeOK, RequestsInv, NEW c \in Client, NEW kind \in Kinds, Call(c, kind)
  PROVE  RequestsInv'
<1>1. /\ call \in [Client -> Waiting] /\ requestId \in [Client -> 0..MaxCalls]
      /\ MaxCalls \in Nat /\ failures \in Nat
  BY CallFacts, KvAssumption DEF TypeOK
<1>2. \A d \in Client : requestId[d] \in Nat
  BY <1>1
<1> DEFINE r == requestId[c] + 1
           w == [kind |-> kind, req |-> r, node |-> leaderId[c], attempt |-> 0]
<1>0. PICK n : n = Handler(c, kind, r, 0, leaderId[c])
  OBVIOUS
<1>3. /\ call[c] = NoCall /\ SetsCall(c, w) /\ calls' = calls \cup {n}
      /\ requestId' = [requestId EXCEPT ![c] = r]
      /\ UNCHANGED <<proposals, committed, lastRequestId, failures>>
  BY <1>0 DEF Call, Waits, SetsCall, raftVars, serverVars
<1>4. /\ w.kind = kind /\ w.req = r /\ w.attempt = 0
      /\ n.step = "arrived" /\ n.client = c /\ n.kind = kind /\ n.req = r
      /\ Op(n) = <<c, r>> /\ Op(n)[1] = c /\ Op(n)[2] = r
  BY <1>0 DEF Handler, Op
<1>5. r \in Nat /\ r > 0 /\ kind # "none"
  BY <1>2, KvAssumption
<1> HIDE DEF w
<1>6. call'[c] = w /\ \A d \in Client : d # c => call'[d] = call[d]
  BY <1>3, CallEntry
<1>7. /\ requestId'[c] = r /\ \A d \in Client : d # c => requestId'[d] = requestId[d]
      /\ \A d \in Client : requestId[d] <= requestId'[d] /\ requestId'[d] \in Nat
  BY <1>1, <1>2, <1>3
<1>8. NoCall.kind = "none" /\ NoCall.req = 0
  BY DEF NoCall
<1> HIDE DEF r
<1>9. ASSUME NEW d \in Client, NEW k \in Nat, Known(<<d, k>>)
      PROVE  Known(<<d, k>>)'
  <2>1. k <= requestId[d]
    BY <1>9 DEF Known
  <2>2. k <= requestId'[d]
    BY <1>2, <1>7, <2>1
  <2> QED
    BY <2>2 DEF Known
<1>10. ASSUME NEW op \in Ops, Pending(op)
       PROVE  Pending(op)'
  <2>1. op[1] \in Client
    BY OpTypes
  <2>2. CASE op \in Elements(committed)
    BY <1>3, <2>2 DEF Pending, Elements
  <2>3. CASE AwaitedPut(op)
    <3>1. op[1] # c
      BY <1>3, <1>8, <2>3 DEF AwaitedPut
    <3>2. AwaitedPut(op)'
      BY <1>6, <2>1, <2>3, <3>1 DEF AwaitedPut
    <3> QED
      BY <3>2 DEF Pending
  <2> QED
    BY <1>10, <2>2, <2>3 DEF Pending
<1>11. \A d \in Client : ClerkInv(d)'
  <2>1. TAKE d \in Client
  <2>2. CASE d = c
    BY <1>1, <1>3, <1>4, <1>5, <1>6, <1>7, <2>2 DEF ClerkInv
  <2>3. CASE d # c
    BY <1>3, <1>6, <1>7, <2>3 DEF ClerkInv, RequestsInv
  <2> QED
    BY <2>2, <2>3
<1>12. \A p \in proposals' : (Known(p[2]) /\ Pending(p[2]))'
  <2>1. TAKE p \in proposals'
  <2>2. p \in proposals /\ p[2] \in Ops
    BY <1>3, ProposalTypes
  <2>3. p[2][1] \in Client /\ p[2][2] \in Nat /\ p[2] = <<p[2][1], p[2][2]>>
    BY <2>2, OpTypes
  <2>4. Known(p[2]) /\ Pending(p[2])
    BY <2>2 DEF RequestsInv
  <2> QED
    BY <1>9, <1>10, <2>2, <2>3, <2>4
<1>13. \A i \in Node, d \in Client : Known(<<d, lastRequestId[i][d]>>)'
  <2>1. TAKE i \in Node, d \in Client
  <2>2. lastRequestId[i] \in [Client -> 0..MaxCalls]
    BY DEF TypeOK, LoopTypes
  <2>3. lastRequestId[i][d] \in Nat /\ Known(<<d, lastRequestId[i][d]>>)
    BY <1>1, <2>2 DEF RequestsInv
  <2>4. PICK k \in Nat : k = lastRequestId[i][d]
    BY <2>3
  <2>5. Known(<<d, k>>)'
    BY <1>9, <2>3, <2>4
  <2> QED
    BY <1>3, <2>4, <2>5
<1>14. ASSUME NEW g \in calls
       PROVE  HandlerInv(g)'
  <2>1. /\ HandlerInv(g) /\ g.client \in Client /\ g.req \in 1..MaxCalls /\ g.req \in Nat
        /\ Op(g) \in Ops
    BY <1>1, CallsKnown, CallsFacts
  <2>2. Op(g) = <<g.client, g.req>> /\ Op(g)[2] = g.req /\ Op(g)[1] = g.client
    BY DEF Op
  <2>3. Known(Op(g))'
    <3>1. Known(<<g.client, g.req>>)'
      BY <1>9, <2>1, <2>2 DEF HandlerInv
    <3> QED
      BY <3>1 DEF Op
  <2>4. call'[g.client].req = g.req => call'[g.client].kind = g.kind
    <3>1. CASE g.client = c
      <4>1. g.req <= requestId[c]
        BY <2>1, <2>2, <3>1 DEF HandlerInv, Known
      <4>2. g.req # r
        BY <1>2, <2>1, <4>1 DEF r
      <4> QED
        BY <1>4, <1>6, <3>1, <4>2
    <3>2. CASE g.client # c
      BY <1>6, <2>1, <3>2 DEF HandlerInv
    <3> QED
      BY <3>1, <3>2
  <2>5. g.kind = "put" => Pending(Op(g))'
    BY <1>10, <2>1 DEF HandlerInv
  <2> QED
    BY <2>1, <2>3, <2>4, <2>5 DEF HandlerInv, Logs, Op
<1>15. HandlerInv(n)'
  <2>1. Known(Op(n))'
    BY <1>4, <1>5, <1>7 DEF Known, Op
  <2>2. call'[n.client].kind = n.kind
    BY <1>4, <1>6
  <2>3. n.kind = "put" => Pending(Op(n))'
    <3>1. n.kind = "put" => AwaitedPut(Op(n))'
      BY <1>4, <1>6 DEF AwaitedPut, Op
    <3> QED
      BY <3>1 DEF Pending, Op
  <2> QED
    BY <1>4, <2>1, <2>2, <2>3 DEF HandlerInv, Logs, Op
<1>16. \A g \in calls' : HandlerInv(g)'
  BY <1>3, <1>14, <1>15
<1> QED
  BY <1>11, <1>12, <1>13, <1>16 DEF RequestsInv

LEMMA NextRequests ==
  ASSUME TypeOK, ServerInv, [Next]_vars
  PROVE  RequestsInv'
<1>1. IndexesInv /\ WaitersInv /\ RequestsInv /\ AnswersInv
  BY DEF ServerInv
<1>2. CASE Commit
  BY <1>1, <1>2, CommitRequests
<1>3. ASSUME NEW i \in Node, RaftStep(i) \/ LoopStep(i)
      PROVE  RequestsInv'
  BY <1>1, <1>3, LoopRequests
<1>4. ASSUME NEW h \in calls, HandlerStep(h)
      PROVE  RequestsInv'
  <2>1. CASE Propose(h)
    BY <1>1, <2>1, ProposeRequests
  <2>2. CASE Register(h) \/ GiveUp(h) \/ WaitApplied(h)
    BY <1>1, <2>2, MoveRequests
  <2>3. CASE Ends(h)
    BY <1>1, <2>3, EndRequests
  <2> QED
    BY <1>4, <2>1, <2>2, <2>3 DEF HandlerStep, Ends
<1>5. ASSUME NEW c \in Client, RpcFailure(c)
      PROVE  RequestsInv'
  BY <1>1, <1>5, FailureRequests
<1>6. ASSUME NEW c \in Client, NEW kind \in Kinds, Call(c, kind)
      PROVE  RequestsInv'
  BY <1>1, <1>6, CallRequests
<1>7. CASE UNCHANGED vars
  <2>1. UNCHANGED <<call, requestId, failures, proposals, committed, calls, lastRequestId>>
    BY <1>7 DEF vars, raftVars, clerkVars, serverVars
  <2> QED
    BY <1>1, <2>1, SameLatest, RequestsFrame
<1> QED
  BY <1>2, <1>3, <1>4, <1>5, <1>6, <1>7 DEF Next

-----------------------------------------------------------------------------
(* Answers. *)

\* Nobody begins to wait for a request that was known.
LEMMA StillAwaited ==
  ASSUME TypeOK, [Next]_vars, NEW op, op[1] \in Client, op[2] \in Nat, Known(op),
         AwaitedPut(op)'
  PROVE  AwaitedPut(op)
<1>1. call \in [Client -> Waiting] /\ requestId \in [Client -> 0..MaxCalls] /\ MaxCalls \in Nat
  BY CallFacts, KvAssumption DEF TypeOK
<1>2. CASE UNCHANGED call
  BY <1>2 DEF AwaitedPut
<1>3. ASSUME NEW c \in Client, NEW i, NEW a,
             SetsCall(c, [call[c] EXCEPT !.node = i, !.attempt = a])
      PROVE  AwaitedPut(op)
  <2>1. /\ call'[c] = [call[c] EXCEPT !.node = i, !.attempt = a]
        /\ \A d \in Client : d # c => call'[d] = call[d]
    BY <1>3, CallEntry
  <2>2. call[c] \in Waiting
    BY <1>1
  <2>3. call'[c].kind = call[c].kind /\ call'[c].req = call[c].req
    BY <2>1, <2>2 DEF Waiting
  <2> QED
    BY <2>1, <2>3 DEF AwaitedPut
<1>4. ASSUME NEW c \in Client, SetsCall(c, NoCall)
      PROVE  AwaitedPut(op)
  <2>1. call'[c] = NoCall /\ \A d \in Client : d # c => call'[d] = call[d]
    BY <1>4, CallEntry
  <2> QED
    BY <2>1 DEF AwaitedPut, NoCall
<1>5. ASSUME NEW c \in Client, NEW kind, Call(c, kind)
      PROVE  AwaitedPut(op)
  <2> DEFINE r == requestId[c] + 1
             w == [kind |-> kind, req |-> r, node |-> leaderId[c], attempt |-> 0]
  <2>1. SetsCall(c, w) /\ w.req = r
    BY <1>5 DEF Call, SetsCall
  <2> HIDE DEF w
  <2>2. call'[c] = w /\ \A d \in Client : d # c => call'[d] = call[d]
    BY <2>1, CallEntry
  <2>3. op[1] # c
    <3>1. requestId[c] \in Nat
      BY <1>1
    <3>2. op[1] = c => op[2] <= requestId[c]
      BY DEF Known
    <3>3. op[1] = c => op[2] = r
      BY <2>1, <2>2 DEF AwaitedPut
    <3> QED
      BY <3>1, <3>2, <3>3
  <2> QED
    BY <2>2, <2>3 DEF AwaitedPut
<1>6. ASSUME NEW h \in calls, NEW err, Answer(h, err)
      PROVE  AwaitedPut(op)
  <2>1. h.client \in Client
    BY CallsFacts
  <2>2. ASSUME NEW i, SetsCall(h.client, [call[h.client] EXCEPT !.node = i])
        PROVE  AwaitedPut(op)
    <3> DEFINE c == h.client
    <3>1. /\ call'[c] = [call[c] EXCEPT !.node = i]
          /\ \A d \in Client : d # c => call'[d] = call[d]
      BY <2>1, <2>2, CallEntry
    <3>2. call[c] \in Waiting
      BY <1>1, <2>1
    <3>3. call'[c].kind = call[c].kind /\ call'[c].req = call[c].req
      BY <3>1, <3>2 DEF Waiting
    <3> QED
      BY <3>1, <3>3 DEF AwaitedPut
  <2> QED
    BY <1>2, <1>4, <1>6, <2>1, <2>2, AnswerCases
<1>7. CASE Commit \/ \E i \in Node : RaftStep(i) \/ LoopStep(i)
  BY <1>2, <1>7
     DEF Commit, RaftStep, LoopStep, Learn, Elected, Deposed, ApplierTick, ApplierPush,
         InstallSnapshot, PushSnapshot, CheckCommand, ExecutePutOp, TryPush2Wait,
         LoadSnapshot, clerkVars
<1>8. ASSUME NEW h \in calls, HandlerStep(h)
      PROVE  AwaitedPut(op)
  BY <1>2, <1>6, <1>8
     DEF HandlerStep, Propose, Refuse, Register, Pop, GiveUp, AfterTimeout, WaitApplied,
         ExecuteGetOp, WaitAppliedTimeout, clerkVars
<1>9. ASSUME NEW c \in Client, RpcFailure(c)
      PROVE  AwaitedPut(op)
  <2>1. \E i : SetsCall(c, [call[c] EXCEPT !.node = i, !.attempt = call[c].attempt + 1])
    BY <1>9 DEF RpcFailure, SetsCall
  <2> QED
    BY <1>3, <2>1
<1>10. CASE UNCHANGED vars
  BY <1>2, <1>10 DEF vars, clerkVars
<1> QED
  BY <1>5, <1>7, <1>8, <1>9, <1>10 DEF Next

LEMMA CommittedGrows ==
  ASSUME TypeOK, [Next]_vars
  PROVE  Elements(committed) \subseteq Elements(committed)'
<1>1. CASE UNCHANGED committed
  BY <1>1 DEF Elements
<1>2. CASE Commit
  BY <1>2, CommitElements DEF Commit
<1> QED
  BY <1>1, <1>2
     DEF Next, RaftStep, LoopStep, Learn, Elected, Deposed, ApplierTick, ApplierPush,
         InstallSnapshot, PushSnapshot, CheckCommand, ExecutePutOp, TryPush2Wait,
         LoadSnapshot, HandlerStep, Propose, Refuse, Register, Pop, GiveUp, AfterTimeout,
         WaitApplied, ExecuteGetOp, WaitAppliedTimeout, RpcFailure, Call, raftVars, vars

\* The command that is executed is the last in the table.
LEMMA ExecutedElements ==
  ASSUME TypeOK, IndexesInv, NEW i \in Node, ExecutePutOp(i)
  PROVE  LET op == committed[loop[i].index]
         IN  /\ op \in Elements(committed) /\ op \in Ops
             /\ \/ Elements(writes[i])' = Elements(writes[i]) /\ loop[i].duplicate
                \/ Elements(writes[i])' = Elements(writes[i]) \cup {op}
             /\ \A j \in Node \ {i} : UNCHANGED writes[j]
<1> DEFINE op == committed[loop[i].index]
<1>1. op \in Elements(committed) /\ op \in Ops
  BY LoopCommand DEF ExecutePutOp
<1>2. writes \in [Node -> Seq(Ops)] /\ writes[i] \in Seq(Ops)
  BY DEF TypeOK, LoopTypes
<1>3. \/ UNCHANGED writes /\ loop[i].duplicate
      \/ writes' = [writes EXCEPT ![i] = Append(writes[i], op)]
  BY DEF ExecutePutOp, serverVars
<1>4. Elements(Append(writes[i], op)) = Elements(writes[i]) \cup {op}
  BY <1>1, <1>2, ElementsAppend
<1> HIDE DEF op
<1>5. CASE UNCHANGED writes /\ loop[i].duplicate
  BY <1>1, <1>5 DEF Elements, op
<1>6. CASE writes' = [writes EXCEPT ![i] = Append(writes[i], op)]
  <2>1. writes'[i] = Append(writes[i], op) /\ \A j \in Node \ {i} : UNCHANGED writes[j]
    BY <1>2, <1>6
  <2>2. Elements(writes[i])' = Elements(Append(writes[i], op))
    BY <2>1 DEF Elements
  <2> QED
    BY <1>1, <1>4, <2>1, <2>2 DEF op
<1> QED
  BY <1>3, <1>5, <1>6

LEMMA WritesGrow ==
  ASSUME TypeOK, IndexesInv, [Next]_vars, NEW i \in Node
  PROVE  Elements(writes[i]) \subseteq Elements(writes[i])'
<1>1. CASE UNCHANGED writes
  BY <1>1 DEF Elements
<1>2. ASSUME NEW j \in Node, ExecutePutOp(j)
      PROVE  Elements(writes[i]) \subseteq Elements(writes[i])'
  BY <1>2, ExecutedElements DEF Elements
<1> QED
  BY <1>1, <1>2
     DEF Next, Commit, RaftStep, LoopStep, Learn, Elected, Deposed, ApplierTick,
         ApplierPush, InstallSnapshot, PushSnapshot, CheckCommand, TryPush2Wait,
         LoadSnapshot, HandlerStep, Propose, Refuse, Register, Pop, GiveUp, AfterTimeout,
         WaitApplied, ExecuteGetOp, WaitAppliedTimeout, RpcFailure, Call, serverVars, vars

\* What was served stays served.
LEMMA ServedKept ==
  ASSUME TypeOK, IndexesInv, [Next]_vars, NEW i \in Node, NEW op, op[1] \in Client,
         op[2] \in Nat, Known(op), Served(i, op)
  PROVE  Served(i, op)'
<1>1. AwaitedPut(op)' => AwaitedPut(op)
  BY StillAwaited
<1>2. Elements(writes[i]) \subseteq Elements(writes[i])'
  BY WritesGrow
<1>3. AwaitedPut(op)' => op \in Elements(writes[i])'
  BY <1>1, <1>2 DEF Served
<1> QED
  BY <1>3 DEF Served, Elements, AwaitedPut

LEMMA CommittedServed ==
  ASSUME TypeOK, IndexesInv, RequestsInv, [Next]_vars, NEW i \in Node,
         NEW op \in Elements(committed), Served(i, op)
  PROVE  Served(i, op)'
<1>1. Known(op) /\ op[1] \in Client /\ op[2] \in Nat
  BY CommittedKnown, OpTypes
<1> QED
  BY <1>1, ServedKept

LEMMA NextLatest ==
  ASSUME TypeOK, ServerInv, [Next]_vars, NEW i \in Node, NEW c \in Client
  PROVE  Served(i, <<c, lastRequestId[i][c]>>)'
<1>1. IndexesInv /\ RequestsInv /\ AnswersInv
  BY DEF ServerInv
<1>2. CASE lastRequestId'[i][c] = lastRequestId[i][c]
  <2>1. lastRequestId[i] \in [Client -> 0..MaxCalls]
    BY DEF TypeOK, LoopTypes
  <2>2. PICK l \in Nat : l = lastRequestId[i][c]
    BY <2>1, KvAssumption
  <2>3. Known(<<c, l>>) /\ Served(i, <<c, l>>)
    BY <1>1, <2>2 DEF RequestsInv, AnswersInv
  <2>6. PICK op : op = <<c, l>>
    OBVIOUS
  <2>4. op = <<c, l>> /\ op[1] = c /\ op[2] = l
    BY <2>6
  <2>5. Served(i, op)'
    BY <1>1, <2>3, <2>4, ServedKept
  <2> QED
    BY <1>2, <2>2, <2>4, <2>5
<1>3. ASSUME NEW j \in Node, ExecutePutOp(j), lastRequestId'[i][c] # lastRequestId[i][c]
      PROVE  Served(i, <<c, lastRequestId[i][c]>>)'
  <2>1. PICK op : op = committed[loop[j].index]
    OBVIOUS
  <2>2. SetsLatest(j, op[1], op[2]) /\ ~loop[j].duplicate
    BY <1>3, <2>1 DEF ExecutePutOp, SetsLatest, serverVars
  <2>3. op \in Ops /\ op \in Elements(writes[j])'
    BY <1>1, <1>3, <2>1, <2>2, ExecutedElements
  <2>4. op[1] \in Client /\ op = <<op[1], op[2]>>
    BY <2>3, OpTypes
  <2>5. i = j /\ c = op[1] /\ lastRequestId'[i][c] = op[2]
    BY <1>3, <2>2, <2>4, LatestEntry
  <2>6. <<c, lastRequestId'[i][c]>> = op
    BY <2>4, <2>5
  <2> QED
    BY <2>3, <2>5, <2>6 DEF Served
<1>4. ASSUME NEW h \in calls, ExecuteGetOp(h), lastRequestId'[i][c] # lastRequestId[i][c]
      PROVE  Served(i, <<c, lastRequestId[i][c]>>)'
  <2>1. h.node \in Node /\ h.client \in Client /\ h.req \in 1..MaxCalls /\ HandlerInv(h)
    BY <1>1, CallsFacts, CallsKnown
  <2>2. SetsLatest(h.node, h.client, h.req) /\ h.step = "reading"
    BY <1>4 DEF ExecuteGetOp, SetsLatest
  <2>3. c = h.client /\ lastRequestId'[i][c] = h.req
    BY <1>4, <2>1, <2>2, LatestEntry
  <2>8. PICK op : op = Op(h)
    OBVIOUS
  <2>4. op = Op(h) /\ op[1] = h.client /\ op[2] = h.req
    BY <2>8 DEF Op
  <2>5. op = <<c, lastRequestId'[i][c]>>
    BY <2>3, <2>4 DEF Op
  <2>6. ~AwaitedPut(op)
    BY <2>2, <2>1, <2>4 DEF AwaitedPut, HandlerInv
  <2>7. ~AwaitedPut(op)'
    BY <2>1, <2>4, <2>6, StillAwaited DEF HandlerInv
  <2> QED
    BY <2>5, <2>7 DEF Served
<1>5. \/ UNCHANGED lastRequestId
      \/ \E j \in Node : ExecutePutOp(j)
      \/ \E h \in calls : ExecuteGetOp(h)
  BY DEF Next, Commit, RaftStep, LoopStep, Learn, Elected, Deposed, ApplierTick,
         ApplierPush, InstallSnapshot, PushSnapshot, CheckCommand, TryPush2Wait,
         LoadSnapshot, HandlerStep, Propose, Refuse, Register, Pop, GiveUp, AfterTimeout,
         WaitApplied, WaitAppliedTimeout, RpcFailure, Call, serverVars, vars
<1> QED
  BY <1>2, <1>3, <1>4, <1>5

LEMMA CommittedPrefix ==
  ASSUME TypeOK, [Next]_vars, NEW k \in 1..Len(committed)
  PROVE  committed'[k] = committed[k]
<1>1. CASE Commit
  <2>1. PICK p \in proposals : committed' = Append(committed, p[2])
    BY <1>1 DEF Commit
  <2>2. p[2] \in Ops /\ committed \in Seq(Ops)
    BY <2>1, CommitElements
  <2> QED
    BY <2>1, <2>2, AppendProperties
<1>2. CASE UNCHANGED committed
  BY <1>2
<1> QED
  BY <1>1, <1>2
     DEF Next, RaftStep, LoopStep, Learn, Elected, Deposed, ApplierTick, ApplierPush,
         InstallSnapshot, PushSnapshot, CheckCommand, ExecutePutOp, TryPush2Wait,
         LoadSnapshot, HandlerStep, Propose, Refuse, Register, Pop, GiveUp, AfterTimeout,
         WaitApplied, ExecuteGetOp, WaitAppliedTimeout, RpcFailure, Call, raftVars, vars

LEMMA NextLoop ==
  ASSUME TypeOK, ServerInv, [Next]_vars, NEW i \in Node
  PROVE  LoopServed(i)'
<1>1. IndexesInv /\ RequestsInv /\ AnswersInv /\ LoopServed(i)
  BY DEF ServerInv, AnswersInv
<1>2. loop \in [Node -> [step : {"idle", "checked", "executed"}, index : Indexes,
                         duplicate : BOOLEAN]]
  BY DEF TypeOK, LoopTypes
<1>3. ASSUME loop'[i].index = loop[i].index, loop[i].step # "idle",
             Served(i, committed[loop[i].index])
      PROVE  LoopServed(i)'
  <2>1. PICK k : k = loop[i].index
    OBVIOUS
  <2>2. k \in 1..Len(committed) /\ committed[k] \in Elements(committed)
    BY <1>1, <1>3, <2>1, LoopCommand
  <2>3. PICK op : op = committed[k]
    OBVIOUS
  <2>4. Served(i, op)' /\ committed'[k] = op
    BY <1>1, <1>3, <2>1, <2>2, <2>3, CommittedServed, CommittedPrefix
  <2> QED
    BY <1>3, <2>1, <2>4 DEF LoopServed
<1>4. CASE loop'[i] = loop[i]
  BY <1>1, <1>3, <1>4 DEF LoopServed
<1>5. CASE CheckCommand(i)
  <2> DEFINE k == Head(queue[i])[2]
             d == DuplicateRequest(i, committed[k])
             next == [step |-> "checked", index |-> k, duplicate |-> d]
  <2>1. queue[i] # <<>> /\ loop' = [loop EXCEPT ![i] = next]
    BY <1>5 DEF CheckCommand
  <2>2. next.step = "checked" /\ next.index = k /\ next.duplicate = d
    OBVIOUS
  <2>3. k \in 1..Len(committed)
    <3>1. queue[i] \in Seq({"command", "snapshot"} \X (1..MaxIndex)) /\ Len(committed) \in Nat
      BY NodeTypes
    <3>2. /\ Head(queue[i]) \in Elements(queue[i])
          /\ Head(queue[i]) \in {"command", "snapshot"} \X (1..MaxIndex)
      BY <2>1, <3>1, ElementsTail
    <3>3. k \in 1..MaxIndex /\ k <= Len(committed)
      BY <1>1, <3>2 DEF IndexesInv, HandsUpCommitted
    <3> QED
      BY <3>1, <3>3, IndexFacts
  <2> HIDE DEF k, d, next
  <2>4. loop'[i] = next
    BY <1>2, <2>1
  <2>5. PICK n, op : n = k /\ op = committed[n] /\ n \in 1..Len(committed)
    BY <2>3
  <2>6. op \in Elements(committed)
    BY <2>5 DEF Elements
  <2>7. d => Served(i, op)
    BY <1>1, <2>5, <2>6, CommittedKnown, LatestServed DEF d
  <2>8. d => Served(i, op)'
    BY <1>1, <2>6, <2>7, CommittedServed
  <2>9. committed'[n] = op
    BY <2>5, CommittedPrefix
  <2> QED
    BY <2>2, <2>4, <2>5, <2>8, <2>9 DEF LoopServed
<1>6. CASE ExecutePutOp(i)
  <2>1. loop[i].step = "checked" /\ loop' = [loop EXCEPT ![i].step = "executed"]
    BY <1>6 DEF ExecutePutOp
  <2>2. loop'[i].index = loop[i].index
    BY <1>2, <2>1
  <2>3. CASE loop[i].duplicate
    BY <1>1, <1>3, <2>1, <2>2, <2>3 DEF LoopServed
  <2>4. CASE ~loop[i].duplicate
    <3>1. PICK k, op : k = loop[i].index /\ op = committed[k]
      OBVIOUS
    <3>2. op \in Elements(writes[i])'
      BY <1>1, <1>6, <2>4, <3>1, ExecutedElements
    <3>3. k \in 1..Len(committed)
      BY <1>1, <2>1, <3>1, LoopCommand
    <3>4. committed'[k] = op
      BY <3>1, <3>3, CommittedPrefix
    <3> QED
      BY <2>2, <3>1, <3>2, <3>4 DEF LoopServed, Served
  <2> QED
    BY <2>3, <2>4
<1>7. CASE TryPush2Wait(i)
  <2>1. loop'[i] = Idle
    BY <1>2, <1>7 DEF TryPush2Wait
  <2> QED
    BY <2>1 DEF LoopServed, Idle
<1>8. \/ loop'[i] = loop[i]
      \/ CheckCommand(i) \/ ExecutePutOp(i) \/ TryPush2Wait(i)
  <2>1. ASSUME NEW j \in Node, j # i, CheckCommand(j) \/ ExecutePutOp(j) \/ TryPush2Wait(j)
        PROVE  loop'[i] = loop[i]
    BY <1>2, <2>1 DEF CheckCommand, ExecutePutOp, TryPush2Wait
  <2>2. \/ UNCHANGED loop
        \/ \E j \in Node : CheckCommand(j) \/ ExecutePutOp(j) \/ TryPush2Wait(j)
    BY DEF Next, Commit, RaftStep, LoopStep, Learn, Elected, Deposed, ApplierTick,
           ApplierPush, InstallSnapshot, PushSnapshot,
           LoadSnapshot, HandlerStep, Propose, Refuse, Register, Pop, GiveUp, AfterTimeout,
           WaitApplied, ExecuteGetOp, WaitAppliedTimeout, RpcFailure, Call, vars
  <2> QED
    BY <2>1, <2>2
<1> QED
  BY <1>4, <1>5, <1>6, <1>7, <1>8

\* What is in a queue after a step was there before, or the loop has just executed it.
LEMMA QueuedServed ==
  ASSUME TypeOK, ServerInv, [Next]_vars, NEW i \in Node, NEW k \in 1..MaxIndex,
         appliedChan'[i][k] # None, NEW op \in Elements(appliedChan'[i][k])
  PROVE  Served(i, op) /\ op \in Elements(committed)
<1>1. IndexesInv /\ WaitersInv /\ AnswersInv
  BY DEF ServerInv
<1>2. \A j \in Node, n \in 1..MaxIndex : appliedChan[j][n] # None =>
        \A e \in Elements(appliedChan[j][n]) : Served(j, e) /\ e \in Elements(committed)
  BY <1>1 DEF AnswersInv, QueuesServed
<1>3. CASE UNCHANGED appliedChan
  BY <1>2, <1>3
<1>4. ASSUME NEW j \in Node, NEW n \in 1..MaxIndex, NEW q, SetsQueue(j, n, q),
             q # None => \A e \in Elements(q) : Served(j, e) /\ e \in Elements(committed)
      PROVE  Served(i, op) /\ op \in Elements(committed)
  <2>1. /\ appliedChan'[j][n] = q
        /\ j # i \/ n # k => appliedChan'[i][k] = appliedChan[i][k]
    BY <1>4, ChanEntry
  <2> QED
    BY <1>2, <1>4, <2>1
<1>5. ASSUME NEW j \in Node, TryPush2Wait(j)
      PROVE  Served(i, op) /\ op \in Elements(committed)
  <2>1. PICK n : n = loop[j].index
    OBVIOUS
  <2>2. /\ loop[j].step = "executed"
        /\ appliedChan' = IF appliedChan[j][n] = None THEN appliedChan
                          ELSE [appliedChan EXCEPT ![j][n] = Append(appliedChan[j][n], committed[n])]
    BY <1>5, <2>1 DEF TryPush2Wait
  <2>3. n \in 1..Len(committed) /\ n \in 1..MaxIndex
    BY <1>1, <2>1, <2>2, LoopCommand
  <2>4. PICK e : e = committed[n]
    OBVIOUS
  <2>5. e \in Elements(committed) /\ e \in Ops
    BY <1>1, <2>1, <2>2, <2>4, LoopCommand
  <2>6. Served(j, e)
    BY <1>1, <2>1, <2>2, <2>4 DEF AnswersInv, LoopServed
  <2>7. CASE appliedChan[j][n] # None
    <3>1. appliedChan[j] \in [1..MaxIndex -> Seq(Ops) \cup {None}]
      BY DEF TypeOK, LoopTypes
    <3>2. appliedChan[j][n] \in Seq(Ops)
      BY <2>3, <2>7, <3>1
    <3>3. PICK q : q = Append(appliedChan[j][n], e)
      OBVIOUS
    <3>4. Elements(q) = Elements(appliedChan[j][n]) \cup {e}
      BY <2>5, <3>2, <3>3, ElementsAppend
    <3>5. \A d \in Elements(q) : Served(j, d) /\ d \in Elements(committed)
      BY <1>2, <2>3, <2>5, <2>6, <2>7, <3>4
    <3>6. SetsQueue(j, n, q)
      BY <2>2, <2>4, <2>7, <3>3 DEF SetsQueue
    <3> QED
      BY <1>4, <2>3, <3>5, <3>6
  <2> QED
    BY <1>3, <2>2, <2>7
<1>6. ASSUME NEW h \in calls, Register(h)
      PROVE  Served(i, op) /\ op \in Elements(committed)
  <2>1. /\ Logs(h)
        /\ appliedChan' = [appliedChan EXCEPT ![h.node][h.index] =
                             IF appliedChan[h.node][h.index] = None THEN <<>>
                             ELSE appliedChan[h.node][h.index]]
    BY <1>6 DEF Register, Logs
  <2>2. h.node \in Node /\ h.index \in 1..MaxIndex
    BY <1>1, <2>1, CallsFacts, AtIndex
  <2>3. PICK j, n, o : j = h.node /\ n = h.index /\ o = appliedChan[j][n]
    OBVIOUS
  <2>4. PICK q : q = IF o = None THEN <<>> ELSE o
    OBVIOUS
  <2>5. SetsQueue(j, n, q)
    BY <2>1, <2>3, <2>4 DEF SetsQueue
  <2>6. Elements(<<>>) = {}
    BY DEF Elements
  <2>7. \A e \in Elements(q) : Served(j, e) /\ e \in Elements(committed)
    BY <1>2, <2>2, <2>3, <2>4, <2>6
  <2> QED
    BY <1>4, <2>2, <2>3, <2>5, <2>7
<1>7. ASSUME NEW h \in calls, Pop(h) \/ AfterTimeout(h)
      PROVE  Served(i, op) /\ op \in Elements(committed)
  <2>1. Logs(h) /\ SetsQueue(h.node, h.index, None)
    BY <1>7 DEF Pop, AfterTimeout, Logs, Unregister, SetsQueue
  <2>2. h.node \in Node /\ h.index \in 1..MaxIndex
    BY <1>1, <2>1, CallsFacts, AtIndex
  <2> QED
    BY <1>4, <2>1, <2>2
<1>8. \/ UNCHANGED appliedChan
      \/ \E j \in Node : TryPush2Wait(j)
      \/ \E h \in calls : Register(h) \/ Pop(h) \/ AfterTimeout(h)
  BY DEF Next, Commit, RaftStep, LoopStep, Learn, Elected, Deposed, ApplierTick,
         ApplierPush, InstallSnapshot, PushSnapshot, CheckCommand, ExecutePutOp,
         LoadSnapshot, HandlerStep, Propose, Refuse, GiveUp,
         WaitApplied, ExecuteGetOp, WaitAppliedTimeout, RpcFailure, Call, vars
<1> QED
  BY <1>3, <1>5, <1>6, <1>7, <1>8

LEMMA NextQueues ==
  ASSUME TypeOK, ServerInv, [Next]_vars, NEW i \in Node
  PROVE  QueuesServed(i)'
<1>1. IndexesInv /\ RequestsInv
  BY DEF ServerInv
<1> SUFFICES ASSUME NEW k \in 1..MaxIndex, appliedChan'[i][k] # None,
                    NEW op \in Elements(appliedChan'[i][k])
             PROVE  Served(i, op)' /\ op \in Elements(committed)'
  BY DEF QueuesServed, Elements, Served, AwaitedPut
<1>2. Served(i, op) /\ op \in Elements(committed)
  BY QueuedServed
<1> QED
  BY <1>1, <1>2, CommittedServed, CommittedGrows

\* A table holds committed commands only.
LEMMA NextWrites ==
  ASSUME TypeOK, ServerInv, [Next]_vars, NEW i \in Node
  PROVE  Elements(writes[i])' \subseteq Elements(committed)'
<1>1. IndexesInv /\ Elements(writes[i]) \subseteq Elements(committed)
  BY DEF ServerInv, AnswersInv
<1>2. Elements(committed) \subseteq Elements(committed)'
  BY CommittedGrows
<1>3. CASE UNCHANGED writes
  <2>1. Elements(writes[i])' = Elements(writes[i])
    BY <1>3 DEF Elements
  <2> QED
    BY <1>1, <1>2, <2>1
<1>4. ASSUME NEW j \in Node, ExecutePutOp(j)
      PROVE  Elements(writes[i])' \subseteq Elements(committed)'
  <2>1. PICK op : op = committed[loop[j].index]
    OBVIOUS
  <2>2. op \in Elements(committed)
    BY <1>1, <1>4, <2>1, ExecutedElements
  <2>3. CASE i = j
    <3>1. \/ Elements(writes[i])' = Elements(writes[i])
          \/ Elements(writes[i])' = Elements(writes[i]) \cup {op}
      BY <1>1, <1>4, <2>1, <2>3, ExecutedElements
    <3> QED
      BY <1>1, <1>2, <2>2, <3>1
  <2>4. CASE i # j
    <3>1. UNCHANGED writes[i]
      BY <1>1, <1>4, <2>4, ExecutedElements
    <3>2. Elements(writes[i])' = Elements(writes[i])
      BY <3>1 DEF Elements
    <3> QED
      BY <1>1, <1>2, <3>2
  <2> QED
    BY <2>3, <2>4
<1> QED
  BY <1>3, <1>4
     DEF Next, Commit, RaftStep, LoopStep, Learn, Elected, Deposed, ApplierTick,
         ApplierPush, InstallSnapshot, PushSnapshot, CheckCommand, TryPush2Wait,
         LoadSnapshot, HandlerStep, Propose, Refuse, Register, Pop, GiveUp, AfterTimeout,
         WaitApplied, ExecuteGetOp, WaitAppliedTimeout, RpcFailure, Call, serverVars, vars

LEMMA NextAcked ==
  ASSUME TypeOK, ServerInv, [Next]_vars
  PROVE  AckedIsExecuted'
<1>1. IndexesInv /\ WaitersInv /\ RequestsInv /\ AnswersInv
  BY DEF ServerInv
<1>2. ASSUME NEW a, NEW i \in Node, a \in Elements(writes[i])
      PROVE  \E j \in Node : a \in Elements(writes[j])'
  BY <1>1, <1>2, WritesGrow
<1>3. \A a \in acked : \E j \in Node : a \in Elements(writes[j])'
  BY <1>1, <1>2 DEF AnswersInv, AckedIsExecuted
<1>4. CASE UNCHANGED acked
  BY <1>3, <1>4 DEF AckedIsExecuted, Elements
<1>5. ASSUME NEW h \in calls, Ends(h)
      PROVE  AckedIsExecuted'
  <2>1. CASE UNCHANGED acked
    BY <1>4, <2>1
  <2>2. CASE \E err : /\ Answer(h, err)
                      /\ Awaited(h) /\ err = "OK" /\ h.kind = "put"
                           => Op(h) \in Elements(writes[h.node])
    <3>1. PICK err : /\ Answer(h, err)
                     /\ Awaited(h) /\ err = "OK" /\ h.kind = "put"
                          => Op(h) \in Elements(writes[h.node])
      BY <2>2
    <3>2. \/ UNCHANGED acked
          \/ Awaited(h) /\ err = "OK" /\ h.kind = "put" /\ acked' = acked \cup {Op(h)}
      BY <3>1, AnswerCases
    <3>3. CASE Awaited(h) /\ err = "OK" /\ h.kind = "put" /\ acked' = acked \cup {Op(h)}
      <4>1. h.node \in Node /\ Op(h) \in Elements(writes[h.node])
        BY <3>1, <3>3, CallsFacts
      <4>2. \E j \in Node : Op(h) \in Elements(writes[j])'
        BY <1>2, <4>1
      <4>3. \A a \in acked' : \E j \in Node : a \in Elements(writes[j])'
        BY <1>3, <3>3, <4>2
      <4> QED
        BY <4>3 DEF AckedIsExecuted, Elements
    <3> QED
      BY <1>4, <3>2, <3>3
  <2> QED
    BY <1>1, <1>5, <2>1, <2>2, TrueAnswers
<1> QED
  BY <1>4, <1>5
     DEF Next, Commit, RaftStep, LoopStep, Learn, Elected, Deposed, ApplierTick,
         ApplierPush, InstallSnapshot, PushSnapshot, CheckCommand, ExecutePutOp,
         TryPush2Wait, LoadSnapshot, HandlerStep, Propose, Register, GiveUp, WaitApplied,
         RpcFailure, Call, history, vars, Ends

LEMMA NextAnswers ==
  ASSUME TypeOK, ServerInv, [Next]_vars
  PROVE  AnswersInv'
<1>1. \A i \in Node, c \in Client : Served(i, <<c, lastRequestId[i][c]>>)'
  BY NextLatest
<1>2. \A i \in Node : (LoopServed(i) /\ QueuesServed(i))'
  BY NextLoop, NextQueues
<1>3. \A i \in Node : Elements(writes[i])' \subseteq Elements(committed)'
  BY NextWrites
<1> QED
  BY <1>1, <1>2, <1>3, NextAcked DEF AnswersInv

-----------------------------------------------------------------------------

LEMMA InitServer == Init => ServerInv
<1> SUFFICES ASSUME Init
             PROVE  ServerInv
  OBVIOUS
<1>1. Elements(<<>>) = {}
  BY DEF Elements
<1>2. committed = <<>> /\ Elements(committed) = {} /\ proposals = {} /\ pushers = {}
      /\ calls = {} /\ acked = {}
  BY <1>1 DEF Init
<1>3. \A i \in Node :
        /\ applied[i] = 0 /\ shot[i] = 0 /\ commit[i] = 0 /\ loop[i] = Idle
        /\ batch[i] = <<>> /\ queue[i] = <<>> /\ writes[i] = <<>>
        /\ \A c \in Client : lastRequestId[i][c] = 0
        /\ \A k \in 1..MaxIndex : appliedChan[i][k] = None
  BY DEF Init
<1>4. \A c \in Client : call[c] = NoCall /\ requestId[c] = 0 /\ failures = 0
  BY DEF Init
<1>5. Len(committed) = 0 /\ 0 <= MaxIndex
  BY <1>2, KvAssumption
<1>6. \A i \in Node : HandsUpCommitted(i)
  BY <1>1, <1>3, <1>5 DEF HandsUpCommitted, Idle
<1>7. IndexesInv
  BY <1>2, <1>5, <1>6 DEF IndexesInv
<1>8. WaitersInv
  BY <1>2 DEF WaitersInv
<1>9. \A c \in Client : ClerkInv(c)
  BY <1>4 DEF ClerkInv, NoCall
<1>10. \A i \in Node, c \in Client : Known(<<c, lastRequestId[i][c]>>)
  BY <1>3, <1>4 DEF Known
<1>11. RequestsInv
  BY <1>2, <1>9, <1>10 DEF RequestsInv
<1>12. \A i \in Node : \A op : op[1] \in Client => Served(i, op)
  BY <1>4 DEF Served, AwaitedPut, NoCall
<1>13. \A i \in Node, c \in Client : Served(i, <<c, lastRequestId[i][c]>>)
  BY <1>12
<1>14. \A i \in Node :
         LoopServed(i) /\ QueuesServed(i) /\ Elements(writes[i]) \subseteq Elements(committed)
  BY <1>1, <1>3 DEF LoopServed, QueuesServed, Idle
<1>15. AnswersInv
  BY <1>2, <1>13, <1>14 DEF AnswersInv, AckedIsExecuted
<1> QED
  BY <1>7, <1>8, <1>11, <1>15 DEF ServerInv

LEMMA StepServer ==
  ASSUME TypeOK, ServerInv, [Next]_vars
  PROVE  TypeOK' /\ ServerInv'
<1>1. IndexesInv /\ WaitersInv /\ RequestsInv
  BY DEF ServerInv
<1>2. TypeOK'
  BY <1>1, NextTypes
<1> QED
  BY <1>1, <1>2, NextIndexes, NextWaiters, NextRequests, NextAnswers DEF ServerInv

\* Whatever the order of the threads of a server, of its clients and of the core below
\* it: the state of the servers has its type, handlers of put wait at indexes of their
\* own, and what may make a server answer OK stands for a put in its table.
THEOREM ServerKept == Spec => [](TypeOK /\ ServerInv)
<1>1. Init => TypeOK /\ ServerInv
  BY InitTypes, InitServer
<1>2. TypeOK /\ ServerInv /\ [Next]_vars => (TypeOK /\ ServerInv)'
  BY StepServer
<1> QED
  BY <1>1, <1>2, PTL DEF Spec

\* The fields of the servers, the handlers and the clerks have their types in every
\* reachable state.
THEOREM ServerTypes == Spec => []TypeOK
BY ServerKept, PTL

\* _L_put: nobody takes the answer of another handler, or deletes the queue that another
\* one waits at.
THEOREM OwnQueues == Spec => []WaitersHaveTheirOwnQueue
<1>1. TypeOK /\ ServerInv => WaitersHaveTheirOwnQueue
  <2> SUFFICES ASSUME WaitersInv
               PROVE  WaitersHaveTheirOwnQueue
    BY DEF ServerInv
  <2> SUFFICES ASSUME NEW h \in calls, h.step \in {"waiting", "gave up"}
               PROVE  /\ appliedChan[h.node][h.index] # None
                      /\ \A g \in calls \ {h} :
                           g.node = h.node /\ g.step \in {"logged", "waiting", "gave up"}
                             => g.index # h.index
    BY DEF WaitersHaveTheirOwnQueue
  <2> QED
    BY DEF WaitersInv, Logs
<1> QED
  BY <1>1, ServerKept, PTL

\* _L_put, clerk::put: whatever way the answer takes, a put that returned was executed.
THEOREM AcknowledgedIsExecuted == Spec => []AckedIsExecuted
<1>1. TypeOK /\ ServerInv => AckedIsExecuted
  BY DEF ServerInv, AnswersInv
<1> QED
  BY <1>1, ServerKept, PTL

-----------------------------------------------------------------------------
(* The refinement of KvStore. *)

\* The put a clerk waits for, 0 for none, as PutsTakeEffectOnce maps it.
Wanted(c) == IF call[c].kind = "put" THEN call[c].req ELSE 0
WantedPuts == [c \in Client |-> Wanted(c)]

LEMMA StoreState ==
  ASSUME TypeOK
  PROVE  /\ Store!Effects = Elements(committed)
         /\ \A c \in Client : WantedPuts[c] = Wanted(c)
<1>1. Elements(FirstOccurrences(committed)) = Elements(committed)
  BY FirstOccurrencesElements DEF TypeOK, CoreTypes
<1>2. Store!Effects = Elements(FirstOccurrences(committed))
  BY DEF Store!Effects, Elements
<1> QED
  BY <1>1, <1>2 DEF WantedPuts

LEMMA SameWanted ==
  ASSUME \A c \in Client : Wanted(c)' = Wanted(c)
  PROVE  WantedPuts' = WantedPuts
BY DEF WantedPuts

LEMMA WantedSet ==
  ASSUME NEW c \in Client, NEW r, Wanted(c)' = r,
         \A d \in Client : d # c => Wanted(d)' = Wanted(d)
  PROVE  WantedPuts' = [WantedPuts EXCEPT ![c] = r]
BY DEF WantedPuts

\* A commit is the effect of the put, unless the put was committed before.
LEMMA CommitRefines ==
  ASSUME TypeOK, ServerInv, Commit
  PROVE  [Store!Next]_(Store!vars)
<1>1. PICK p \in proposals : committed' = Append(committed, p[2])
  BY DEF Commit
<1>2. PICK op : op = p[2]
  OBVIOUS
<1>3. /\ op \in Ops /\ op[1] \in Client /\ op[2] \in 1..MaxCalls /\ op = <<op[1], op[2]>>
      /\ committed \in Seq(Ops)
  BY <1>1, <1>2, CommitElements, OpTypes
<1>4. WantedPuts' = WantedPuts
  <2>1. UNCHANGED call
    BY DEF Commit, clerkVars
  <2> QED
    BY <2>1 DEF WantedPuts, Wanted
<1>5. FirstOccurrences(committed)' =
        IF op \in Elements(committed) THEN FirstOccurrences(committed)
        ELSE Append(FirstOccurrences(committed), op)
  BY <1>1, <1>2, <1>3, FirstOccurrencesAppend
<1>6. CASE op \in Elements(committed)
  BY <1>4, <1>5, <1>6 DEF Store!vars, WantedPuts, Wanted
<1>7. CASE op \notin Elements(committed)
  <2>1. Wanted(op[1]) = op[2]
    BY <1>2, <1>7 DEF ServerInv, RequestsInv, Pending, AwaitedPut, Wanted
  <2>2. WantedPuts[op[1]] = op[2] /\ op[2] # 0
    BY <1>3, <2>1, StoreState
  <2>3. <<op[1], WantedPuts[op[1]]>> = op
    BY <1>3, <2>2
  <2>4. op \notin Store!Effects
    BY <1>7, StoreState
  <2>5. Store!Effect(op[1])
    BY <1>4, <1>5, <1>7, <2>2, <2>3, <2>4
       DEF Store!Effect, Store!TookEffect, WantedPuts, Wanted
  <2> QED
    BY <1>3, <2>5 DEF Store!Next
<1> QED
  BY <1>6, <1>7

\* The call of a put is one, the call of anything else is nothing.
LEMMA CallRefines ==
  ASSUME TypeOK, ServerInv, NEW c \in Client, NEW kind \in Kinds, Call(c, kind)
  PROVE  [Store!Next]_(Store!vars)
<1> DEFINE r == requestId[c] + 1
           w == [kind |-> kind, req |-> r, node |-> leaderId[c], attempt |-> 0]
<1>1. /\ call[c] = NoCall /\ SetsCall(c, w) /\ UNCHANGED committed
      /\ requestId[c] < MaxCalls
  BY DEF Call, Waits, SetsCall, raftVars
<1>2. w.kind = kind /\ w.req = r
  OBVIOUS
<1> HIDE DEF w
<1>3. call'[c] = w /\ \A d \in Client : d # c => call'[d] = call[d]
  BY <1>1, CallEntry
<1>4. Wanted(c) = 0 /\ \A d \in Client : d # c => Wanted(d)' = Wanted(d)
  BY <1>1, <1>3 DEF Wanted, NoCall
<1>5. UNCHANGED FirstOccurrences(committed)
  BY <1>1
<1>6. requestId[c] \in Nat /\ requestId[c] < MaxCalls /\ MaxCalls \in Nat
  <2>1. requestId \in [Client -> 0..MaxCalls]
    BY CallFacts DEF TypeOK
  <2> QED
    BY <1>1, <2>1, KvAssumption
<1>7. CASE kind = "put"
  <2>1. Wanted(c)' = r
    BY <1>2, <1>3, <1>7 DEF Wanted
  <2>2. WantedPuts' = [WantedPuts EXCEPT ![c] = r]
    BY <1>4, <2>1, WantedSet
  <2>3. r \in 1..MaxCalls
    BY <1>6
  <2>4. ASSUME NEW e \in Elements(committed), e[1] = c
        PROVE  e[2] < r
    <3>1. Known(e) /\ e[2] \in Nat
      BY CommittedKnown, OpTypes DEF ServerInv
    <3>2. e[2] <= requestId[c]
      BY <2>4, <3>1 DEF Known
    <3> QED
      BY <1>6, <3>1, <3>2
  <2>5. WantedPuts[c] = 0 /\ \A e \in Store!Effects : e[1] = c => e[2] < r
    BY <1>4, <2>4, StoreState
  <2>6. PICK n \in 1..MaxCalls : n = r
    BY <2>3
  <2>7. Store!Put(c, n)
    BY <1>5, <2>2, <2>5, <2>6 DEF Store!Put, WantedPuts, Wanted
  <2> QED
    BY <2>7 DEF Store!Next
<1>8. CASE kind # "put"
  <2>1. Wanted(c)' = 0
    BY <1>2, <1>3, <1>8 DEF Wanted
  <2>2. WantedPuts' = WantedPuts
    BY <1>4, <2>1, SameWanted
  <2> QED
    BY <1>5, <2>2 DEF Store!vars, WantedPuts, Wanted
<1> QED
  BY <1>7, <1>8

\* An answer lets a put return that took effect, or changes nothing.
LEMMA AnswerRefines ==
  ASSUME TypeOK, ServerInv, UNCHANGED committed, NEW h \in calls, NEW err,
         Answer(h, err),
         Awaited(h) /\ err = "OK" /\ h.kind = "put" => Op(h) \in Elements(writes[h.node])
  PROVE  [Store!Next]_(Store!vars)
<1>1. h.client \in Client /\ h.node \in Node /\ h.req \in 1..MaxCalls
  BY CallsFacts
<1>2. PICK c \in Client : c = h.client
  BY <1>1
<1>3. UNCHANGED FirstOccurrences(committed)
  OBVIOUS
<1>4. CASE \A d \in Client : Wanted(d)' = Wanted(d)
  BY <1>3, <1>4, SameWanted DEF Store!vars, WantedPuts, Wanted
<1>5. CASE UNCHANGED call
  BY <1>4, <1>5 DEF Wanted
<1>6. ASSUME NEW i, SetsCall(c, [call[c] EXCEPT !.node = i])
      PROVE  [Store!Next]_(Store!vars)
  <2>1. /\ call'[c] = [call[c] EXCEPT !.node = i]
        /\ \A d \in Client : d # c => call'[d] = call[d]
    BY <1>6, CallEntry
  <2>2. call[c] \in Waiting
    BY CallFacts DEF TypeOK
  <2>3. call'[c].kind = call[c].kind /\ call'[c].req = call[c].req
    BY <2>1, <2>2 DEF Waiting
  <2> QED
    BY <1>4, <2>1, <2>3 DEF Wanted
<1>7. CASE Awaited(h) /\ err = "OK" /\ SetsCall(c, NoCall)
  <2>1. call'[c] = NoCall /\ \A d \in Client : d # c => call'[d] = call[d]
    BY <1>7, CallEntry
  <2>2. call[c].kind = h.kind /\ call[c].req = h.req
    BY <1>2, <1>7 DEF Awaited
  <2>3. Wanted(c)' = 0 /\ \A d \in Client : d # c => Wanted(d)' = Wanted(d)
    BY <2>1 DEF Wanted, NoCall
  <2>4. CASE h.kind = "put"
    <3>1. WantedPuts' = [WantedPuts EXCEPT ![c] = 0]
      BY <2>3, WantedSet
    <3>2. WantedPuts[c] = h.req /\ h.req # 0
      BY <1>1, <2>2, <2>4, StoreState DEF Wanted
    <3>3. Op(h) \in Elements(committed)
      BY <1>1, <1>7, <2>4 DEF ServerInv, AnswersInv
    <3>4. <<c, WantedPuts[c]>> \in Store!Effects
      BY <1>2, <3>2, <3>3, StoreState DEF Op
    <3>5. Store!Return(c)
      BY <1>3, <3>1, <3>2, <3>4 DEF Store!Return, Store!TookEffect, WantedPuts, Wanted
    <3> QED
      BY <3>5 DEF Store!Next
  <2>5. CASE h.kind # "put"
    <3>1. Wanted(c) = 0
      BY <2>2, <2>5 DEF Wanted
    <3> QED
      BY <1>4, <2>3, <3>1
  <2> QED
    BY <2>4, <2>5
<1> QED
  BY <1>2, <1>5, <1>6, <1>7, AnswerCases

LEMMA NoneFirst == FirstOccurrences(<<>>) = <<>>
<1>1. /\ FirstOccurrences(<<>>) \in Seq(Ops)
      /\ Elements(FirstOccurrences(<<>>)) = {}
  <2>1. Elements(<<>>) = {} /\ <<>> \in Seq(Ops)
    BY EmptySeq DEF Elements
  <2> QED
    BY <2>1, FirstOccurrencesType, FirstOccurrencesElements
<1>2. PICK o : o = FirstOccurrences(<<>>)
  OBVIOUS
<1>3. o \in Seq(Ops) /\ ~\E k \in 1..Len(o) : TRUE
  BY <1>1, <1>2 DEF Elements
<1>4. Len(o) = 0
  BY <1>3, LenProperties
<1> QED
  BY <1>2, <1>3, <1>4, EmptySeq

LEMMA StoreInit == Init => Store!Init
<1> SUFFICES ASSUME Init
             PROVE  Store!Init
  OBVIOUS
<1>1. WantedPuts = [c \in Client |-> 0]
  BY DEF Init, WantedPuts, Wanted, NoCall
<1>2. FirstOccurrences(committed) = <<>>
  BY NoneFirst DEF Init
<1> QED
  BY <1>1, <1>2 DEF Store!Init, WantedPuts, Wanted

LEMMA StoreStep ==
  ASSUME TypeOK, ServerInv, [Next]_vars
  PROVE  [Store!Next]_(Store!vars)
<1>1. CASE UNCHANGED <<committed, call>>
  BY <1>1 DEF Store!vars
<1>2. ASSUME NEW h \in calls, Ends(h)
      PROVE  [Store!Next]_(Store!vars)
  <2>1. UNCHANGED committed
    BY <1>2 DEF Ends, Refuse, Pop, AfterTimeout, ExecuteGetOp, WaitAppliedTimeout, raftVars
  <2>2. CASE UNCHANGED clerkVars
    BY <1>1, <2>1, <2>2 DEF clerkVars
  <2> QED
    BY <1>2, <2>1, <2>2, TrueAnswers, AnswerRefines DEF ServerInv
<1>3. ASSUME NEW c \in Client, RpcFailure(c)
      PROVE  [Store!Next]_(Store!vars)
  <2>1. PICK i : SetsCall(c, [call[c] EXCEPT !.node = i, !.attempt = call[c].attempt + 1])
    BY <1>3 DEF RpcFailure, SetsCall
  <2>2. /\ call'[c] = [call[c] EXCEPT !.node = i, !.attempt = call[c].attempt + 1]
        /\ \A d \in Client : d # c => call'[d] = call[d]
    BY <2>1, CallEntry
  <2>3. call[c] \in Waiting
    BY CallFacts DEF TypeOK
  <2>4. call'[c].kind = call[c].kind /\ call'[c].req = call[c].req
    BY <2>2, <2>3 DEF Waiting
  <2>5. WantedPuts' = WantedPuts
    BY <2>2, <2>4, SameWanted DEF Wanted
  <2>6. UNCHANGED committed
    BY <1>3 DEF RpcFailure, raftVars
  <2> QED
    BY <2>5, <2>6 DEF Store!vars, WantedPuts, Wanted
<1>4. ASSUME NEW i \in Node, RaftStep(i) \/ LoopStep(i)
      PROVE  UNCHANGED <<committed, call>>
  BY <1>4 DEF RaftStep, LoopStep, Learn, Elected, Deposed, ApplierTick, ApplierPush,
         InstallSnapshot, PushSnapshot, CheckCommand, ExecutePutOp, TryPush2Wait,
         LoadSnapshot, raftVars, clerkVars
<1>5. ASSUME NEW h \in calls, HandlerStep(h)
      PROVE  UNCHANGED <<committed, call>> \/ Ends(h)
  BY <1>5 DEF HandlerStep, Propose, Register, GiveUp, WaitApplied, raftVars, clerkVars, Ends
<1>6. \/ UNCHANGED <<committed, call>>
      \/ Commit
      \/ \E h \in calls : Ends(h)
      \/ \E c \in Client : RpcFailure(c) \/ \E kind \in Kinds : Call(c, kind)
  <2>1. CASE UNCHANGED vars
    BY <2>1 DEF vars, raftVars, clerkVars
  <2> QED
    BY <1>4, <1>5, <2>1, Zenon DEF Next
<1> QED
  BY <1>1, <1>2, <1>3, <1>6, CommitRefines, CallRefines

\* _L_put, _L_duplicateRequest, clerk::put: the servers and their clerks implement a store
\* that gives every put one effect between its call and its return, however often the
\* put is refused, timed out, sent again and logged.
THEOREM PutsOnce == Spec => PutsTakeEffectOnce
<1>1. Init => Store!Init
  BY StoreInit
<1>2. TypeOK /\ ServerInv /\ [Next]_vars => [Store!Next]_(Store!vars)
  BY StoreStep
<1> QED
  BY <1>1, <1>2, ServerKept, PTL DEF Spec, PutsTakeEffectOnce, Store!Spec

-----------------------------------------------------------------------------
(* The order in which commands are handed up. *)

Items == {"command", "snapshot"} \X (1..MaxIndex)
CommandsIn(q) == {q[n][2] : n \in {m \in 1..Len(q) : q[m][1] = "command"}}

\* InOrder and NoneLeftOut, of the values they are about.
Ordered(step, e, t, a, q, b) ==
  /\ step # "idle" => e < t
  /\ t <= a
  /\ \A x \in CommandsIn(q) \cup Elements(b) : t < x /\ x <= a
  /\ \A m, n \in 1..Len(q) :
       m < n /\ q[m][1] = "command" /\ q[n][1] = "command" => q[m][2] < q[n][2]
  /\ \A x \in CommandsIn(q), y \in Elements(b) : x < y
  /\ \A m, n \in 1..Len(b) : m < n => b[m] < b[n]

Covered(e, t, a, q, b, S) ==
  \A x \in (e + 1)..a :
    x = t \/ x \in CommandsIn(q) \cup Elements(b) \/ \E k \in S : x <= k

Snapshots(i) == {k \in 1..MaxIndex : SnapshotAt(i, k)}

LEMMA OrderedIs ==
  ASSUME NEW i \in Node
  PROVE  InOrder(i) <=> Ordered(loop[i].step, executed[i], Taken(i), applied[i],
                                queue[i], batch[i])
BY DEF InOrder, Ordered, OnTheWay, Queued, CommandsIn

LEMMA CoveredIs ==
  ASSUME TypeOK, NEW i \in Node
  PROVE  NoneLeftOut(i) <=> Covered(executed[i], Taken(i), applied[i], queue[i], batch[i],
                                    Snapshots(i))
<1>1. {executed[i], applied[i]} \subseteq Nat /\ MaxIndex \in Nat
  BY NodeTypes, IndexFacts
<1>2. \A x \in (executed[i] + 1)..applied[i] :
        (\E k \in x..MaxIndex : SnapshotAt(i, k)) <=> (\E k \in Snapshots(i) : x <= k)
  BY <1>1 DEF Snapshots
<1> QED
  BY <1>2 DEF NoneLeftOut, Covered, OnTheWay, Queued, CommandsIn

LEMMA ItemFacts ==
  ASSUME NEW q \in Seq(Items), NEW n \in 1..Len(q)
  PROVE  q[n] \in Items /\ q[n][2] \in 1..MaxIndex /\ q[n][2] \in Nat
BY ElementOfSeq, IndexFacts DEF Items

LEMMA CommandsNat ==
  ASSUME NEW q \in Seq(Items)
  PROVE  CommandsIn(q) \subseteq Nat
BY ItemFacts DEF CommandsIn

\* The head of a sequence of numbers that rises is its least.
LEMMA BatchSplits ==
  ASSUME NEW b \in Seq(1..MaxIndex), b # <<>>
  PROVE  /\ Head(b) \in 1..MaxIndex /\ Tail(b) \in Seq(1..MaxIndex)
         /\ Elements(b) = {Head(b)} \cup Elements(Tail(b))
         /\ (\A m, n \in 1..Len(b) : m < n => b[m] < b[n]) =>
              /\ \A y \in Elements(Tail(b)) : Head(b) < y
              /\ \A m, n \in 1..Len(Tail(b)) : m < n => Tail(b)[m] < Tail(b)[n]
<1>1. /\ Head(b) \in 1..MaxIndex /\ Tail(b) \in Seq(1..MaxIndex)
      /\ Len(Tail(b)) = Len(b) - 1 /\ Len(b) \in Nat /\ Len(b) # 0
      /\ \A n \in 1..Len(Tail(b)) : Tail(b)[n] = b[n + 1]
      /\ Head(b) = b[1]
  <2> DEFINE S == 1..MaxIndex
  <2>1. b \in Seq(S) /\ b # <<>>
    OBVIOUS
  <2> HIDE DEF S
  <2>2. /\ Head(b) \in S /\ Tail(b) \in Seq(S)
        /\ Len(Tail(b)) = Len(b) - 1 /\ Len(b) \in Nat /\ Len(b) # 0
        /\ \A n \in 1..Len(Tail(b)) : Tail(b)[n] = b[n + 1]
        /\ Head(b) = b[1]
    BY <2>1, HeadTailProperties, LenProperties, EmptySeq
  <2> QED
    BY <2>2 DEF S
<1>2. \A n \in 1..Len(Tail(b)) : n + 1 \in 1..Len(b) /\ 1 < n + 1
  BY <1>1
<1>3. \A n \in 1..Len(b) : n = 1 \/ (n - 1 \in 1..Len(Tail(b)) /\ Tail(b)[n - 1] = b[n])
  BY <1>1
<1>4. 1 \in 1..Len(b)
  BY <1>1
<1>5. Elements(b) = {Head(b)} \cup Elements(Tail(b))
  <2>1. Elements(b) \subseteq {Head(b)} \cup Elements(Tail(b))
    <3>1. \A n \in 1..Len(b) : b[n] = Head(b) \/ b[n] \in Elements(Tail(b))
      <4> SUFFICES ASSUME NEW n \in 1..Len(b), n # 1
                   PROVE  b[n] \in Elements(Tail(b))
        BY <1>1
      <4>1. n - 1 \in 1..Len(Tail(b)) /\ Tail(b)[n - 1] = b[n]
        BY <1>3
      <4> QED
        BY <4>1 DEF Elements
    <3> QED
      BY <3>1 DEF Elements
  <2>2. {Head(b)} \cup Elements(Tail(b)) \subseteq Elements(b)
    BY <1>1, <1>2, <1>4 DEF Elements
  <2> QED
    BY <2>1, <2>2
<1>6. ASSUME \A m, n \in 1..Len(b) : m < n => b[m] < b[n]
      PROVE  /\ \A y \in Elements(Tail(b)) : Head(b) < y
             /\ \A m, n \in 1..Len(Tail(b)) : m < n => Tail(b)[m] < Tail(b)[n]
  <2>1. \A n \in 1..Len(Tail(b)) : Head(b) < Tail(b)[n]
    BY <1>1, <1>2, <1>4, <1>6
  <2>2. \A m, n \in 1..Len(Tail(b)) : m < n => m + 1 < n + 1
    BY <1>1
  <2> QED
    BY <1>1, <1>2, <1>6, <2>1, <2>2 DEF Elements
<1> QED
  BY <1>1, <1>5, <1>6

\* The same for a queue.
LEMMA QueueSplits ==
  ASSUME NEW q \in Seq(Items), q # <<>>
  PROVE  /\ Head(q) \in Items /\ Tail(q) \in Seq(Items)
         /\ CommandsIn(q) = CommandsIn(Tail(q)) \cup
                              (IF Head(q)[1] = "command" THEN {Head(q)[2]} ELSE {})
         /\ \A k : Contains(q, <<"snapshot", k>>) /\ Head(q)[1] = "command"
                     => Contains(Tail(q), <<"snapshot", k>>)
         /\ (\A m, n \in 1..Len(q) :
               m < n /\ q[m][1] = "command" /\ q[n][1] = "command" => q[m][2] < q[n][2]) =>
              /\ Head(q)[1] = "command" => \A y \in CommandsIn(Tail(q)) : Head(q)[2] < y
              /\ \A m, n \in 1..Len(Tail(q)) :
                   m < n /\ Tail(q)[m][1] = "command" /\ Tail(q)[n][1] = "command"
                     => Tail(q)[m][2] < Tail(q)[n][2]
<1>1. /\ Head(q) \in Items /\ Tail(q) \in Seq(Items)
      /\ Len(Tail(q)) = Len(q) - 1 /\ Len(q) \in Nat /\ Len(q) # 0
      /\ \A n \in 1..Len(Tail(q)) : Tail(q)[n] = q[n + 1]
      /\ Head(q) = q[1]
  BY HeadTailProperties, LenProperties, EmptySeq
<1>2. \A n \in 1..Len(Tail(q)) : n + 1 \in 1..Len(q) /\ 1 < n + 1
  BY <1>1
<1>3. \A n \in 1..Len(q) : n = 1 \/ (n - 1 \in 1..Len(Tail(q)) /\ Tail(q)[n - 1] = q[n])
  BY <1>1
<1>4. 1 \in 1..Len(q)
  BY <1>1
<1>5. CommandsIn(q) = CommandsIn(Tail(q)) \cup
                        (IF Head(q)[1] = "command" THEN {Head(q)[2]} ELSE {})
  <2>1. ASSUME NEW n \in 1..Len(q), q[n][1] = "command"
        PROVE  q[n][2] \in CommandsIn(Tail(q)) \/ (Head(q)[1] = "command" /\ q[n][2] = Head(q)[2])
    BY <1>1, <1>3, <2>1 DEF CommandsIn
  <2>2. ASSUME NEW n \in 1..Len(Tail(q)), Tail(q)[n][1] = "command"
        PROVE  Tail(q)[n][2] \in CommandsIn(q)
    BY <1>1, <1>2, <2>2 DEF CommandsIn
  <2>3. Head(q)[1] = "command" => Head(q)[2] \in CommandsIn(q)
    BY <1>1, <1>4 DEF CommandsIn
  <2>4. \A y \in CommandsIn(q) :
          y \in CommandsIn(Tail(q)) \/ (Head(q)[1] = "command" /\ y = Head(q)[2])
    BY <2>1 DEF CommandsIn
  <2>5. \A y \in CommandsIn(Tail(q)) : y \in CommandsIn(q)
    BY <2>2 DEF CommandsIn
  <2> QED
    BY <2>3, <2>4, <2>5
<1>6. \A k : Contains(q, <<"snapshot", k>>) /\ Head(q)[1] = "command"
               => Contains(Tail(q), <<"snapshot", k>>)
  <2> SUFFICES ASSUME NEW k, Head(q)[1] = "command",
                      NEW n \in 1..Len(q), q[n] = <<"snapshot", k>>
               PROVE  \E m \in 1..Len(Tail(q)) : Tail(q)[m] = <<"snapshot", k>>
    BY DEF Contains
  <2>1. n # 1
    BY <1>1
  <2> QED
    BY <1>3, <2>1
<1>7. ASSUME \A m, n \in 1..Len(q) :
               m < n /\ q[m][1] = "command" /\ q[n][1] = "command" => q[m][2] < q[n][2]
      PROVE  /\ Head(q)[1] = "command" => \A y \in CommandsIn(Tail(q)) : Head(q)[2] < y
             /\ \A m, n \in 1..Len(Tail(q)) :
                  m < n /\ Tail(q)[m][1] = "command" /\ Tail(q)[n][1] = "command"
                    => Tail(q)[m][2] < Tail(q)[n][2]
  <2>1. ASSUME Head(q)[1] = "command", NEW n \in 1..Len(Tail(q)), Tail(q)[n][1] = "command"
        PROVE  Head(q)[2] < Tail(q)[n][2]
    BY <1>1, <1>2, <1>4, <1>7, <2>1
  <2>2. \A m, n \in 1..Len(Tail(q)) : m < n => m + 1 < n + 1
    BY <1>1
  <2>3. \A m, n \in 1..Len(Tail(q)) :
          m < n /\ Tail(q)[m][1] = "command" /\ Tail(q)[n][1] = "command"
            => Tail(q)[m][2] < Tail(q)[n][2]
    BY <1>1, <1>2, <1>7, <2>2
  <2>4. Head(q)[1] = "command" => \A y \in CommandsIn(Tail(q)) : Head(q)[2] < y
    BY <2>1 DEF CommandsIn
  <2> QED
    BY <2>3, <2>4
<1> QED
  BY <1>1, <1>5, <1>6, <1>7

\* What is behind a queue after a push.
LEMMA QueuePushed ==
  ASSUME NEW q \in Seq(Items), NEW x \in Items
  PROVE  /\ CommandsIn(Append(q, x)) = CommandsIn(q) \cup
                                         (IF x[1] = "command" THEN {x[2]} ELSE {})
         /\ \A y : Contains(q, y) \/ y = x => Contains(Append(q, x), y)
         /\ (\A m, n \in 1..Len(q) :
               m < n /\ q[m][1] = "command" /\ q[n][1] = "command" => q[m][2] < q[n][2])
            /\ (x[1] = "command" => \A y \in CommandsIn(q) : y < x[2])
              => \A m, n \in 1..Len(Append(q, x)) :
                   (m < n /\ Append(q, x)[m][1] = "command" /\ Append(q, x)[n][1] = "command")
                     => Append(q, x)[m][2] < Append(q, x)[n][2]
<1> DEFINE p == Append(q, x)
<1>1. /\ p \in Seq(Items) /\ Len(p) = Len(q) + 1 /\ Len(q) \in Nat
      /\ \A n \in 1..Len(q) : p[n] = q[n]
      /\ p[Len(q) + 1] = x
  BY AppendProperties, LenProperties
<1> HIDE DEF p
<1>2. \A n \in 1..Len(q) : n \in 1..Len(p)
  BY <1>1
<1>3. \A n \in 1..Len(p) : n \in 1..Len(q) \/ n = Len(q) + 1
  BY <1>1
<1>4. Len(q) + 1 \in 1..Len(p)
  BY <1>1
<1>5. \A y : y \in CommandsIn(p) <=> y \in CommandsIn(q) \/ (x[1] = "command" /\ y = x[2])
  BY <1>1, <1>2, <1>3, <1>4 DEF CommandsIn
<1>6. \A y : Contains(q, y) \/ y = x => Contains(p, y)
  BY <1>1, <1>2, <1>4 DEF Contains
<1>7. ASSUME \A m, n \in 1..Len(q) :
               m < n /\ q[m][1] = "command" /\ q[n][1] = "command" => q[m][2] < q[n][2],
             x[1] = "command" => \A y \in CommandsIn(q) : y < x[2],
             NEW m \in 1..Len(p), NEW n \in 1..Len(p), m < n,
             p[m][1] = "command", p[n][1] = "command"
      PROVE  p[m][2] < p[n][2]
  <2>1. m \in 1..Len(q) /\ p[m] = q[m]
    BY <1>1, <1>3, <1>7
  <2>2. CASE n \in 1..Len(q)
    BY <1>1, <1>7, <2>1, <2>2
  <2>3. CASE n = Len(q) + 1
    <3>1. q[m][2] \in CommandsIn(q)
      BY <1>7, <2>1 DEF CommandsIn
    <3> QED
      BY <1>1, <1>7, <2>1, <2>3, <3>1
  <2> QED
    BY <1>3, <2>2, <2>3
<1> QED
  BY <1>5, <1>6, <1>7 DEF p

\* The applier takes everything up to c.
Counts(b, a, c) == Len(b) = c - a /\ \A k \in 1..Len(b) : b[k] = a + k

LEMMA TickOrdered ==
  ASSUME NEW step, NEW e \in Nat, NEW t \in Nat, NEW a \in Nat, NEW c \in Nat, a < c,
         NEW q \in Seq(Items), NEW S, Ordered(step, e, t, a, q, <<>>),
         Covered(e, t, a, q, <<>>, S),
         NEW b, Counts(b, a, c)
  PROVE  Ordered(step, e, t, c, q, b) /\ Covered(e, t, c, q, b, S)
<1>1. Len(b) = c - a /\ \A k \in 1..Len(b) : b[k] = a + k
  BY DEF Counts
<1>2. Elements(b) = (a + 1)..c
  <2>1. \A x \in (a + 1)..c : x - a \in 1..Len(b) /\ b[x - a] = x
    BY <1>1
  <2>2. \A k \in 1..Len(b) : b[k] \in (a + 1)..c
    BY <1>1
  <2> QED
    BY <2>1, <2>2 DEF Elements
<1>3. CommandsIn(q) \subseteq Nat
  BY CommandsNat
<1>4. \A x \in CommandsIn(q) : t < x /\ x <= a
  BY DEF Ordered
<1>5. t <= a
  BY DEF Ordered
<1>6. \A x \in CommandsIn(q) \cup Elements(b) : t < x /\ x <= c
  BY <1>2, <1>3, <1>4, <1>5
<1>7. \A x \in CommandsIn(q), y \in Elements(b) : x < y
  BY <1>2, <1>3, <1>4
<1>8. \A m, n \in 1..Len(b) : m < n => b[m] < b[n]
  BY <1>1
<1>9. Ordered(step, e, t, c, q, b)
  BY <1>5, <1>6, <1>7, <1>8 DEF Ordered
<1>10. Covered(e, t, c, q, b, S)
  <2>1. \A x \in (e + 1)..c : x \in (e + 1)..a \/ x \in Elements(b)
    BY <1>2
  <2>2. Elements(<<>>) = {}
    BY DEF Elements
  <2> QED
    BY <2>1, <2>2 DEF Covered
<1> QED
  BY <1>9, <1>10

\* The first of the batch goes behind the queue.
LEMMA PushOrdered ==
  ASSUME NEW step, NEW e \in Nat, NEW t \in Nat, NEW a \in Nat, NEW q \in Seq(Items),
         NEW b \in Seq(1..MaxIndex), b # <<>>, NEW S, Ordered(step, e, t, a, q, b),
         Covered(e, t, a, q, b, S)
  PROVE  /\ Append(q, <<"command", Head(b)>>) \in Seq(Items)
         /\ Ordered(step, e, t, a, Append(q, <<"command", Head(b)>>), Tail(b))
         /\ Covered(e, t, a, Append(q, <<"command", Head(b)>>), Tail(b), S)
<1>1. PICK x : x = <<"command", Head(b)>>
  OBVIOUS
<1>2. PICK p : p = Append(q, x)
  OBVIOUS
<1>3. PICK d : d = Tail(b)
  OBVIOUS
<1>4. x \in Items /\ x[1] = "command" /\ x[2] = Head(b)
  BY <1>1, BatchSplits DEF Items
<1>5. /\ \A m, n \in 1..Len(b) : m < n => b[m] < b[n]
      /\ \A y \in CommandsIn(q), z \in Elements(b) : y < z
      /\ \A y \in CommandsIn(q) \cup Elements(b) : t < y /\ y <= a
      /\ step # "idle" => e < t
      /\ t <= a
  BY DEF Ordered
<1>6. /\ Elements(b) = {x[2]} \cup Elements(d)
      /\ \A y \in Elements(d) : x[2] < y
      /\ \A m, n \in 1..Len(d) : m < n => d[m] < d[n]
  BY <1>3, <1>4, <1>5, BatchSplits
<1>7. \A y \in CommandsIn(q) : y < x[2]
  BY <1>5, <1>6
<1>8. \A m, n \in 1..Len(q) :
        (m < n /\ q[m][1] = "command" /\ q[n][1] = "command") => q[m][2] < q[n][2]
  BY DEF Ordered
<1>9. /\ CommandsIn(p) = CommandsIn(q) \cup {x[2]}
      /\ \A m, n \in 1..Len(p) :
           (m < n /\ p[m][1] = "command" /\ p[n][1] = "command") => p[m][2] < p[n][2]
  BY <1>2, <1>4, <1>7, <1>8, QueuePushed
<1>10. p \in Seq(Items)
  BY <1>2, <1>4, AppendProperties
<1>11. CommandsIn(p) \cup Elements(d) = CommandsIn(q) \cup Elements(b)
  BY <1>6, <1>9
<1>12. \A y \in CommandsIn(p), z \in Elements(d) : y < z
  BY <1>5, <1>6, <1>9
<1>13. Ordered(step, e, t, a, p, d)
  BY <1>5, <1>6, <1>9, <1>11, <1>12 DEF Ordered
<1>14. Covered(e, t, a, p, d, S)
  BY <1>11 DEF Covered
<1> QED
  BY <1>1, <1>2, <1>3, <1>10, <1>13, <1>14

\* A snapshot at c is on its way, if there is none already, and none is lost.
Shots(S, T, a, c) ==
  S \subseteq T /\ S \subseteq Nat /\ (a < c => \E k \in T : k \in Nat /\ c <= k)

LEMMA InstallOrdered ==
  ASSUME NEW step, NEW e \in Nat, NEW t \in Nat, NEW a \in Nat, NEW c \in Nat, a <= c,
         NEW q \in Seq(Items), NEW b \in Seq(1..MaxIndex), NEW S, NEW T, Shots(S, T, a, c),
         Ordered(step, e, t, a, q, b), Covered(e, t, a, q, b, S)
  PROVE  Ordered(step, e, t, c, q, b) /\ Covered(e, t, c, q, b, T)
<1>1. CommandsIn(q) \cup Elements(b) \subseteq Nat
  BY CommandsNat, ElementOfSeq, IndexFacts DEF Elements
<1>2. \A y \in CommandsIn(q) \cup Elements(b) : t < y /\ y <= c
  BY <1>1 DEF Ordered
<1>3. Ordered(step, e, t, c, q, b)
  BY <1>2 DEF Ordered
<1>4. \A x \in (e + 1)..c : x \in (e + 1)..a \/ (a < c /\ x <= c)
  OBVIOUS
<1>5. \A x \in (e + 1)..c : x \in (e + 1)..a \/ \E k \in T : x <= k
  <2> SUFFICES ASSUME NEW x \in (e + 1)..c, x \notin (e + 1)..a
               PROVE  \E k \in T : x <= k
    OBVIOUS
  <2>1. PICK k \in T : k \in Nat /\ c <= k
    BY <1>4 DEF Shots
  <2>2. x <= k
    BY <2>1
  <2> QED
    BY <2>2
<1> QED
  BY <1>3, <1>5 DEF Covered, Shots

LEMMA ShotOrdered ==
  ASSUME NEW step, NEW e \in Nat, NEW t \in Nat, NEW a \in Nat, NEW q \in Seq(Items),
         NEW b \in Seq(1..MaxIndex), NEW S, NEW k \in 1..MaxIndex,
         Ordered(step, e, t, a, q, b), Covered(e, t, a, q, b, S)
  PROVE  /\ Ordered(step, e, t, a, Append(q, <<"snapshot", k>>), b)
         /\ Covered(e, t, a, Append(q, <<"snapshot", k>>), b, S)
<1>1. PICK x : x = <<"snapshot", k>>
  OBVIOUS
<1>2. PICK p : p = Append(q, x)
  OBVIOUS
<1>3. x \in Items /\ x[1] # "command"
  BY <1>1 DEF Items
<1>4. \A m, n \in 1..Len(q) :
        (m < n /\ q[m][1] = "command" /\ q[n][1] = "command") => q[m][2] < q[n][2]
  BY DEF Ordered
<1>5. /\ CommandsIn(p) = CommandsIn(q)
      /\ \A m, n \in 1..Len(p) :
           (m < n /\ p[m][1] = "command" /\ p[n][1] = "command") => p[m][2] < p[n][2]
  BY <1>2, <1>3, <1>4, QueuePushed
<1>6. Ordered(step, e, t, a, p, b)
  BY <1>5 DEF Ordered
<1>7. Covered(e, t, a, p, b, S)
  BY <1>5 DEF Covered
<1> QED
  BY <1>1, <1>2, <1>6, <1>7

\* The loop takes a command out.
LEMMA TakeOrdered ==
  ASSUME NEW step, NEW e \in Nat, NEW a \in Nat, NEW q \in Seq(Items), q # <<>>,
         Head(q)[1] = "command", NEW b \in Seq(1..MaxIndex), NEW S,
         Ordered(step, e, e, a, q, b), Covered(e, e, a, q, b, S)
  PROVE  /\ Ordered("checked", e, Head(q)[2], a, Tail(q), b)
         /\ Covered(e, Head(q)[2], a, Tail(q), b, S)
<1>1. PICK k : k = Head(q)[2]
  OBVIOUS
<1>2. PICK p : p = Tail(q)
  OBVIOUS
<1>3. \A m, n \in 1..Len(q) :
        (m < n /\ q[m][1] = "command" /\ q[n][1] = "command") => q[m][2] < q[n][2]
  BY DEF Ordered
<1>4. /\ CommandsIn(q) = CommandsIn(p) \cup {k}
      /\ \A y \in CommandsIn(p) : k < y
      /\ \A m, n \in 1..Len(p) :
           (m < n /\ p[m][1] = "command" /\ p[n][1] = "command") => p[m][2] < p[n][2]
  BY <1>1, <1>2, <1>3, QueueSplits
<1>5. /\ \A y \in CommandsIn(q) \cup Elements(b) : e < y /\ y <= a
      /\ \A y \in CommandsIn(q), z \in Elements(b) : y < z
      /\ \A m, n \in 1..Len(b) : m < n => b[m] < b[n]
  BY DEF Ordered
<1>6. e < k /\ k <= a
  BY <1>4, <1>5
<1>7. \A y \in CommandsIn(p) \cup Elements(b) : k < y /\ y <= a
  BY <1>4, <1>5
<1>8. Ordered("checked", e, k, a, p, b)
  BY <1>4, <1>5, <1>6, <1>7 DEF Ordered
<1>9. Covered(e, k, a, p, b, S)
  <2>1. \A x \in (e + 1)..a : x # e
    OBVIOUS
  <2> QED
    BY <1>4, <2>1 DEF Covered
<1> QED
  BY <1>1, <1>2, <1>8, <1>9

\* The loop is done with it.
LEMMA DoneOrdered ==
  ASSUME NEW step, NEW e \in Nat, NEW t \in Nat, NEW a \in Nat, NEW q \in Seq(Items),
         NEW b \in Seq(1..MaxIndex), NEW S, step # "idle",
         Ordered(step, e, t, a, q, b), Covered(e, t, a, q, b, S)
  PROVE  Ordered("idle", t, t, a, q, b) /\ Covered(t, t, a, q, b, S)
<1>1. e < t
  BY DEF Ordered
<1>2. \A x \in (t + 1)..a : x \in (e + 1)..a
  BY <1>1
<1> QED
  BY <1>2 DEF Ordered, Covered

LEMMA HandedState ==
  ASSUME TypeOK, HandedInOrder, NEW i \in Node, Up(i)
  PROVE  /\ executed[i] \in Nat /\ Taken(i) \in Nat /\ applied[i] \in Nat
         /\ queue[i] \in Seq(Items) /\ batch[i] \in Seq(1..MaxIndex)
         /\ Snapshots(i) \subseteq Nat
         /\ Ordered(loop[i].step, executed[i], Taken(i), applied[i], queue[i], batch[i])
         /\ Covered(executed[i], Taken(i), applied[i], queue[i], batch[i], Snapshots(i))
<1>1. /\ executed[i] \in Indexes /\ loop[i].index \in Indexes /\ applied[i] \in Indexes
      /\ queue[i] \in Seq(Items) /\ batch[i] \in Seq(1..MaxIndex)
  BY DEF TypeOK, CoreTypes, LoopTypes, Items
<1>2. executed[i] \in Nat /\ Taken(i) \in Nat /\ applied[i] \in Nat
  BY <1>1, IndexFacts DEF Taken
<1>3. Snapshots(i) \subseteq Nat
  BY IndexFacts DEF Snapshots
<1>4. InOrder(i) /\ NoneLeftOut(i)
  BY DEF HandedInOrder
<1> QED
  BY <1>1, <1>2, <1>3, <1>4, OrderedIs, CoveredIs

LEMMA HandedNext ==
  ASSUME TypeOK', NEW i \in Node,
         Ordered(loop'[i].step, executed'[i], Taken(i)', applied'[i], queue'[i],
                 batch'[i]),
         NEW S, S \subseteq Snapshots(i)',
         Covered(executed'[i], Taken(i)', applied'[i], queue'[i], batch'[i], S)
  PROVE  (InOrder(i) /\ NoneLeftOut(i))'
<1>1. InOrder(i)'
  BY DEF InOrder, Ordered, OnTheWay, Queued, CommandsIn
<1>2. /\ executed'[i] \in Nat /\ applied'[i] \in Nat /\ MaxIndex \in Nat
  BY IndexFacts DEF TypeOK, CoreTypes, LoopTypes
<1>3. \A x \in (executed'[i] + 1)..applied'[i] : \A k \in S :
        x <= k => k \in x..MaxIndex /\ SnapshotAt(i, k)'
  BY <1>2 DEF Snapshots
<1>4. NoneLeftOut(i)'
  BY <1>3 DEF NoneLeftOut, Covered, OnTheWay, Queued, CommandsIn
<1> QED
  BY <1>1, <1>4

\* One node moves.
LEMMA NodeHanded ==
  ASSUME TypeOK, HandedInOrder, NEW i \in Node, Up(i)' => (InOrder(i) /\ NoneLeftOut(i))',
         \A j \in Node \ {i} :
           UNCHANGED <<loop[j], executed[j], applied[j], queue[j], batch[j], fault[j]>>,
         \A j \in Node \ {i}, k \in 1..MaxIndex : <<j, k>> \in pushers => <<j, k>> \in pushers'
  PROVE  HandedInOrder'
<1> SUFFICES ASSUME NEW j \in Node, Up(j)', j # i
             PROVE  (InOrder(j) /\ NoneLeftOut(j))'
  BY DEF HandedInOrder
<1>1. UNCHANGED <<loop[j], executed[j], applied[j], queue[j], batch[j], fault[j]>>
  OBVIOUS
<1>2. InOrder(j) /\ NoneLeftOut(j)
  BY <1>1 DEF HandedInOrder, Up
<1>3. InOrder(j)'
  BY <1>1, <1>2 DEF InOrder, Taken, OnTheWay, Queued, Elements
<1>4. UNCHANGED <<Taken(j), OnTheWay(j)>>
  BY <1>1 DEF Taken, OnTheWay, Queued, Elements
<1>5. \A x \in (executed[j] + 1)..applied[j] : \A k \in x..MaxIndex :
        SnapshotAt(j, k) => SnapshotAt(j, k)'
  <2>1. executed[j] \in Nat
    BY IndexFacts DEF TypeOK, LoopTypes
  <2>2. \A x \in (executed[j] + 1)..applied[j] : \A k \in x..MaxIndex : k \in 1..MaxIndex
    BY <2>1
  <2> QED
    BY <1>1, <2>2 DEF SnapshotAt, Contains
<1>6. NoneLeftOut(j)'
  BY <1>1, <1>2, <1>4, <1>5 DEF NoneLeftOut
<1> QED
  BY <1>3, <1>6

LEMMA ApplierTickHanded ==
  ASSUME TypeOK, TypeOK', HandedInOrder, NEW i \in Node, ApplierTick(i)
  PROVE  HandedInOrder'
<1>1. /\ Up(i) /\ batch[i] = <<>> /\ applied[i] < commit[i]
      /\ applied' = [applied EXCEPT ![i] = commit[i]]
      /\ batch' = [batch EXCEPT ![i] = [k \in 1..(commit[i] - applied[i]) |-> applied[i] + k]]
      /\ UNCHANGED <<pushers, queue, loop, fault, executed>>
  BY DEF ApplierTick, history
<1>2. /\ applied'[i] = commit[i]
      /\ batch'[i] = [k \in 1..(commit[i] - applied[i]) |-> applied[i] + k]
      /\ \A j \in Node \ {i} : UNCHANGED <<applied[j], batch[j]>>
  BY <1>1 DEF TypeOK, CoreTypes
<1>3. /\ executed[i] \in Nat /\ Taken(i) \in Nat /\ applied[i] \in Nat
      /\ queue[i] \in Seq(Items)
      /\ Ordered(loop[i].step, executed[i], Taken(i), applied[i], queue[i], <<>>)
      /\ Covered(executed[i], Taken(i), applied[i], queue[i], <<>>, Snapshots(i))
  BY <1>1, HandedState
<1>4. commit[i] \in Nat
  BY NodeTypes
<1>5. UNCHANGED <<Taken(i), Snapshots(i), loop[i], executed[i], queue[i]>>
  BY <1>1 DEF Taken, Snapshots, SnapshotAt, Contains
<1>6. /\ Ordered(loop[i].step, executed[i], Taken(i), commit[i], queue[i], batch'[i])
      /\ Covered(executed[i], Taken(i), commit[i], queue[i], batch'[i], Snapshots(i))
  <2>1. Counts(batch'[i], applied[i], commit[i])
    BY <1>1, <1>2, <1>3, <1>4 DEF Counts
  <2> QED
    BY <1>1, <1>2, <1>3, <1>4, <2>1, TickOrdered, Zenon
<1>7. (InOrder(i) /\ NoneLeftOut(i))'
  BY <1>2, <1>5, <1>6, HandedNext
<1> QED
  BY <1>1, <1>2, <1>7, NodeHanded

LEMMA ApplierPushHanded ==
  ASSUME TypeOK, TypeOK', HandedInOrder, NEW i \in Node, ApplierPush(i)
  PROVE  HandedInOrder'
<1>1. /\ Up(i) /\ batch[i] # <<>>
      /\ batch' = [batch EXCEPT ![i] = Tail(batch[i])]
      /\ queue' = [queue EXCEPT ![i] = Append(queue[i], <<"command", Head(batch[i])>>)]
      /\ UNCHANGED <<pushers, applied, loop, fault, executed>>
  BY DEF ApplierPush, history
<1>2. /\ batch'[i] = Tail(batch[i])
      /\ queue'[i] = Append(queue[i], <<"command", Head(batch[i])>>)
      /\ \A j \in Node \ {i} : UNCHANGED <<queue[j], batch[j]>>
  BY <1>1 DEF TypeOK, CoreTypes, LoopTypes
<1>3. /\ executed[i] \in Nat /\ Taken(i) \in Nat /\ applied[i] \in Nat
      /\ queue[i] \in Seq(Items) /\ batch[i] \in Seq(1..MaxIndex)
      /\ Ordered(loop[i].step, executed[i], Taken(i), applied[i], queue[i], batch[i])
      /\ Covered(executed[i], Taken(i), applied[i], queue[i], batch[i], Snapshots(i))
  BY <1>1, HandedState
<1>4. UNCHANGED <<Taken(i), loop[i], executed[i], applied[i]>>
  BY <1>1 DEF Taken
<1>5. Snapshots(i) \subseteq Snapshots(i)'
  <2>1. <<"command", Head(batch[i])>> \in Items
    BY <1>1, <1>3, BatchSplits DEF Items
  <2>2. \A k : Contains(queue[i], <<"snapshot", k>>) => Contains(queue'[i], <<"snapshot", k>>)
    BY <1>2, <1>3, <2>1, QueuePushed
  <2> QED
    BY <1>1, <2>2 DEF Snapshots, SnapshotAt
<1>6. /\ Ordered(loop[i].step, executed[i], Taken(i), applied[i], queue'[i], batch'[i])
      /\ Covered(executed[i], Taken(i), applied[i], queue'[i], batch'[i], Snapshots(i))
  <2>1. /\ Ordered(loop[i].step, executed[i], Taken(i), applied[i],
                   Append(queue[i], <<"command", Head(batch[i])>>), Tail(batch[i]))
        /\ Covered(executed[i], Taken(i), applied[i],
                   Append(queue[i], <<"command", Head(batch[i])>>), Tail(batch[i]),
                   Snapshots(i))
    BY <1>1, <1>3, PushOrdered, Zenon
  <2> QED
    BY <1>2, <2>1
<1>7. (InOrder(i) /\ NoneLeftOut(i))'
  BY <1>4, <1>5, <1>6, HandedNext
<1> QED
  BY <1>1, <1>2, <1>7, NodeHanded

LEMMA InstallHanded ==
  ASSUME TypeOK, TypeOK', IndexesInv, HandedInOrder, NEW i \in Node, NEW j \in Node,
         InstallSnapshot(i, j)
  PROVE  HandedInOrder'
<1>1. /\ Up(i) /\ shot[j] > shot[i]
      /\ applied' = [applied EXCEPT ![i] = Larger(applied[i], shot[j])]
      /\ pushers' = pushers \cup {<<i, shot[j]>>}
      /\ UNCHANGED <<batch, queue, loop, fault, executed>>
  BY DEF InstallSnapshot, history
<1>2. /\ applied'[i] = Larger(applied[i], shot[j])
      /\ \A k \in Node \ {i} : UNCHANGED applied[k]
  BY <1>1 DEF TypeOK, CoreTypes
<1>3. /\ executed[i] \in Nat /\ Taken(i) \in Nat /\ applied[i] \in Nat
      /\ queue[i] \in Seq(Items) /\ batch[i] \in Seq(1..MaxIndex) /\ Snapshots(i) \subseteq Nat
      /\ Ordered(loop[i].step, executed[i], Taken(i), applied[i], queue[i], batch[i])
      /\ Covered(executed[i], Taken(i), applied[i], queue[i], batch[i], Snapshots(i))
  BY <1>1, HandedState
<1>4. /\ shot[i] \in Nat /\ shot[j] \in 1..MaxIndex
  <2>1. shot[i] \in 0..MaxIndex /\ shot[j] \in 0..MaxIndex
    BY DEF TypeOK, CoreTypes, Indexes
  <2> QED
    BY <1>1, <2>1, IndexFacts
<1>5. UNCHANGED <<Taken(i), loop[i], executed[i], queue[i], batch[i]>>
  BY <1>1 DEF Taken
<1>6. Snapshots(i) \cup {shot[j]} \subseteq Snapshots(i)'
  BY <1>1, <1>4 DEF Snapshots, SnapshotAt, Contains
<1>7. /\ applied'[i] \in Nat /\ applied[i] <= applied'[i]
      /\ applied[i] < applied'[i] => applied'[i] = shot[j]
  BY <1>2, <1>3, <1>4 DEF Larger
<1>8. PICK a : a = applied'[i]
  OBVIOUS
<1>9. applied[i] < a => \E k \in Snapshots(i)' : k \in Nat /\ a <= k
  BY <1>4, <1>6, <1>7, <1>8
<1>10. /\ Ordered(loop[i].step, executed[i], Taken(i), a, queue[i], batch[i])
       /\ Covered(executed[i], Taken(i), a, queue[i], batch[i], Snapshots(i)')
  <2>1. a \in Nat /\ applied[i] <= a
    BY <1>7, <1>8
  <2>2. Shots(Snapshots(i), Snapshots(i)', applied[i], a)
    BY <1>3, <1>6, <1>9 DEF Shots
  <2> QED
    BY <1>3, <2>1, <2>2, InstallOrdered, Zenon
<1>11. (InOrder(i) /\ NoneLeftOut(i))'
  BY <1>5, <1>8, <1>10, HandedNext
<1> QED
  BY <1>1, <1>2, <1>11, NodeHanded

LEMMA PushSnapshotHanded ==
  ASSUME TypeOK, TypeOK', HandedInOrder, NEW i \in Node, NEW p \in pushers, p[1] = i,
         PushSnapshot(i, p[2])
  PROVE  HandedInOrder'
<1>1. PICK k : k = p[2]
  OBVIOUS
<1>2. /\ Up(i)
      /\ pushers' = pushers \ {<<i, k>>}
      /\ queue' = [queue EXCEPT ![i] = Append(queue[i], <<"snapshot", k>>)]
      /\ UNCHANGED <<batch, applied, loop, fault, executed>>
  BY <1>1 DEF PushSnapshot, history
<1>3. /\ queue'[i] = Append(queue[i], <<"snapshot", k>>)
      /\ \A j \in Node \ {i} : UNCHANGED queue[j]
  BY <1>2 DEF TypeOK, LoopTypes
<1>4. k \in 1..MaxIndex
  BY <1>1 DEF TypeOK, CoreTypes
<1>5. /\ executed[i] \in Nat /\ Taken(i) \in Nat /\ applied[i] \in Nat
      /\ queue[i] \in Seq(Items) /\ batch[i] \in Seq(1..MaxIndex)
      /\ Ordered(loop[i].step, executed[i], Taken(i), applied[i], queue[i], batch[i])
      /\ Covered(executed[i], Taken(i), applied[i], queue[i], batch[i], Snapshots(i))
  BY <1>2, HandedState
<1>6. UNCHANGED <<Taken(i), loop[i], executed[i], applied[i], batch[i]>>
  BY <1>2 DEF Taken
<1>7. Snapshots(i) \subseteq Snapshots(i)'
  <2>1. <<"snapshot", k>> \in Items
    BY <1>4 DEF Items
  <2>2. \A m : Contains(queue[i], <<"snapshot", m>>) \/ m = k
                 => Contains(queue'[i], <<"snapshot", m>>)
    BY <1>3, <1>5, <2>1, QueuePushed
  <2>3. \A m : <<i, m>> \in pushers => m = k \/ <<i, m>> \in pushers'
    BY <1>2
  <2> QED
    BY <2>2, <2>3 DEF Snapshots, SnapshotAt
<1>8. /\ Ordered(loop[i].step, executed[i], Taken(i), applied[i], queue'[i], batch[i])
      /\ Covered(executed[i], Taken(i), applied[i], queue'[i], batch[i], Snapshots(i))
  <2>1. /\ Ordered(loop[i].step, executed[i], Taken(i), applied[i],
                   Append(queue[i], <<"snapshot", k>>), batch[i])
        /\ Covered(executed[i], Taken(i), applied[i],
                   Append(queue[i], <<"snapshot", k>>), batch[i], Snapshots(i))
    BY <1>4, <1>5, ShotOrdered, Zenon
  <2> QED
    BY <1>3, <2>1
<1>9. (InOrder(i) /\ NoneLeftOut(i))'
  BY <1>6, <1>7, <1>8, HandedNext
<1>10. \A j \in Node \ {i}, m \in 1..MaxIndex : <<j, m>> \in pushers => <<j, m>> \in pushers'
  BY <1>2
<1> QED
  BY <1>2, <1>3, <1>9, <1>10, NodeHanded

LEMMA LoopHanded ==
  ASSUME TypeOK, TypeOK', HandedInOrder, NEW i \in Node, LoopStep(i)
  PROVE  HandedInOrder'
<1>1. /\ Up(i)
      /\ executed[i] \in Nat /\ applied[i] \in Nat
      /\ queue[i] \in Seq(Items) /\ batch[i] \in Seq(1..MaxIndex)
      /\ Ordered(loop[i].step, executed[i], Taken(i), applied[i], queue[i], batch[i])
      /\ Covered(executed[i], Taken(i), applied[i], queue[i], batch[i], Snapshots(i))
  <2>1. Up(i)
    BY DEF LoopStep, CheckCommand, ExecutePutOp, TryPush2Wait, LoadSnapshot
  <2> QED
    BY <2>1, HandedState
<1>2. CASE CheckCommand(i)
  <2>1. PICK q : q = queue[i]
    OBVIOUS
  <2>2. /\ loop[i] = Idle /\ q # <<>> /\ Head(q)[1] = "command"
        /\ queue' = [queue EXCEPT ![i] = Tail(q)]
        /\ loop' = [loop EXCEPT ![i] =
             [step |-> "checked", index |-> Head(q)[2],
              duplicate |-> DuplicateRequest(i, committed[Head(q)[2]])]]
        /\ UNCHANGED <<applied, batch, pushers, fault, executed>>
    BY <1>2, <2>1 DEF CheckCommand, history
  <2>3. /\ queue'[i] = Tail(q) /\ loop'[i].step = "checked" /\ loop'[i].index = Head(q)[2]
        /\ \A j \in Node \ {i} : UNCHANGED <<queue[j], loop[j]>>
    BY <2>2 DEF TypeOK, LoopTypes
  <2>4. Taken(i) = executed[i] /\ Taken(i)' = Head(q)[2]
    BY <2>2, <2>3 DEF Taken, Idle
  <2>5. /\ Ordered(loop[i].step, executed[i], executed[i], applied[i], q, batch[i])
        /\ Covered(executed[i], executed[i], applied[i], q, batch[i], Snapshots(i))
    BY <1>1, <2>1, <2>4
  <2>6. q \in Seq(Items)
    BY <1>1, <2>1
  <2>7. /\ Ordered("checked", executed[i], Head(q)[2], applied[i], Tail(q), batch[i])
        /\ Covered(executed[i], Head(q)[2], applied[i], Tail(q), batch[i], Snapshots(i))
    BY <1>1, <2>2, <2>5, <2>6, TakeOrdered, Zenon
  <2>8. Snapshots(i) \subseteq Snapshots(i)'
    <3>1. \A k : Contains(q, <<"snapshot", k>>) => Contains(Tail(q), <<"snapshot", k>>)
      BY <2>2, <2>6, QueueSplits
    <3> QED
      BY <2>1, <2>2, <2>3, <3>1 DEF Snapshots, SnapshotAt
  <2>9. /\ Ordered(loop'[i].step, executed'[i], Taken(i)', applied'[i], queue'[i], batch'[i])
        /\ Covered(executed'[i], Taken(i)', applied'[i], queue'[i], batch'[i], Snapshots(i))
    BY <2>2, <2>3, <2>4, <2>7
  <2>10. (InOrder(i) /\ NoneLeftOut(i))'
    BY <2>8, <2>9, HandedNext
  <2> QED
    BY <2>2, <2>3, <2>10, NodeHanded
<1>3. CASE ExecutePutOp(i)
  <2>1. /\ loop[i].step = "checked" /\ loop' = [loop EXCEPT ![i].step = "executed"]
        /\ UNCHANGED <<queue, applied, batch, pushers, fault, executed>>
    BY <1>3 DEF ExecutePutOp, applyVars, history
  <2>2. /\ loop'[i].step = "executed" /\ loop'[i].index = loop[i].index
        /\ \A j \in Node \ {i} : UNCHANGED loop[j]
    BY <2>1 DEF TypeOK, LoopTypes
  <2>3. Taken(i)' = Taken(i)
    BY <2>1, <2>2 DEF Taken
  <2>4. Snapshots(i)' = Snapshots(i)
    BY <2>1 DEF Snapshots, SnapshotAt, Contains
  <2>5. Ordered("executed", executed[i], Taken(i), applied[i], queue[i], batch[i])
    BY <1>1, <2>1 DEF Ordered
  <2>6. /\ Ordered(loop'[i].step, executed'[i], Taken(i)', applied'[i], queue'[i], batch'[i])
        /\ Covered(executed'[i], Taken(i)', applied'[i], queue'[i], batch'[i], Snapshots(i))
    BY <1>1, <2>1, <2>2, <2>3, <2>5
  <2>7. (InOrder(i) /\ NoneLeftOut(i))'
    BY <2>4, <2>6, HandedNext
  <2> QED
    BY <2>1, <2>2, <2>7, NodeHanded
<1>4. CASE TryPush2Wait(i)
  <2>1. /\ loop[i].step = "executed" /\ loop' = [loop EXCEPT ![i] = Idle]
        /\ executed' = [executed EXCEPT ![i] = loop[i].index]
        /\ UNCHANGED <<queue, applied, batch, pushers, fault>>
    BY <1>4 DEF TryPush2Wait, applyVars
  <2>2. /\ loop'[i] = Idle /\ executed'[i] = loop[i].index
        /\ \A j \in Node \ {i} : UNCHANGED <<loop[j], executed[j]>>
    BY <2>1 DEF TypeOK, LoopTypes
  <2>3. Taken(i) = loop[i].index /\ Taken(i)' = loop[i].index /\ loop'[i].step = "idle"
    BY <2>1, <2>2 DEF Taken, Idle
  <2>4. Taken(i) \in Nat
    BY <1>1, HandedState
  <2>5. Snapshots(i)' = Snapshots(i)
    BY <2>1 DEF Snapshots, SnapshotAt, Contains
  <2>6. loop[i].step # "idle"
    BY <2>1
  <2>7. /\ Ordered("idle", Taken(i), Taken(i), applied[i], queue[i], batch[i])
        /\ Covered(Taken(i), Taken(i), applied[i], queue[i], batch[i], Snapshots(i))
    BY <1>1, <2>4, <2>6, DoneOrdered, Zenon
  <2>8. /\ Ordered(loop'[i].step, executed'[i], Taken(i)', applied'[i], queue'[i], batch'[i])
        /\ Covered(executed'[i], Taken(i)', applied'[i], queue'[i], batch'[i], Snapshots(i))
    BY <2>1, <2>2, <2>3, <2>7
  <2>9. (InOrder(i) /\ NoneLeftOut(i))'
    BY <2>5, <2>8, HandedNext
  <2> QED
    BY <2>1, <2>2, <2>9, NodeHanded
<1>5. CASE LoadSnapshot(i)
  <2>1. /\ queue' = [queue EXCEPT ![i] = Tail(queue[i])]
        /\ fault' = [fault EXCEPT ![i] = TRUE]
        /\ UNCHANGED <<loop, applied, batch, pushers, executed>>
    BY <1>5 DEF LoadSnapshot, history
  <2>2. ~Up(i)' /\ \A j \in Node \ {i} : UNCHANGED <<queue[j], fault[j]>>
    BY <2>1 DEF TypeOK, CoreTypes, LoopTypes, Up
  <2> QED
    BY <2>1, <2>2, NodeHanded
<1> QED
  BY <1>2, <1>3, <1>4, <1>5 DEF LoopStep

handVars == <<applied, batch, pushers, queue, loop, executed, fault>>

LEMMA HandedFrame == ASSUME HandedInOrder, UNCHANGED handVars PROVE HandedInOrder'
<1> SUFFICES ASSUME NEW i \in Node, Up(i)'
             PROVE  (InOrder(i) /\ NoneLeftOut(i))'
  BY DEF HandedInOrder
<1>1. UNCHANGED <<applied, batch, pushers, queue, loop, executed, fault>>
  BY DEF handVars
<1>2. UNCHANGED <<Taken(i), Queued(i), OnTheWay(i)>>
  BY <1>1 DEF Taken, OnTheWay, Queued, Elements
<1>3. InOrder(i) /\ NoneLeftOut(i)
  BY <1>1 DEF HandedInOrder, Up
<1>4. InOrder(i)'
  BY <1>1, <1>2, <1>3 DEF InOrder, Elements
<1>5. \A k : SnapshotAt(i, k)' = SnapshotAt(i, k)
  BY <1>1 DEF SnapshotAt, Contains
<1>6. NoneLeftOut(i)'
  BY <1>1, <1>2, <1>3, <1>5 DEF NoneLeftOut
<1> QED
  BY <1>4, <1>6

LEMMA NextHanded ==
  ASSUME TypeOK, TypeOK', IndexesInv, HandedInOrder, [Next]_vars
  PROVE  HandedInOrder'
<1>1. CASE Commit
  BY <1>1, HandedFrame DEF Commit, handVars, applyVars, history
<1>2. ASSUME NEW i \in Node, RaftStep(i)
      PROVE  HandedInOrder'
  <2>1. CASE Learn(i) \/ Elected(i) \/ Deposed(i)
    BY <2>1, HandedFrame DEF Learn, Elected, Deposed, handVars, applyVars, history
  <2> QED
    BY <1>2, <2>1, ApplierTickHanded, ApplierPushHanded, InstallHanded, PushSnapshotHanded
       DEF RaftStep
<1>3. ASSUME NEW i \in Node, LoopStep(i)
      PROVE  HandedInOrder'
  BY <1>3, LoopHanded
<1>4. ASSUME NEW h \in calls, HandlerStep(h)
      PROVE  UNCHANGED handVars
  <2>1. CASE Propose(h)
    BY <2>1 DEF Propose, handVars, applyVars, history
  <2>2. CASE Register(h)
    BY <2>2 DEF Register, handVars, applyVars, history
  <2>3. CASE GiveUp(h)
    <3>1. UNCHANGED <<applyVars, loop, fault, history>>
      BY <2>3, Zenon DEF GiveUp
    <3> QED
      BY <3>1 DEF handVars, applyVars, history
  <2>4. CASE WaitApplied(h)
    BY <2>4 DEF WaitApplied, handVars, applyVars, history
  <2>5. CASE WaitAppliedTimeout(h)
    BY <2>5 DEF WaitAppliedTimeout, handVars, applyVars, history
  <2>6. CASE Refuse(h)
    BY <2>6 DEF Refuse, handVars, applyVars
  <2>7. CASE Pop(h)
    BY <2>7 DEF Pop, handVars, applyVars
  <2>8. CASE AfterTimeout(h)
    <3>1. UNCHANGED <<applyVars, loop, fault, executed>>
      BY <2>8, Zenon DEF AfterTimeout
    <3> QED
      BY <3>1 DEF handVars, applyVars
  <2>9. CASE ExecuteGetOp(h)
    BY <2>9 DEF ExecuteGetOp, handVars, applyVars
  <2> QED
    BY <1>4, <2>1, <2>2, <2>3, <2>4, <2>5, <2>6, <2>7, <2>8, <2>9 DEF HandlerStep
<1>5. ASSUME NEW c \in Client, RpcFailure(c) \/ \E kind \in Kinds : Call(c, kind)
      PROVE  UNCHANGED handVars
  BY <1>5 DEF RpcFailure, Call, handVars, applyVars, history
<1>6. CASE UNCHANGED vars
  BY <1>6, HandedFrame DEF vars, handVars, applyVars, history
<1> QED
  BY <1>1, <1>2, <1>3, <1>4, <1>5, <1>6, HandedFrame, Zenon DEF Next

LEMMA InitHanded == Init => HandedInOrder
<1> SUFFICES ASSUME Init, NEW i \in Node
             PROVE  InOrder(i) /\ NoneLeftOut(i)
  BY DEF HandedInOrder
<1>1. /\ executed[i] = 0 /\ applied[i] = 0 /\ loop[i].step = "idle"
      /\ Len(queue[i]) = 0 /\ Len(batch[i]) = 0
  BY DEF Init, Idle
<1>2. Taken(i) = 0 /\ OnTheWay(i) = {} /\ Queued(i) = {} /\ Elements(batch[i]) = {}
  BY <1>1 DEF Taken, OnTheWay, Queued, Elements
<1>3. InOrder(i)
  BY <1>1, <1>2 DEF InOrder
<1> QED
  BY <1>1, <1>3 DEF NoneLeftOut

\* _M_getApplyMessages, _L_installSnapshot, _L_popMessageLoop: whatever the threads between
\* the log and the table do in between, commands reach the table in the order of the log,
\* each once, and a command left out is one that a snapshot on its way stands for.
THEOREM HandedUpInOrder == Spec => []HandedInOrder
<1>1. Init => HandedInOrder
  BY InitHanded
<1>2. /\ TypeOK /\ ServerInv /\ (TypeOK /\ ServerInv)' /\ HandedInOrder /\ [Next]_vars
        => HandedInOrder'
  BY NextHanded DEF ServerInv
<1> QED
  BY <1>1, <1>2, ServerKept, PTL DEF Spec

-----------------------------------------------------------------------------
(* The table as a replay of the log. *)

LEMMA Prefix ==
  ASSUME NEW S, NEW s \in Seq(S), NEW k \in 0..Len(s)
  PROVE  /\ SubSeq(s, 1, k) \in Seq(S) /\ Len(SubSeq(s, 1, k)) = k
         /\ \A n \in 1..k : SubSeq(s, 1, k)[n] = s[n]
<1>1. Len(s) \in Nat
  BY LenProperties
<1>2. k \in Nat /\ k <= Len(s) /\ \A n \in 1..k : n \in 1..Len(s)
  BY <1>1
<1>3. \A n \in 1..k : s[n] \in S
  BY <1>2, ElementOfSeq
<1>4. /\ SubSeq(s, 1, k) \in Seq(S)
      /\ Len(SubSeq(s, 1, k)) = IF 1 <= k THEN k - 1 + 1 ELSE 0
      /\ \A n \in 1..(k - 1 + 1) : SubSeq(s, 1, k)[n] = s[1 + n - 1]
  BY <1>2, <1>3, SubSeqProperties
<1>5. k - 1 + 1 = k /\ (IF 1 <= k THEN k - 1 + 1 ELSE 0) = k /\ \A n \in 1..k : 1 + n - 1 = n
  BY <1>2
<1> QED
  BY <1>4, <1>5

LEMMA PrefixGrows ==
  ASSUME NEW S, NEW s \in Seq(S), NEW k \in Nat, k + 1 <= Len(s)
  PROVE  /\ SubSeq(s, 1, k) \in Seq(S) /\ s[k + 1] \in S
         /\ SubSeq(s, 1, k + 1) = Append(SubSeq(s, 1, k), s[k + 1])
<1>1. Len(s) \in Nat
  BY LenProperties
<1>2. k \in 0..Len(s) /\ k + 1 \in 0..Len(s) /\ k + 1 \in 1..Len(s)
  BY <1>1
<1> DEFINE p == SubSeq(s, 1, k)
           q == SubSeq(s, 1, k + 1)
<1>3. /\ p \in Seq(S) /\ Len(p) = k /\ \A n \in 1..k : p[n] = s[n]
      /\ q \in Seq(S) /\ Len(q) = k + 1 /\ \A n \in 1..(k + 1) : q[n] = s[n]
      /\ s[k + 1] \in S
  BY <1>2, Prefix, ElementOfSeq
<1> HIDE DEF p, q
<1>4. /\ Append(p, s[k + 1]) \in Seq(S) /\ Len(Append(p, s[k + 1])) = k + 1
      /\ \A n \in 1..k : Append(p, s[k + 1])[n] = p[n]
      /\ Append(p, s[k + 1])[k + 1] = s[k + 1]
  BY <1>3, AppendProperties
<1>5. \A n \in 1..(k + 1) : q[n] = Append(p, s[k + 1])[n]
  <2>1. \A n \in 1..(k + 1) : n \in 1..k \/ n = k + 1
    OBVIOUS
  <2> QED
    BY <1>3, <1>4, <2>1
<1>6. q = Append(p, s[k + 1])
  BY <1>3, <1>4, <1>5, SeqEqual
<1> QED
  BY <1>3, <1>6 DEF p, q

\* What is behind it does not matter.
LEMMA SamePrefix ==
  ASSUME NEW S, NEW s \in Seq(S), NEW x \in S, NEW k \in 0..Len(s)
  PROVE  SubSeq(Append(s, x), 1, k) = SubSeq(s, 1, k)
<1>1. /\ Append(s, x) \in Seq(S) /\ Len(Append(s, x)) = Len(s) + 1 /\ Len(s) \in Nat
      /\ \A n \in 1..Len(s) : Append(s, x)[n] = s[n]
  BY AppendProperties, LenProperties
<1>2. k \in 0..Len(Append(s, x)) /\ \A n \in 1..k : n \in 1..Len(s)
  BY <1>1
<1>3. /\ SubSeq(s, 1, k) \in Seq(S) /\ Len(SubSeq(s, 1, k)) = k
      /\ \A n \in 1..k : SubSeq(s, 1, k)[n] = s[n]
  BY Prefix
<1>4. /\ SubSeq(Append(s, x), 1, k) \in Seq(S) /\ Len(SubSeq(Append(s, x), 1, k)) = k
      /\ \A n \in 1..k : SubSeq(Append(s, x), 1, k)[n] = Append(s, x)[n]
  BY <1>1, <1>2, Prefix
<1>5. \A n \in 1..k : SubSeq(Append(s, x), 1, k)[n] = SubSeq(s, 1, k)[n]
  BY <1>1, <1>2, <1>3, <1>4
<1> QED
  BY <1>3, <1>4, <1>5, SeqEqual

LEMMA OnlyCommitLogs == [Next]_vars => Commit \/ UNCHANGED committed
<1>1. ASSUME NEW i \in Node, RaftStep(i) \/ LoopStep(i)
      PROVE  UNCHANGED committed
  BY <1>1 DEF RaftStep, LoopStep, Learn, Elected, Deposed, ApplierTick, ApplierPush,
         InstallSnapshot, PushSnapshot, CheckCommand, ExecutePutOp, TryPush2Wait,
         LoadSnapshot, raftVars
<1>2. ASSUME NEW h \in calls, HandlerStep(h)
      PROVE  UNCHANGED committed
  <2>1. CASE Propose(h)
    BY <2>1 DEF Propose
  <2>2. CASE ~Propose(h)
    <3>1. UNCHANGED <<raftVars, applyVars, loop>>
      BY <1>2, <2>2, Zenon
         DEF HandlerStep, Refuse, Register, Pop, GiveUp, AfterTimeout, WaitApplied,
             ExecuteGetOp, WaitAppliedTimeout
    <3> QED
      BY <3>1 DEF raftVars
  <2> QED
    BY <2>1, <2>2
<1>3. ASSUME NEW c \in Client, RpcFailure(c) \/ \E kind \in Kinds : Call(c, kind)
      PROVE  UNCHANGED committed
  BY <1>3 DEF RpcFailure, Call, raftVars
<1>4. UNCHANGED vars => UNCHANGED committed
  BY DEF vars, raftVars
<1> QED
  BY <1>1, <1>2, <1>3, <1>4, Zenon DEF Next

\* A client logs its puts for the first time in the order of its requests.
LEMMA NextInRequestOrder ==
  ASSUME TypeOK, IndexesInv, RequestsInv, InRequestOrder, [Next]_vars
  PROVE  InRequestOrder'
<1>1. CASE UNCHANGED committed
  BY <1>1 DEF InRequestOrder
<1>2. CASE Commit
  <2>1. PICK p \in proposals : committed' = Append(committed, p[2])
    BY <1>2 DEF Commit
  <2>2. PICK op \in Ops : op = p[2]
    BY <2>1, CommitElements
  <2>3. PICK l \in Nat : l = Len(committed)
    BY LenProperties DEF TypeOK, CoreTypes
  <2>4. committed \in Seq(Ops) /\ \A k \in 1..l : committed[k] \in Ops
    BY <2>3, ElementOfSeq DEF TypeOK, CoreTypes
  <2>5. /\ Len(committed') = l + 1 /\ committed'[l + 1] = op
        /\ \A k \in 1..l : committed'[k] = committed[k]
    BY <2>1, <2>2, <2>3, <2>4, AppendProperties
  <2>6. Known(op) /\ Pending(op)
    BY <2>2 DEF RequestsInv
  <2>7. ASSUME NEW m \in 1..l, committed[m][1] = op[1], op[2] <= committed[m][2]
        PROVE  \E k \in 1..l : committed[k] = op
    <3>1. CASE op \in Elements(committed)
      BY <2>3, <3>1 DEF Elements
    <3>2. CASE AwaitedPut(op)
      <4>1. PICK x \in Ops : x = committed[m]
        BY <2>4
      <4>2. Known(x)
        BY <2>3, <4>1, CommittedKnown DEF Elements
      <4>3. op[1] \in Client /\ op[2] \in Nat /\ x[2] \in Nat
            /\ op = <<op[1], op[2]>> /\ x = <<x[1], x[2]>>
        BY OpTypes
      <4>4. requestId[op[1]] \in Nat
        BY <4>3, KvAssumption DEF TypeOK, CallTypes
      <4>5. op[2] = requestId[op[1]]
        BY <3>2, <4>3 DEF AwaitedPut, RequestsInv, ClerkInv
      <4>6. x[2] <= requestId[op[1]]
        BY <2>7, <4>1, <4>2 DEF Known
      <4>7. x[2] = op[2]
        BY <2>7, <4>1, <4>3, <4>4, <4>5, <4>6
      <4>8. x = op
        BY <2>7, <4>1, <4>3, <4>7
      <4> QED
        BY <4>1, <4>8
    <3> QED
      BY <2>6, <3>1, <3>2 DEF Pending
  <2>8. ASSUME NEW m \in 1..Len(committed'), NEW n \in 1..Len(committed'), m < n,
               committed'[m][1] = committed'[n][1], committed'[n][2] <= committed'[m][2]
        PROVE  \E k \in 1..(n - 1) : committed'[k] = committed'[n]
    <3>1. m \in 1..l /\ n \in 1..(l + 1) /\ (n \in 1..l \/ n = l + 1)
      BY <2>3, <2>5, <2>8
    <3>2. CASE n \in 1..l
      <4>1. committed[m][1] = committed[n][1] /\ committed[n][2] <= committed[m][2]
        BY <2>5, <2>8, <3>1, <3>2
      <4>2. PICK k \in 1..(n - 1) : committed[k] = committed[n]
        BY <2>3, <2>8, <3>1, <3>2, <4>1 DEF InRequestOrder
      <4>3. k \in 1..l
        BY <3>2
      <4> QED
        BY <2>5, <3>2, <4>2, <4>3
    <3>3. CASE n = l + 1
      <4>1. committed[m][1] = op[1] /\ op[2] <= committed[m][2]
        BY <2>5, <2>8, <3>1, <3>3
      <4>2. PICK k \in 1..l : committed[k] = op
        BY <2>7, <3>1, <4>1
      <4>3. k \in 1..(n - 1)
        BY <3>3
      <4> QED
        BY <2>5, <3>3, <4>2, <4>3
    <3> QED
      BY <3>1, <3>2, <3>3
  <2> QED
    BY <2>8 DEF InRequestOrder
<1> QED
  BY <1>1, <1>2, OnlyCommitLogs

\* A snapshot on its way to a node ends the process there, or stays on its way.
LEMMA SnapshotsStay ==
  ASSUME TypeOK, [Next]_vars, NEW i \in Node, Up(i)', NEW k \in 1..MaxIndex, SnapshotAt(i, k)
  PROVE  SnapshotAt(i, k)'
<1>1. queue[i] \in Seq(Items) /\ queue \in [Node -> Seq(Items)] /\ fault \in [Node -> BOOLEAN]
      /\ batch[i] \in Seq(1..MaxIndex)
  BY DEF TypeOK, CoreTypes, LoopTypes, Items
<1>2. CASE UNCHANGED <<queue, pushers>>
  BY <1>2 DEF SnapshotAt, Contains
<1>3. ASSUME NEW j \in Node, ApplierPush(j)
      PROVE  SnapshotAt(i, k)'
  <2>1. /\ queue' = [queue EXCEPT ![j] = Append(queue[j], <<"command", Head(batch[j])>>)]
        /\ batch[j] # <<>> /\ UNCHANGED pushers
    BY <1>3 DEF ApplierPush
  <2>2. CASE j = i
    <3>1. queue'[i] = Append(queue[i], <<"command", Head(batch[i])>>)
      BY <1>1, <2>1, <2>2
    <3>2. <<"command", Head(batch[i])>> \in Items
      BY <1>1, <2>1, <2>2, BatchSplits DEF Items
    <3>3. Contains(queue[i], <<"snapshot", k>>) => Contains(queue'[i], <<"snapshot", k>>)
      BY <1>1, <3>1, <3>2, QueuePushed
    <3> QED
      BY <2>1, <3>3 DEF SnapshotAt
  <2>3. CASE j # i
    <3>1. queue'[i] = queue[i]
      BY <1>1, <2>1, <2>3
    <3> QED
      BY <2>1, <3>1 DEF SnapshotAt, Contains
  <2> QED
    BY <2>2, <2>3
<1>4. ASSUME NEW j \in Node, NEW l \in Node, InstallSnapshot(j, l)
      PROVE  SnapshotAt(i, k)'
  <2>1. pushers \subseteq pushers' /\ UNCHANGED queue
    BY <1>4 DEF InstallSnapshot
  <2> QED
    BY <2>1 DEF SnapshotAt, Contains
<1>5. ASSUME NEW p \in pushers, PushSnapshot(p[1], p[2])
      PROVE  SnapshotAt(i, k)'
  <2>1. PICK j \in Node, m \in 1..MaxIndex : j = p[1] /\ m = p[2]
    BY DEF TypeOK, CoreTypes
  <2>2. /\ queue' = [queue EXCEPT ![j] = Append(queue[j], <<"snapshot", m>>)]
        /\ pushers' = pushers \ {<<j, m>>}
    BY <1>5, <2>1 DEF PushSnapshot
  <2>3. CASE j = i
    <3>1. queue'[i] = Append(queue[i], <<"snapshot", m>>)
      BY <1>1, <2>2, <2>3
    <3>2. <<"snapshot", m>> \in Items
      BY <2>1 DEF Items
    <3>3. Contains(queue[i], <<"snapshot", k>>) \/ k = m
            => Contains(queue'[i], <<"snapshot", k>>)
      BY <1>1, <3>1, <3>2, QueuePushed
    <3>4. <<i, k>> \in pushers => k = m \/ <<i, k>> \in pushers'
      BY <2>2
    <3> QED
      BY <3>3, <3>4 DEF SnapshotAt
  <2>4. CASE j # i
    <3>1. queue'[i] = queue[i]
      BY <1>1, <2>2, <2>4
    <3>2. <<i, k>> \in pushers => <<i, k>> \in pushers'
      BY <2>2, <2>4
    <3> QED
      BY <3>1, <3>2 DEF SnapshotAt, Contains
  <2> QED
    BY <2>3, <2>4
<1>6. ASSUME NEW j \in Node, CheckCommand(j)
      PROVE  SnapshotAt(i, k)'
  <2>1. /\ queue' = [queue EXCEPT ![j] = Tail(queue[j])]
        /\ queue[j] # <<>> /\ Head(queue[j])[1] = "command" /\ UNCHANGED pushers
    BY <1>6 DEF CheckCommand
  <2>2. CASE j = i
    <3>1. queue'[i] = Tail(queue[i])
      BY <1>1, <2>1, <2>2
    <3>2. Contains(queue[i], <<"snapshot", k>>) => Contains(queue'[i], <<"snapshot", k>>)
      BY <1>1, <2>1, <2>2, <3>1, QueueSplits
    <3> QED
      BY <2>1, <3>2 DEF SnapshotAt
  <2>3. CASE j # i
    <3>1. queue'[i] = queue[i]
      BY <1>1, <2>1, <2>3
    <3> QED
      BY <2>1, <3>1 DEF SnapshotAt, Contains
  <2> QED
    BY <2>2, <2>3
<1>7. ASSUME NEW j \in Node, LoadSnapshot(j)
      PROVE  SnapshotAt(i, k)'
  <2>1. /\ queue' = [queue EXCEPT ![j] = Tail(queue[j])]
        /\ fault' = [fault EXCEPT ![j] = TRUE] /\ UNCHANGED pushers
    BY <1>7 DEF LoadSnapshot
  <2>2. j # i
    BY <1>1, <2>1 DEF Up
  <2>3. queue'[i] = queue[i]
    BY <1>1, <2>1, <2>2
  <2> QED
    BY <2>1, <2>3 DEF SnapshotAt, Contains
<1>8. CASE Commit
  BY <1>2, <1>8 DEF Commit, applyVars
<1>9. ASSUME NEW j \in Node, RaftStep(j) \/ LoopStep(j)
      PROVE  SnapshotAt(i, k)'
  <2>1. CASE Learn(j) \/ Elected(j) \/ Deposed(j) \/ ApplierTick(j)
    BY <1>2, <2>1 DEF Learn, Elected, Deposed, ApplierTick, applyVars
  <2>2. CASE ExecutePutOp(j) \/ TryPush2Wait(j)
    BY <1>2, <2>2 DEF ExecutePutOp, TryPush2Wait, applyVars
  <2> QED
    BY <1>3, <1>4, <1>5, <1>6, <1>7, <1>9, <2>1, <2>2 DEF RaftStep, LoopStep
<1>10. ASSUME NEW h \in calls, HandlerStep(h)
       PROVE  SnapshotAt(i, k)'
  <2>1. UNCHANGED applyVars
    BY <1>10, Zenon
       DEF HandlerStep, Propose, Refuse, Register, Pop, GiveUp, AfterTimeout, WaitApplied,
           ExecuteGetOp, WaitAppliedTimeout
  <2> QED
    BY <1>2, <2>1 DEF applyVars
<1>11. ASSUME NEW c \in Client, RpcFailure(c) \/ \E kind \in Kinds : Call(c, kind)
       PROVE  SnapshotAt(i, k)'
  BY <1>2, <1>11 DEF RpcFailure, Call, applyVars
<1>12. CASE UNCHANGED vars
  BY <1>2, <1>12 DEF vars, applyVars
<1> QED
  BY <1>8, <1>9, <1>10, <1>11, <1>12, Zenon DEF Next

\* Nobody comes up again, and nobody catches up.
LEMMA UpBefore ==
  ASSUME TypeOK, [Next]_vars, NEW i \in Node, Up(i)', ~Behind(i)'
  PROVE  Up(i) /\ ~Behind(i)
<1>1. ~Behind(i)
  BY SnapshotsStay DEF Behind
<1>2. UNCHANGED fault \/ \E j \in Node : fault' = [fault EXCEPT ![j] = TRUE]
  <2>1. ASSUME NEW j \in Node, RaftStep(j) \/ LoopStep(j)
        PROVE  UNCHANGED fault \/ fault' = [fault EXCEPT ![j] = TRUE]
    BY <2>1 DEF RaftStep, LoopStep, Learn, Elected, Deposed, ApplierTick, ApplierPush,
         InstallSnapshot, PushSnapshot, CheckCommand, ExecutePutOp, TryPush2Wait,
         LoadSnapshot
  <2>2. ASSUME NEW h \in calls, HandlerStep(h)
        PROVE  UNCHANGED fault
    <3>1. UNCHANGED <<applyVars, loop, fault>>
      BY <2>2, Zenon
         DEF HandlerStep, Propose, Refuse, Register, Pop, GiveUp, AfterTimeout, WaitApplied,
             ExecuteGetOp, WaitAppliedTimeout
    <3> QED
      BY <3>1
  <2>3. ASSUME NEW c \in Client, RpcFailure(c) \/ \E kind \in Kinds : Call(c, kind)
        PROVE  UNCHANGED fault
    BY <2>3 DEF RpcFailure, Call
  <2>4. Commit \/ UNCHANGED vars => UNCHANGED fault
    BY DEF Commit, vars
  <2> QED
    BY <2>1, <2>2, <2>3, <2>4, Zenon DEF Next
<1>3. Up(i)
  BY <1>2 DEF Up, TypeOK, CoreTypes
<1> QED
  BY <1>1, <1>3

\* The table is never ahead of the log.
LEMMA TableBehindLog ==
  ASSUME TypeOK, IndexesInv, HandedInOrder, NEW i \in Node, Up(i)
  PROVE  /\ InTable(i) \in 0..Len(committed) /\ Len(committed) \in Nat
         /\ executed[i] \in Nat /\ loop[i].index \in Nat
<1>1. /\ executed[i] \in Nat /\ loop[i].index \in Nat
      /\ applied[i] \in Nat /\ commit[i] \in Nat /\ Len(committed) \in Nat
  BY NodeTypes, IndexFacts, LenProperties DEF TypeOK, CoreTypes, LoopTypes
<1>2. applied[i] <= commit[i] /\ commit[i] <= Len(committed)
  BY DEF IndexesInv, HandsUpCommitted
<1>3. InOrder(i)
  BY DEF HandedInOrder
<1>4. InTable(i) <= applied[i] /\ InTable(i) \in Nat
  <2>1. Taken(i) <= applied[i] /\ (loop[i].step # "idle" => executed[i] < Taken(i))
    BY <1>3 DEF InOrder
  <2>2. CASE loop[i].step = "idle"
    BY <1>1, <2>1, <2>2 DEF Taken, InTable
  <2>3. CASE loop[i].step # "idle"
    BY <1>1, <2>1, <2>3 DEF Taken, InTable
  <2> QED
    BY <2>2, <2>3
<1> QED
  BY <1>1, <1>2, <1>4

tableVars(i) == <<writes[i], lastRequestId[i], loop[i], executed[i]>>

LEMMA TableFrame ==
  ASSUME NEW i \in Node, UpToDate(i), UNCHANGED <<tableVars(i), committed>>
  PROVE  UpToDate(i)'
<1>1. UNCHANGED <<writes[i], lastRequestId[i], loop[i], executed[i], committed>>
  BY DEF tableVars
<1>2. InTable(i)' = InTable(i)
  BY <1>1 DEF InTable
<1> QED
  BY <1>1, <1>2 DEF UpToDate, Latest, DuplicateRequest

LEMMA CommitTable ==
  ASSUME TypeOK, IndexesInv, HandedInOrder, NEW i \in Node, Up(i), UpToDate(i), Commit
  PROVE  UpToDate(i)'
<1>1. PICK p \in proposals : committed' = Append(committed, p[2])
  BY DEF Commit
<1>2. PICK op \in Ops : op = p[2]
  BY <1>1, CommitElements
<1>3. UNCHANGED <<writes, lastRequestId, loop, executed>>
  BY DEF Commit, serverVars, history
<1>4. PICK k \in 0..Len(committed) : k = InTable(i)
  BY TableBehindLog
<1>5. /\ committed \in Seq(Ops) /\ Len(committed) \in Nat
      /\ \A n \in 1..Len(committed) : committed'[n] = committed[n]
  BY <1>1, <1>2, AppendProperties, LenProperties DEF TypeOK, CoreTypes
<1>6. InTable(i)' = k
  BY <1>3, <1>4 DEF InTable
<1>7. SubSeq(committed', 1, k) = SubSeq(committed, 1, k)
  BY <1>1, <1>2, <1>5, SamePrefix
<1>8. writes'[i] = FirstOccurrences(SubSeq(committed', 1, InTable(i)'))
  BY <1>3, <1>4, <1>6, <1>7 DEF UpToDate
<1>9. ASSUME NEW c \in Client
      PROVE  Latest(i, c, InTable(i))'
  <2>1. Latest(i, c, k)
    BY <1>4 DEF UpToDate
  <2>2. \A n \in 1..k : committed'[n] = committed[n]
    BY <1>5
  <2> QED
    BY <1>3, <1>6, <2>1, <2>2 DEF Latest
<1>10. loop[i].step = "checked" => loop[i].index \in 1..Len(committed)
  BY DEF IndexesInv, HandsUpCommitted
<1>11. loop'[i].step = "checked" =>
         (loop'[i].duplicate <=> DuplicateRequest(i, committed[loop[i].index])')
  <2> SUFFICES ASSUME loop[i].step = "checked"
               PROVE  loop'[i].duplicate <=> DuplicateRequest(i, committed[loop[i].index])'
    BY <1>3
  <2>1. committed'[loop'[i].index] = committed[loop[i].index]
    BY <1>3, <1>5, <1>10
  <2>2. loop[i].duplicate <=> DuplicateRequest(i, committed[loop[i].index])
    BY DEF UpToDate
  <2> QED
    BY <1>3, <2>1, <2>2 DEF DuplicateRequest
<1> QED
  BY <1>8, <1>9, <1>11 DEF UpToDate

LEMMA CheckTable ==
  ASSUME TypeOK, NEW i \in Node, UpToDate(i), CheckCommand(i)
  PROVE  UpToDate(i)'
<1>1. PICK k : k = Head(queue[i])[2]
  OBVIOUS
<1>2. /\ loop[i] = Idle
      /\ loop' = [loop EXCEPT ![i] =
           [step |-> "checked", index |-> k,
            duplicate |-> DuplicateRequest(i, committed[k])]]
      /\ UNCHANGED <<committed, writes, lastRequestId, executed>>
  BY <1>1 DEF CheckCommand, raftVars, serverVars, history
<1>3. loop'[i] = [step |-> "checked", index |-> k,
                  duplicate |-> DuplicateRequest(i, committed[k])]
  BY <1>2 DEF TypeOK, LoopTypes
<1>4. /\ loop'[i].step = "checked" /\ loop'[i].index = k
      /\ loop'[i].duplicate <=> DuplicateRequest(i, committed[k])
  BY <1>3
<1>5. InTable(i)' = InTable(i)
  BY <1>2, <1>4 DEF InTable, Idle
<1>6. DuplicateRequest(i, committed[loop[i].index])' <=> DuplicateRequest(i, committed[k])
  BY <1>2, <1>4 DEF DuplicateRequest
<1>7. \A c \in Client : Latest(i, c, InTable(i))'
  BY <1>2, <1>5 DEF UpToDate, Latest
<1>8. writes'[i] = FirstOccurrences(SubSeq(committed', 1, InTable(i)'))
  BY <1>2, <1>5 DEF UpToDate
<1> QED
  BY <1>4, <1>6, <1>7, <1>8 DEF UpToDate

LEMMA PushTable ==
  ASSUME TypeOK, NEW i \in Node, UpToDate(i), TryPush2Wait(i)
  PROVE  UpToDate(i)'
<1>1. /\ loop[i].step = "executed"
      /\ loop' = [loop EXCEPT ![i] = Idle]
      /\ executed' = [executed EXCEPT ![i] = loop[i].index]
      /\ UNCHANGED <<committed, writes, lastRequestId>>
  BY DEF TryPush2Wait, serverVars
<1>2. loop'[i].step = "idle" /\ executed'[i] = loop[i].index
  BY <1>1 DEF TypeOK, LoopTypes, Idle
<1>3. InTable(i)' = InTable(i)
  BY <1>1, <1>2 DEF InTable
<1> QED
  BY <1>1, <1>2, <1>3 DEF UpToDate, Latest

\* Without a snapshot on its way, the loop takes out the very next command.
LEMMA TakenIsNext ==
  ASSUME TypeOK, HandedInOrder, NEW i \in Node, Up(i), ~Behind(i), loop[i].step # "idle"
  PROVE  loop[i].index = executed[i] + 1
<1>1. /\ executed[i] \in Nat /\ Taken(i) \in Nat /\ applied[i] \in Nat /\ MaxIndex \in Nat
      /\ queue[i] \in Seq(Items) /\ batch[i] \in Seq(1..MaxIndex)
  BY HandedState, IndexFacts
<1>2. InOrder(i) /\ NoneLeftOut(i)
  BY DEF HandedInOrder
<1>3. executed[i] < Taken(i) /\ Taken(i) <= applied[i]
  BY <1>2 DEF InOrder
<1>4. \A k \in (executed[i] + 1)..MaxIndex : ~SnapshotAt(i, k)
  <2>1. \A k \in (executed[i] + 1)..MaxIndex : k \in 1..MaxIndex
    BY <1>1
  <2> QED
    BY <2>1 DEF Behind
<1>5. executed[i] + 1 \in (executed[i] + 1)..applied[i]
  BY <1>1, <1>3
<1>6. executed[i] + 1 = Taken(i) \/ executed[i] + 1 \in OnTheWay(i)
  BY <1>2, <1>4, <1>5 DEF NoneLeftOut
<1>7. executed[i] + 1 \in OnTheWay(i) => Taken(i) < executed[i] + 1
  BY <1>2 DEF InOrder
<1>8. executed[i] + 1 = Taken(i)
  BY <1>1, <1>3, <1>6, <1>7
<1> QED
  BY <1>8 DEF Taken

\* A request is not above the latest one exactly if it is in the table already.
LEMMA DuplicateIsRepeated ==
  ASSUME TypeOK, InRequestOrder, NEW i \in Node, NEW k \in Nat, k + 1 <= Len(committed),
         \A c \in Client : Latest(i, c, k)
  PROVE  DuplicateRequest(i, committed[k + 1])
           <=> committed[k + 1] \in Elements(SubSeq(committed, 1, k))
<1>1. committed \in Seq(Ops) /\ Len(committed) \in Nat
  BY LenProperties DEF TypeOK, CoreTypes
<1>2. k \in 0..Len(committed) /\ k + 1 \in 1..Len(committed)
      /\ \A n \in 1..k : n \in 1..Len(committed) /\ n < k + 1
  BY <1>1
<1>3. PICK op \in Ops : op = committed[k + 1]
  BY <1>1, <1>2, ElementOfSeq
<1>4. \A x : x \in Elements(SubSeq(committed, 1, k)) <=> \E n \in 1..k : committed[n] = x
  <2>1. Len(SubSeq(committed, 1, k)) = k
        /\ \A n \in 1..k : SubSeq(committed, 1, k)[n] = committed[n]
    BY <1>1, <1>2, Prefix
  <2> QED
    BY <2>1 DEF Elements
<1>5. PICK c \in Client, r \in Nat : c = op[1] /\ r = op[2] /\ op = <<c, r>> /\ r > 0
  BY OpTypes
<1>6. PICK l \in Nat : l = lastRequestId[i][c]
  BY KvAssumption DEF TypeOK, LoopTypes
<1>7. /\ l # 0 => \E n \in 1..k : committed[n] = <<c, l>>
      /\ \A n \in 1..k : committed[n][1] = c => committed[n][2] <= l
  BY <1>5, <1>6 DEF Latest
<1>8. DuplicateRequest(i, op) <=> r <= l
  BY <1>5, <1>6 DEF DuplicateRequest
<1>9. ASSUME r <= l
      PROVE  \E n \in 1..k : committed[n] = op
  <2>1. PICK n \in 1..k : committed[n] = <<c, l>>
    BY <1>5, <1>7, <1>9
  <2>2. committed[n][1] = c /\ committed[n][2] = l
    BY <2>1
  <2>3. n \in 1..Len(committed) /\ n < k + 1
        /\ committed[n][1] = committed[k + 1][1] /\ committed[k + 1][2] <= committed[n][2]
    BY <1>2, <1>3, <1>5, <1>9, <2>2
  <2>4. \E m \in 1..((k + 1) - 1) : committed[m] = committed[k + 1]
    BY <1>2, <2>3 DEF InRequestOrder
  <2>5. (k + 1) - 1 = k
    OBVIOUS
  <2> QED
    BY <1>3, <2>4, <2>5
<1>10. ASSUME NEW n \in 1..k, committed[n] = op
       PROVE  r <= l
  BY <1>5, <1>7, <1>10
<1> QED
  BY <1>3, <1>4, <1>8, <1>9, <1>10

LEMMA ExecuteTable ==
  ASSUME TypeOK, IndexesInv, HandedInOrder, InRequestOrder, NEW i \in Node, Up(i), ~Behind(i),
         UpToDate(i), ExecutePutOp(i)
  PROVE  UpToDate(i)'
<1>1. loop[i].step = "checked" /\ loop' = [loop EXCEPT ![i].step = "executed"]
      /\ UNCHANGED <<committed, executed>>
  BY DEF ExecutePutOp, raftVars, history
<1>2. PICK k \in Nat : k = executed[i]
  BY TableBehindLog
<1>3. loop[i].index = k + 1
  BY <1>1, <1>2, TakenIsNext
<1>4. k + 1 <= Len(committed)
  BY <1>1, <1>3 DEF IndexesInv, HandsUpCommitted
<1>5. committed \in Seq(Ops)
  BY DEF TypeOK, CoreTypes
<1>6. PICK op \in Ops : op = committed[k + 1]
  BY <1>4, <1>5, PrefixGrows, <1>2
<1>7. PICK s \in Seq(Ops) : s = SubSeq(committed, 1, k)
  BY <1>2, <1>4, <1>5, PrefixGrows
<1>8. SubSeq(committed, 1, k + 1) = Append(s, op)
  BY <1>2, <1>4, <1>5, <1>6, <1>7, PrefixGrows
<1>9. FirstOccurrences(SubSeq(committed, 1, k + 1)) =
        IF op \in Elements(s) THEN FirstOccurrences(s) ELSE Append(FirstOccurrences(s), op)
  BY <1>8, FirstOccurrencesAppend
<1>10. InTable(i) = k
  BY <1>1, <1>2 DEF InTable
<1>11. writes[i] = FirstOccurrences(s) /\ \A c \in Client : Latest(i, c, k)
  BY <1>7, <1>10 DEF UpToDate
<1>12. loop[i].duplicate <=> DuplicateRequest(i, op)
  BY <1>1, <1>3, <1>6 DEF UpToDate
<1>13. DuplicateRequest(i, op) <=> op \in Elements(s)
  BY <1>2, <1>4, <1>6, <1>7, <1>11, DuplicateIsRepeated
<1>14. PICK a \in Client, r \in Nat : a = op[1] /\ r = op[2] /\ op = <<a, r>> /\ r > 0
  BY OpTypes
<1>15. \/ /\ writes' = [writes EXCEPT ![i] = Append(writes[i], op)]
          /\ lastRequestId' = [lastRequestId EXCEPT ![i][a] = r]
          /\ ~loop[i].duplicate
       \/ UNCHANGED serverVars /\ loop[i].duplicate
  BY <1>3, <1>6, <1>14 DEF ExecutePutOp
<1>16. loop'[i].step = "executed" /\ loop'[i].index = k + 1
  BY <1>1, <1>3 DEF TypeOK, LoopTypes
<1>17. InTable(i)' = k + 1
  BY <1>16 DEF InTable
<1>18. lastRequestId \in [Node -> [Client -> 0..MaxCalls]] /\ writes \in [Node -> Seq(Ops)]
       /\ \A c \in Client : lastRequestId[i][c] \in Nat
  BY KvAssumption DEF TypeOK, LoopTypes
<1>19. \A n \in 1..(k + 1) : n \in 1..k \/ n = k + 1
  BY <1>2
<1>20. \A n \in 1..k : n \in 1..(k + 1)
  BY <1>2
<1>21. k + 1 \in 1..(k + 1)
  BY <1>2
<1>22. \A n \in 1..k : committed[n] \in Ops /\ committed[n][2] \in Nat
  <2>1. Len(committed) \in Nat
    BY <1>5, LenProperties
  <2>2. \A n \in 1..k : n \in 1..Len(committed)
    BY <1>4, <2>1
  <2> QED
    BY <1>5, <2>2, ElementOfSeq, OpTypes
<1>23. CASE UNCHANGED serverVars /\ loop[i].duplicate
  <2>1. writes'[i] = writes[i] /\ lastRequestId' = lastRequestId
    BY <1>23 DEF serverVars
  <2>2. writes'[i] = FirstOccurrences(SubSeq(committed, 1, k + 1))
    BY <1>9, <1>11, <1>12, <1>13, <1>23, <2>1
  <2>3. r <= lastRequestId[i][a]
    BY <1>12, <1>14, <1>23 DEF DuplicateRequest
  <2>4. ASSUME NEW c \in Client
        PROVE  Latest(i, c, k + 1)'
    <3>1. Latest(i, c, k)
      BY <1>11
    <3>2. lastRequestId[i][c] # 0 => \E n \in 1..(k + 1) : committed[n] = <<c, lastRequestId[i][c]>>
      BY <1>20, <3>1 DEF Latest
    <3>3. \A n \in 1..(k + 1) : committed[n][1] = c => committed[n][2] <= lastRequestId[i][c]
      BY <1>6, <1>14, <1>19, <2>3, <3>1 DEF Latest
    <3> QED
      BY <1>1, <2>1, <3>2, <3>3 DEF Latest
  <2> QED
    BY <1>1, <1>16, <1>17, <2>2, <2>4 DEF UpToDate
<1>24. CASE /\ writes' = [writes EXCEPT ![i] = Append(writes[i], op)]
            /\ lastRequestId' = [lastRequestId EXCEPT ![i][a] = r]
            /\ ~loop[i].duplicate
  <2>1. writes'[i] = Append(writes[i], op)
    BY <1>18, <1>24
  <2>2. /\ lastRequestId'[i][a] = r
        /\ \A c \in Client : c # a => lastRequestId'[i][c] = lastRequestId[i][c]
    <3>1. SetsLatest(i, a, r)
      BY <1>24 DEF SetsLatest
    <3> QED
      BY <1>18, <3>1, LatestEntry
  <2>3. writes'[i] = FirstOccurrences(SubSeq(committed, 1, k + 1))
    BY <1>9, <1>11, <1>12, <1>13, <1>24, <2>1
  <2>4. lastRequestId[i][a] < r
    BY <1>12, <1>14, <1>18, <1>24 DEF DuplicateRequest
  <2>5. Latest(i, a, k + 1)'
    <3>1. \E n \in 1..(k + 1) : committed[n] = <<a, r>>
      BY <1>6, <1>14, <1>21
    <3>2. \A n \in 1..k : committed[n][1] = a => committed[n][2] <= r
      <4>1. \A n \in 1..k : committed[n][1] = a => committed[n][2] <= lastRequestId[i][a]
        BY <1>11 DEF Latest
      <4>2. lastRequestId[i][a] \in Nat
        BY <1>18
      <4> QED
        BY <1>22, <2>4, <4>1, <4>2
    <3>3. \A n \in 1..(k + 1) : committed[n][1] = a => committed[n][2] <= r
      BY <1>6, <1>14, <1>19, <3>2
    <3> QED
      BY <1>1, <2>2, <3>1, <3>3 DEF Latest
  <2>6. ASSUME NEW c \in Client, c # a
        PROVE  Latest(i, c, k + 1)'
    <3>1. Latest(i, c, k) /\ lastRequestId'[i][c] = lastRequestId[i][c]
      BY <1>11, <2>2, <2>6
    <3>2. committed[k + 1][1] # c
      BY <1>6, <1>14, <2>6
    <3> QED
      BY <1>1, <1>19, <1>20, <3>1, <3>2 DEF Latest
  <2> QED
    BY <1>1, <1>16, <1>17, <2>3, <2>5, <2>6 DEF UpToDate
<1> QED
  BY <1>15, <1>23, <1>24

\* Without gets, only the loop writes to the table of its node.
LEMMA TableSteps ==
  ASSUME "get" \notin Kinds, TypeOK, RequestsInv, [Next]_vars, NEW i \in Node
  PROVE  \/ Commit
         \/ CheckCommand(i) \/ ExecutePutOp(i) \/ TryPush2Wait(i)
         \/ UNCHANGED <<tableVars(i), committed>>
<1>1. CASE UNCHANGED <<raftVars, loop, serverVars, executed>>
  BY <1>1 DEF raftVars, serverVars, tableVars
<1>2. ASSUME NEW j \in Node, RaftStep(j)
      PROVE  UNCHANGED <<tableVars(i), committed>>
  <2>1. UNCHANGED <<committed, loop, serverVars, history>>
    BY <1>2 DEF RaftStep, Learn, Elected, Deposed, ApplierTick, ApplierPush, InstallSnapshot,
                PushSnapshot, raftVars
  <2> QED
    BY <2>1 DEF serverVars, history, tableVars
<1>3. ASSUME NEW j \in Node, j # i, CheckCommand(j) \/ ExecutePutOp(j) \/ TryPush2Wait(j)
      PROVE  UNCHANGED <<tableVars(i), committed>>
  <2>1. loop'[i] = loop[i]
    BY <1>3 DEF CheckCommand, ExecutePutOp, TryPush2Wait, TypeOK, LoopTypes
  <2>2. executed'[i] = executed[i]
    BY <1>3 DEF CheckCommand, ExecutePutOp, TryPush2Wait, TypeOK, LoopTypes, history
  <2>3. UNCHANGED committed
    BY <1>3 DEF CheckCommand, ExecutePutOp, TryPush2Wait, raftVars
  <2>4. UNCHANGED <<writes[i], lastRequestId[i]>>
    BY <1>3 DEF CheckCommand, ExecutePutOp, TryPush2Wait, TypeOK, LoopTypes, serverVars
  <2> QED
    BY <2>1, <2>2, <2>3, <2>4 DEF tableVars
<1>4. ASSUME NEW j \in Node, LoadSnapshot(j)
      PROVE  UNCHANGED <<tableVars(i), committed>>
  BY <1>4 DEF LoadSnapshot, serverVars, history, tableVars
<1>5. ASSUME NEW h \in calls, HandlerStep(h)
      PROVE  UNCHANGED <<tableVars(i), committed>>
  <2>1. ~ExecuteGetOp(h)
    <3>1. h.kind \in Kinds
      BY DEF TypeOK, CallTypes
    <3> QED
      BY <3>1 DEF ExecuteGetOp, RequestsInv, HandlerInv
  <2>2. CASE Propose(h)
    <3>1. UNCHANGED <<committed, loop, serverVars, history>>
      BY <2>2 DEF Propose, applyVars
    <3> QED
      BY <3>1 DEF serverVars, history, tableVars
  <2>3. CASE ~Propose(h)
    <3>1. UNCHANGED <<raftVars, loop, serverVars>>
      BY <1>5, <2>1, <2>3, Zenon
         DEF HandlerStep, Refuse, Register, Pop, GiveUp, AfterTimeout, WaitApplied,
             WaitAppliedTimeout
    <3>2. UNCHANGED history \/ UNCHANGED executed
      BY <1>5, <2>1, <2>3, Zenon
         DEF HandlerStep, Refuse, Register, Pop, GiveUp, AfterTimeout, WaitApplied,
             WaitAppliedTimeout
    <3> QED
      BY <1>1, <3>1, <3>2 DEF history, raftVars, serverVars, tableVars
  <2> QED
    BY <2>2, <2>3
<1>6. ASSUME NEW c \in Client, RpcFailure(c) \/ \E kind \in Kinds : Call(c, kind)
      PROVE  UNCHANGED <<tableVars(i), committed>>
  BY <1>6 DEF RpcFailure, Call, raftVars, serverVars, history, tableVars
<1>7. UNCHANGED vars => UNCHANGED <<tableVars(i), committed>>
  BY DEF vars, raftVars, serverVars, history, tableVars
<1>8. ASSUME NEW j \in Node, LoopStep(j)
      PROVE  \/ CheckCommand(i) \/ ExecutePutOp(i) \/ TryPush2Wait(i)
             \/ UNCHANGED <<tableVars(i), committed>>
  BY <1>3, <1>4, <1>8, Zenon DEF LoopStep
<1> QED
  BY <1>2, <1>5, <1>6, <1>7, <1>8, Zenon DEF Next

LEMMA NextReplay ==
  ASSUME "get" \notin Kinds, TypeOK, TypeOK', ServerInv, ReplayInv, [Next]_vars
  PROVE  ReplayInv'
<1>1. /\ IndexesInv /\ RequestsInv /\ HandedInOrder /\ InRequestOrder
      /\ \A i \in Node : Up(i) /\ ~Behind(i) => UpToDate(i)
  BY DEF ServerInv, ReplayInv
<1>2. HandedInOrder' /\ InRequestOrder'
  BY <1>1, NextHanded, NextInRequestOrder
<1>3. ASSUME NEW i \in Node, Up(i)', ~Behind(i)'
      PROVE  UpToDate(i)'
  <2>1. Up(i) /\ ~Behind(i)
    BY <1>3, UpBefore
  <2>2. UpToDate(i)
    BY <1>1, <2>1
  <2> QED
    BY <1>1, <2>1, <2>2, TableSteps, CommitTable, CheckTable, ExecuteTable, PushTable,
       TableFrame
<1> QED
  BY <1>2, <1>3 DEF ReplayInv

\* _L_executeCommand, _L_duplicateRequest: as long as nobody gets, the puts of a client enter
\* the log in the order of its requests, and its latest request tells, on every server that
\* waits for no snapshot, which of them are in the table.
THEOREM ReplayKept ==
  ASSUME "get" \notin Kinds
  PROVE  Spec => []ReplayInv
<1>1. Init => ReplayInv
  <2> SUFFICES ASSUME Init
               PROVE  ReplayInv
    OBVIOUS
  <2>1. HandedInOrder
    BY InitHanded
  <2>2. committed = <<>> /\ Len(committed) = 0
    BY DEF Init
  <2>3. InRequestOrder
    BY <2>2 DEF InRequestOrder
  <2>4. ASSUME NEW i \in Node
        PROVE  UpToDate(i)
    <3>1. /\ writes[i] = <<>> /\ loop[i].step = "idle" /\ executed[i] = 0
          /\ \A c \in Client : lastRequestId[i][c] = 0
      BY DEF Init, Idle
    <3>2. InTable(i) = 0
      BY <3>1 DEF InTable
    <3>3. SubSeq(committed, 1, 0) = <<>>
      BY SubSeqEmpty
    <3>4. FirstOccurrences(<<>>) = <<>>
      BY NoneFirst
    <3>5. \A c \in Client : Latest(i, c, 0)
      BY <3>1 DEF Latest
    <3> QED
      BY <3>1, <3>2, <3>3, <3>4, <3>5 DEF UpToDate
  <2> QED
    BY <2>1, <2>3, <2>4 DEF ReplayInv
<1>2. TypeOK /\ ServerInv /\ (TypeOK /\ ServerInv)' /\ ReplayInv /\ [Next]_vars => ReplayInv'
  BY NextReplay
<1> QED
  BY <1>1, <1>2, ServerKept, PTL DEF Spec

\* As long as nobody gets, the table of a server that waits for no snapshot is the log up to
\* where its loop stands, every put in it once, the first time it was logged.
THEOREM TablesAreReplays ==
  ASSUME "get" \notin Kinds
  PROVE  Spec => []TableIsReplay
<1>1. ReplayInv => TableIsReplay
  BY DEF ReplayInv, UpToDate, TableIsReplay
<1> QED
  BY <1>1, ReplayKept, PTL

-----------------------------------------------------------------------------
(* A client reads its own puts. *)

LEMMA OnlyPushed ==
  ASSUME NEW q \in Seq(Items), NEW x \in Items, NEW y, Contains(Append(q, x), y)
  PROVE  Contains(q, y) \/ y = x
<1>1. PICK n \in 1..Len(Append(q, x)) : Append(q, x)[n] = y
  BY DEF Contains
<1>2. Len(q) \in Nat /\ Len(Append(q, x)) = Len(q) + 1 /\ Append(q, x)[Len(q) + 1] = x
      /\ \A m \in 1..Len(q) : Append(q, x)[m] = q[m]
  BY AppendProperties, LenProperties
<1>3. n \in 1..Len(q) \/ n = Len(q) + 1
  BY <1>2
<1> QED
  BY <1>1, <1>2, <1>3 DEF Contains

LEMMA OnlyLeft ==
  ASSUME NEW q \in Seq(Items), q # <<>>, NEW y, Contains(Tail(q), y)
  PROVE  Contains(q, y)
<1>1. PICK n \in 1..Len(Tail(q)) : Tail(q)[n] = y
  BY DEF Contains
<1>2. Len(q) \in Nat /\ Len(Tail(q)) = Len(q) - 1
      /\ \A m \in 1..Len(Tail(q)) : Tail(q)[m] = q[m + 1]
  BY HeadTailProperties, LenProperties
<1>3. n + 1 \in 1..Len(q)
  BY <1>2
<1> QED
  BY <1>1, <1>2, <1>3 DEF Contains

\* Without snapshots none is sent, pushed or loaded.
LEMMA NoneIsSent ==
  ASSUME TypeOK, NoSnapshots, NEW i \in Node
  PROVE  /\ ~LoadSnapshot(i)
         /\ \A j \in Node : ~InstallSnapshot(i, j)
         /\ \A p \in pushers : ~(p[1] = i /\ PushSnapshot(i, p[2]))
<1>1. queue[i] \in Seq(Items) /\ pushers \subseteq Node \X (1..MaxIndex)
  BY DEF TypeOK, CoreTypes, LoopTypes, Items
<1>2. \A k \in 1..MaxIndex : <<i, k>> \notin pushers /\ ~Contains(queue[i], <<"snapshot", k>>)
  BY DEF NoSnapshots, Behind, SnapshotAt
<1>3. ~LoadSnapshot(i)
  <2> SUFFICES ASSUME queue[i] # <<>>, Head(queue[i])[1] = "snapshot"
               PROVE  FALSE
    BY DEF LoadSnapshot
  <2>1. Head(queue[i]) \in Items /\ Head(queue[i]) = queue[i][1] /\ 1 \in 1..Len(queue[i])
    BY <1>1, QueueSplits, HeadTailProperties, EmptySeq, LenProperties
  <2>2. PICK k \in 1..MaxIndex : Head(queue[i]) = <<"snapshot", k>>
    BY <2>1 DEF Items
  <2> QED
    BY <1>2, <2>1, <2>2 DEF Contains
<1>4. ASSUME NEW j \in Node, InstallSnapshot(i, j)
      PROVE  FALSE
  BY <1>4 DEF InstallSnapshot, NoSnapshots
<1>5. ASSUME NEW p \in pushers, p[1] = i
      PROVE  FALSE
  <2>1. p = <<i, p[2]>> /\ p[2] \in 1..MaxIndex
    BY <1>1, <1>5
  <2> QED
    BY <1>2, <1>5, <2>1
<1> QED
  BY <1>3, <1>4, <1>5

\* The steps that a server without snapshots takes.
LEMMA QuietSteps ==
  ASSUME TypeOK, NoSnapshots, NEW i \in Node, RaftStep(i) \/ LoopStep(i)
  PROVE  \/ Learn(i) \/ Elected(i) \/ Deposed(i) \/ ApplierTick(i) \/ ApplierPush(i)
         \/ CheckCommand(i) \/ ExecutePutOp(i) \/ TryPush2Wait(i)
  BY NoneIsSent, Zenon DEF RaftStep, LoopStep

LEMMA NextNoSnapshots ==
  ASSUME ~TakesSnapshots, TypeOK, NoSnapshots, [Next]_vars
  PROVE  NoSnapshots'
<1> DEFINE Kept == UNCHANGED <<fault, shot, pushers>>
           Commands(j) == \/ UNCHANGED queue
                          \/ /\ batch[j] # <<>>
                             /\ queue' = [queue EXCEPT ![j] =
                                            Append(queue[j], <<"command", Head(batch[j])>>)]
                          \/ /\ queue[j] # <<>>
                             /\ queue' = [queue EXCEPT ![j] = Tail(queue[j])]
<1>1. ASSUME NEW j \in Node, RaftStep(j) \/ LoopStep(j)
      PROVE  Kept /\ Commands(j)
  BY <1>1, QuietSteps
     DEF Learn, Elected, Deposed, ApplierTick, ApplierPush, CheckCommand, ExecutePutOp,
         TryPush2Wait, MaySnapshot, raftVars, applyVars
<1>2. ASSUME NEW h \in calls, HandlerStep(h)
      PROVE  Kept /\ UNCHANGED queue
  <2>1. UNCHANGED <<applyVars, loop, fault>>
    BY <1>2, Zenon
       DEF HandlerStep, Propose, Refuse, Register, Pop, GiveUp, AfterTimeout, WaitApplied,
           ExecuteGetOp, WaitAppliedTimeout
  <2>2. UNCHANGED <<raftVars, applyVars, loop>> \/ UNCHANGED <<committed, leading, elections, commit, shot, applyVars, loop>>
    BY <1>2, Zenon
       DEF HandlerStep, Propose, Refuse, Register, Pop, GiveUp, AfterTimeout, WaitApplied,
           ExecuteGetOp, WaitAppliedTimeout
  <2> QED
    BY <2>1, <2>2 DEF raftVars, applyVars
<1>3. ASSUME NEW c \in Client, RpcFailure(c) \/ \E kind \in Kinds : Call(c, kind)
      PROVE  Kept /\ UNCHANGED queue
  BY <1>3 DEF RpcFailure, Call, raftVars, applyVars
<1>4. Commit \/ UNCHANGED vars => Kept /\ UNCHANGED queue
  BY DEF Commit, vars, raftVars, applyVars
<1>5. Kept /\ \E j \in Node : Commands(j)
  BY <1>1, <1>2, <1>3, <1>4, NodeFacts, Zenon DEF Next
<1>6. PICK j \in Node : Commands(j)
  BY <1>5
<1>7. ASSUME NEW i \in Node, NEW k \in 1..MaxIndex
      PROVE  ~Contains(queue'[i], <<"snapshot", k>>)
  <2>1. /\ queue \in [Node -> Seq(Items)] /\ queue[i] \in Seq(Items)
        /\ batch[i] \in Seq(1..MaxIndex)
    BY DEF TypeOK, CoreTypes, LoopTypes, Items
  <2>2. ~Contains(queue[i], <<"snapshot", k>>)
    BY DEF NoSnapshots, Behind, SnapshotAt
  <2>3. \/ queue'[i] = queue[i]
        \/ batch[i] # <<>> /\ queue'[i] = Append(queue[i], <<"command", Head(batch[i])>>)
        \/ queue[i] # <<>> /\ queue'[i] = Tail(queue[i])
    BY <1>6, <2>1
  <2>4. CASE queue'[i] = queue[i]
    BY <2>2, <2>4
  <2>5. CASE batch[i] # <<>> /\ queue'[i] = Append(queue[i], <<"command", Head(batch[i])>>)
    <3>1. <<"command", Head(batch[i])>> \in Items
      BY <2>1, <2>5, BatchSplits DEF Items
    <3> QED
      BY <2>1, <2>2, <2>5, <3>1, OnlyPushed
  <2>6. CASE queue[i] # <<>> /\ queue'[i] = Tail(queue[i])
    BY <2>1, <2>2, <2>6, OnlyLeft
  <2> QED
    BY <2>3, <2>4, <2>5, <2>6
<1>8. ASSUME NEW i \in Node
      PROVE  (Up(i) /\ shot[i] = 0 /\ ~Behind(i))'
  <2>1. Up(i) /\ shot[i] = 0 /\ \A k \in 1..MaxIndex : <<i, k>> \notin pushers
    BY DEF NoSnapshots, Behind, SnapshotAt
  <2>2. Up(i)' /\ shot'[i] = 0
    BY <1>5, <2>1 DEF Up
  <2>3. \A k \in 1..MaxIndex : <<i, k>> \notin pushers'
    BY <1>5, <2>1
  <2> QED
    BY <1>7, <2>2, <2>3 DEF Behind, SnapshotAt
<1> QED
  BY <1>8 DEF NoSnapshots

\* What the steps of a session are about.
sessionVars == <<committed, proposals, loop, executed, writes, lastRequestId, call, calls,
                 leaderId, acked, unseen>>

LEMMA NoFailure ==
  ASSUME TypeOK, NEW c \in Client, RpcFailure(c)
  PROVE  failures' # 0
<1>1. failures \in Nat /\ failures' = failures + 1
  BY KvAssumption DEF TypeOK, CallTypes, RpcFailure
<1> QED
  BY <1>1

LEMMA FailuresStay ==
  ASSUME TypeOK, [Next]_vars, failures' = 0
  PROVE  failures = 0
<1>1. ASSUME NEW j \in Node, RaftStep(j) \/ LoopStep(j)
      PROVE  UNCHANGED failures
  BY <1>1 DEF RaftStep, LoopStep, Learn, Elected, Deposed, ApplierTick, ApplierPush,
       InstallSnapshot, PushSnapshot, CheckCommand, ExecutePutOp, TryPush2Wait,
       LoadSnapshot, clerkVars
<1>2. ASSUME NEW h \in calls, HandlerStep(h)
      PROVE  UNCHANGED failures
  <2>1. ASSUME NEW err, Answer(h, err)
        PROVE  UNCHANGED failures
    BY <2>1 DEF Answer
  <2>2. UNCHANGED clerkVars \/ \E err : Answer(h, err)
    BY <1>2, Zenon
       DEF HandlerStep, Propose, Refuse, Register, Pop, GiveUp, AfterTimeout, WaitApplied,
           ExecuteGetOp, WaitAppliedTimeout
  <2> QED
    BY <2>1, <2>2 DEF clerkVars
<1>3. ASSUME NEW c \in Client, RpcFailure(c)
      PROVE  FALSE
  BY <1>3, NoFailure
<1>4. ASSUME NEW c \in Client, NEW kind \in Kinds, Call(c, kind)
      PROVE  UNCHANGED failures
  BY <1>4 DEF Call
<1>5. Commit \/ UNCHANGED vars => UNCHANGED failures
  BY DEF Commit, vars, clerkVars
<1>6. UNCHANGED failures
  BY <1>1, <1>2, <1>3, <1>4, <1>5, Zenon DEF Next
<1> QED
  BY <1>6

\* Handler h moves on without an answer.
MovesOn(h) == Register(h) \/ GiveUp(h) \/ WaitApplied(h)

LEMMA SessionSteps ==
  ASSUME TypeOK, NoSnapshots, [Next]_vars, failures' = 0
  PROVE  \/ Commit
         \/ \E i \in Node : CheckCommand(i) \/ ExecutePutOp(i) \/ TryPush2Wait(i)
         \/ \E c \in Client, kind \in Kinds : Call(c, kind)
         \/ \E h \in calls : Propose(h) \/ MovesOn(h) \/ Ends(h)
         \/ UNCHANGED sessionVars
<1>1. ASSUME NEW i \in Node, RaftStep(i) \/ LoopStep(i)
      PROVE  CheckCommand(i) \/ ExecutePutOp(i) \/ TryPush2Wait(i) \/ UNCHANGED sessionVars
  <2>1. ASSUME Learn(i) \/ Elected(i) \/ Deposed(i) \/ ApplierTick(i) \/ ApplierPush(i)
        PROVE  UNCHANGED sessionVars
    BY <2>1 DEF Learn, Elected, Deposed, ApplierTick, ApplierPush, raftVars, serverVars,
                clerkVars, history, sessionVars
  <2> QED
    BY <1>1, <2>1, QuietSteps, Zenon
<1>2. ASSUME NEW h \in calls, HandlerStep(h)
      PROVE  Propose(h) \/ MovesOn(h) \/ Ends(h)
  BY <1>2, Zenon DEF HandlerStep, MovesOn, Ends
<1>3. UNCHANGED vars => UNCHANGED sessionVars
  BY DEF vars, raftVars, serverVars, clerkVars, history, sessionVars
<1> QED
  BY <1>1, <1>2, <1>3, NoFailure, Zenon DEF Next

-----------------------------------------------------------------------------
\* How handler h ends: its clerk waits on without an answer, has one, or asks the next server.
Unanswered(h) == calls' = calls \ {h} /\ UNCHANGED <<clerkVars, acked>>

Returned(h) ==
  /\ calls' = calls \ {h}
  /\ SetsCall(h.client, NoCall)
  /\ leaderId' = [leaderId EXCEPT ![h.client] = h.node]
  /\ acked' = IF h.kind = "put" THEN acked \cup {Op(h)} ELSE acked
  /\ h.kind = "put" => Op(h) \in Elements(writes[h.node])

Redirected(h) ==
  /\ h.kind = "put"
  /\ calls' = (calls \ {h}) \cup
       {Handler(h.client, h.kind, h.req, h.attempt, NextServer(h.node))}
  /\ SetsCall(h.client, [call[h.client] EXCEPT !.node = NextServer(h.node)])
  /\ UNCHANGED <<leaderId, acked>>

LEMMA SessionEnds ==
  ASSUME TypeOK, ServerInv, HandlersAreAwaited, NEW h \in calls, Ends(h)
  PROVE  Unanswered(h) \/ Returned(h) \/ Redirected(h)
<1>1. Awaited(h) /\ HandlerInv(h)
  BY CallsKnown DEF HandlersAreAwaited, ServerInv
<1>2. ASSUME Answer(h, "OK"), h.kind = "put" => Op(h) \in Elements(writes[h.node])
      PROVE  Returned(h)
  BY <1>1, <1>2 DEF Answer, Returned, SetsCall, Op
<1>3. ASSUME Answer(h, "ErrWrongLeader"), h.kind = "put"
      PROVE  Redirected(h)
  BY <1>1, <1>3 DEF Answer, Redirected, SetsCall
<1>4. CASE Refuse(h)
  BY <1>3, <1>4 DEF Refuse
<1>5. CASE Pop(h)
  <2>1. h.kind = "put" /\ h.step = "waiting" /\ appliedChan[h.node][h.index] # <<>>
    BY <1>1, <1>5 DEF Pop, HandlerInv, Logs
  <2>2. CASE Head(appliedChan[h.node][h.index]) = Op(h)
    <3>1. Op(h) \in Elements(writes[h.node])
      BY <1>1, <2>1, <2>2, AnsweredIsServed DEF ServerInv
    <3> QED
      BY <1>2, <1>5, <2>2, <3>1 DEF Pop
  <2>3. CASE Head(appliedChan[h.node][h.index]) # Op(h)
    BY <1>3, <1>5, <2>1, <2>3 DEF Pop
  <2> QED
    BY <2>2, <2>3
<1>6. CASE AfterTimeout(h)
  <2>1. h.kind = "put"
    BY <1>1, <1>6 DEF AfterTimeout, HandlerInv, Logs
  <2>2. CASE DuplicateRequest(h.node, Op(h))
    <3>1. Op(h) \in Elements(writes[h.node])
      BY <1>1, <2>1, <2>2, AnsweredIsServed DEF ServerInv
    <3> QED
      BY <1>2, <1>6, <2>2, <3>1 DEF AfterTimeout
  <2>3. CASE ~DuplicateRequest(h.node, Op(h))
    BY <1>3, <1>6, <2>1, <2>3 DEF AfterTimeout
  <2> QED
    BY <2>2, <2>3
<1>7. CASE ExecuteGetOp(h)
  <2>1. h.kind = "get"
    BY <1>1, <1>7 DEF ExecuteGetOp, HandlerInv
  <2> QED
    BY <1>2, <1>7, <2>1 DEF ExecuteGetOp, Unanswered
<1>8. CASE WaitAppliedTimeout(h)
  BY <1>8 DEF WaitAppliedTimeout, history, Unanswered
<1> QED
  BY <1>4, <1>5, <1>6, <1>7, <1>8 DEF Ends

LEMMA SameCall ==
  ASSUME TypeOK, NEW h \in calls, Propose(h) \/ MovesOn(h)
  PROVE  /\ \E m : /\ calls' = (calls \ {h}) \cup {m}
                   /\ m.client = h.client /\ m.kind = h.kind /\ m.req = h.req
                   /\ m.attempt = h.attempt /\ m.node = h.node
         /\ UNCHANGED <<clerkVars, history>>
<1>1. \E s, k : Moves(h, s, k)
  BY DEF Propose, MovesOn, Register, GiveUp, WaitApplied
<1>2. PICK s, k : Moves(h, s, k)
  BY <1>1
<1>3. /\ After(h, s, k).client = h.client /\ After(h, s, k).kind = h.kind
      /\ After(h, s, k).req = h.req /\ After(h, s, k).attempt = h.attempt
      /\ After(h, s, k).node = h.node
  BY CallsFacts DEF After, Handlers
<1>4. calls' = (calls \ {h}) \cup {After(h, s, k)}
  BY <1>2, MovesCalls
<1>5. UNCHANGED <<clerkVars, history>>
  BY DEF Propose, MovesOn, Register, GiveUp, WaitApplied
<1> QED
  BY <1>3, <1>4, <1>5

\* A client that calls had no handler and no put it waits for.
LEMMA NobodyElse ==
  ASSUME TypeOK, NEW c \in Client, NEW kind \in Kinds, Call(c, kind)
  PROVE  /\ HandlersAreAwaited => \A g \in calls : g.client # c
         /\ \A op : op[1] = c => ~AwaitedPut(op)
<1>1. call[c].kind = "none" /\ "none" \notin Kinds
  BY KvAssumption DEF Call, Waits, NoCall
<1>2. \A g \in calls : g.kind \in Kinds
  BY CallsFacts, HandlerFields
<1> QED
  BY <1>1, <1>2 DEF HandlersAreAwaited, Awaited, AwaitedPut

\* A clerk has one handler: a new call, a move, a refusal replace the one before.
LEMMA NextHandlers ==
  ASSUME TypeOK, ServerInv, NoSnapshots, HandlersAreAwaited, [Next]_vars, failures' = 0
  PROVE  HandlersAreAwaited'
<1>1. /\ \A g \in calls : Awaited(g) /\ (g.kind = "get" => g.node = leaderId[g.client])
      /\ \A f, g \in calls : f.client = g.client => f = g
  BY DEF HandlersAreAwaited
<1>2. CASE UNCHANGED <<calls, call, leaderId>>
  BY <1>2 DEF HandlersAreAwaited, Awaited
<1>3. ASSUME NEW h \in calls, NEW m, calls' = (calls \ {h}) \cup {m},
             m.client = h.client, m.kind = h.kind, m.req = h.req, m.attempt = h.attempt,
             UNCHANGED leaderId, m.kind = "get" => m.node = leaderId[m.client],
             \A d \in Client : /\ call'[d].kind = call[d].kind /\ call'[d].req = call[d].req
                               /\ call'[d].attempt = call[d].attempt
      PROVE  HandlersAreAwaited'
  <2>1. \A g \in calls' : \E f \in calls : /\ g.client = f.client /\ g.kind = f.kind
                                           /\ g.req = f.req /\ g.attempt = f.attempt
                                           /\ (g = f /\ g # h) \/ (f = h /\ g = m)
    BY <1>3
  <2>2. \A g \in calls' : Awaited(g)'
    BY <1>1, <1>3, <2>1, CallsFacts DEF Awaited
  <2>3. \A g \in calls' : g.kind = "get" => g.node = leaderId'[g.client]
    BY <1>1, <1>3
  <2>4. \A f, g \in calls' : f.client = g.client => f = g
    BY <1>1, <2>1
  <2> QED
    BY <2>2, <2>3, <2>4 DEF HandlersAreAwaited
<1>4. ASSUME NEW c \in Client, NEW kind \in Kinds, Call(c, kind)
      PROVE  HandlersAreAwaited'
  <2> DEFINE r == requestId[c] + 1
             w == [kind |-> kind, req |-> r, node |-> leaderId[c], attempt |-> 0]
  <2>1. PICK n : n = Handler(c, kind, r, 0, leaderId[c])
    OBVIOUS
  <2>2. SetsCall(c, w) /\ calls' = calls \cup {n} /\ UNCHANGED leaderId
    BY <1>4, <2>1 DEF Call, SetsCall
  <2>3. /\ w.kind = kind /\ w.req = r /\ w.attempt = 0
        /\ n.client = c /\ n.kind = kind /\ n.req = r /\ n.attempt = 0 /\ n.node = leaderId[c]
    BY <2>1 DEF Handler
  <2> HIDE DEF w, r
  <2>4. call'[c] = w /\ \A d \in Client : d # c => call'[d] = call[d]
    BY <2>2, CallEntry
  <2>5. \A g \in calls : g.client # c
    BY <1>4, NobodyElse
  <2>6. \A g \in calls : Awaited(g)'
    BY <1>1, <2>4, <2>5, CallsFacts DEF Awaited
  <2>7. Awaited(n)'
    BY <2>3, <2>4 DEF Awaited
  <2>8. \A f, g \in calls' : f.client = g.client => f = g
    BY <1>1, <2>2, <2>3, <2>5
  <2>9. \A g \in calls' : g.kind = "get" => g.node = leaderId'[g.client]
    BY <1>1, <2>2, <2>3
  <2> QED
    BY <2>2, <2>6, <2>7, <2>8, <2>9 DEF HandlersAreAwaited
<1>5. ASSUME NEW h \in calls, Propose(h) \/ MovesOn(h)
      PROVE  HandlersAreAwaited'
  <2>1. PICK m : /\ calls' = (calls \ {h}) \cup {m}
                 /\ m.client = h.client /\ m.kind = h.kind /\ m.req = h.req
                 /\ m.attempt = h.attempt /\ m.node = h.node
    BY <1>5, SameCall
  <2>2. UNCHANGED <<call, leaderId>>
    BY <1>5, SameCall DEF clerkVars
  <2> QED
    BY <1>1, <1>3, <2>1, <2>2
<1>6. ASSUME NEW h \in calls, Ends(h)
      PROVE  HandlersAreAwaited'
  <2>1. h.client \in Client
    BY CallsFacts
  <2>2. CASE Unanswered(h)
    <3>1. calls' \subseteq calls /\ UNCHANGED <<call, leaderId>>
      BY <2>2 DEF Unanswered, clerkVars
    <3> QED
      BY <1>1, <3>1 DEF HandlersAreAwaited, Awaited
  <2>3. CASE Returned(h)
    <3>1. \A g \in calls' : g \in calls /\ g.client # h.client
      BY <1>1, <2>3 DEF Returned
    <3>2. \A d \in Client : d # h.client => call'[d] = call[d] /\ leaderId'[d] = leaderId[d]
      BY <2>1, <2>3, CallEntry, CallFacts DEF Returned, TypeOK
    <3> QED
      BY <1>1, <3>1, <3>2, CallsFacts DEF HandlersAreAwaited, Awaited
  <2>4. CASE Redirected(h)
    <3>1. PICK m : m = Handler(h.client, h.kind, h.req, h.attempt, NextServer(h.node))
      OBVIOUS
    <3>2. PICK w : w = [call[h.client] EXCEPT !.node = NextServer(h.node)]
      OBVIOUS
    <3>3. calls' = (calls \ {h}) \cup {m} /\ SetsCall(h.client, w) /\ UNCHANGED leaderId
          /\ h.kind = "put"
      BY <2>4, <3>1, <3>2 DEF Redirected
    <3>4. m.client = h.client /\ m.kind = h.kind /\ m.req = h.req /\ m.attempt = h.attempt
      BY <3>1 DEF Handler
    <3>5. call[h.client] \in Waiting
      BY <2>1, CallFacts DEF TypeOK
    <3>6. /\ w.kind = call[h.client].kind /\ w.req = call[h.client].req
          /\ w.attempt = call[h.client].attempt
      BY <3>2, <3>5 DEF Waiting
    <3>7. \A d \in Client : /\ call'[d].kind = call[d].kind /\ call'[d].req = call[d].req
                            /\ call'[d].attempt = call[d].attempt
      BY <2>1, <3>3, <3>6, CallEntry
    <3> QED
      BY <1>3, <3>3, <3>4, <3>7
  <2> QED
    BY <1>6, <2>2, <2>3, <2>4, SessionEnds
<1>7. Commit => UNCHANGED <<calls, call, leaderId>>
  BY DEF Commit, clerkVars
<1>8. ASSUME NEW i \in Node, CheckCommand(i) \/ ExecutePutOp(i) \/ TryPush2Wait(i)
      PROVE  UNCHANGED <<calls, call, leaderId>>
  BY <1>8 DEF CheckCommand, ExecutePutOp, TryPush2Wait, clerkVars
<1>9. UNCHANGED sessionVars => UNCHANGED <<calls, call, leaderId>>
  BY DEF sessionVars
<1> QED
  BY <1>2, <1>4, <1>5, <1>6, <1>7, <1>8, <1>9, SessionSteps, Zenon

\* A put that is logged is awaited, or it returned.
LEMMA NextEarlier ==
  ASSUME TypeOK, ServerInv, NoSnapshots, HandlersAreAwaited, EarlierAcked, [Next]_vars,
         failures' = 0
  PROVE  EarlierAcked'
<1>1. CASE UNCHANGED <<proposals, call, acked>>
  BY <1>1 DEF EarlierAcked, AwaitedPut, Logged
<1>2. ASSUME NEW c \in Client, NEW kind \in Kinds, Call(c, kind)
      PROVE  EarlierAcked'
  <2>1. UNCHANGED <<proposals, acked>>
    BY <1>2 DEF Call, raftVars, history
  <2>2. \A d \in Client : d # c => call'[d] = call[d]
    <3>1. \E w : SetsCall(c, w)
      BY <1>2 DEF Call, SetsCall
    <3> QED
      BY <3>1, CallEntry
  <2>3. ASSUME NEW op \in Logged
        PROVE  AwaitedPut(op)' \/ op \in acked
    <3>1. op[1] \in Client
      BY ProposalTypes DEF Logged
    <3> QED
      BY <1>2, <2>2, <3>1, NobodyElse DEF EarlierAcked, AwaitedPut
  <2> QED
    BY <2>1, <2>3 DEF EarlierAcked, Logged
<1>3. ASSUME NEW h \in calls, Propose(h)
      PROVE  EarlierAcked'
  <2>1. UNCHANGED <<call, acked>>
    BY <1>3, SameCall DEF clerkVars, history
  <2>2. h.kind = "put" /\ \E k : proposals' = proposals \cup {<<k, Op(h)>>}
    BY <1>3 DEF Propose
  <2>3. AwaitedPut(Op(h))
    BY <2>2 DEF HandlersAreAwaited, Awaited, AwaitedPut, Op
  <2>4. \A op \in Logged' : op \in Logged \/ op = Op(h)
    BY <2>2 DEF Logged
  <2>5. \A op \in Logged' : AwaitedPut(op) \/ op \in acked
    BY <2>3, <2>4 DEF EarlierAcked
  <2> QED
    BY <2>1, <2>5 DEF EarlierAcked, AwaitedPut
<1>4. ASSUME NEW h \in calls, MovesOn(h)
      PROVE  UNCHANGED <<proposals, call, acked>>
  <2>1. UNCHANGED proposals
    BY <1>4 DEF MovesOn, Register, GiveUp, WaitApplied, raftVars
  <2> QED
    BY <1>4, <2>1, SameCall DEF clerkVars, history
<1>5. ASSUME NEW h \in calls, Ends(h)
      PROVE  EarlierAcked'
  <2>1. h.client \in Client /\ UNCHANGED proposals
    BY <1>5, CallsFacts
       DEF Ends, Refuse, Pop, AfterTimeout, ExecuteGetOp, WaitAppliedTimeout, raftVars
  <2>2. CASE Unanswered(h)
    BY <1>1, <2>1, <2>2 DEF Unanswered, clerkVars
  <2>3. CASE Returned(h)
    <3>1. \A d \in Client : d # h.client => call'[d] = call[d]
      BY <2>1, <2>3, CallEntry DEF Returned
    <3>2. acked \subseteq acked'
      BY <2>3 DEF Returned
    <3>3. ASSUME NEW op \in Logged, AwaitedPut(op), op[1] = h.client
          PROVE  op \in acked'
      <4>1. h.kind = "put" /\ h.req = op[2]
        BY <3>3 DEF HandlersAreAwaited, Awaited, AwaitedPut
      <4>2. op = Op(h)
        BY <3>3, <4>1, ProposalTypes DEF Logged, Op
      <4> QED
        BY <2>3, <4>1, <4>2 DEF Returned
    <3>4. \A op \in Logged : op[1] \in Client
      BY ProposalTypes DEF Logged
    <3>5. \A op \in Logged : AwaitedPut(op)' \/ op \in acked'
      BY <3>1, <3>2, <3>3, <3>4 DEF EarlierAcked, AwaitedPut
    <3> QED
      BY <2>1, <3>5 DEF EarlierAcked, Logged
  <2>4. CASE Redirected(h)
    <3>1. PICK w : w = [call[h.client] EXCEPT !.node = NextServer(h.node)]
      OBVIOUS
    <3>2. SetsCall(h.client, w) /\ UNCHANGED acked
      BY <2>4, <3>1 DEF Redirected
    <3>3. call[h.client] \in Waiting
      BY <2>1, CallFacts DEF TypeOK
    <3>4. w.kind = call[h.client].kind /\ w.req = call[h.client].req
      BY <3>1, <3>3 DEF Waiting
    <3>5. \A d \in Client : call'[d].kind = call[d].kind /\ call'[d].req = call[d].req
      BY <2>1, <3>2, <3>4, CallEntry
    <3>6. \A op \in Logged : op[1] \in Client
      BY ProposalTypes DEF Logged
    <3>7. \A op \in Logged : AwaitedPut(op)' \/ op \in acked'
      BY <3>2, <3>5, <3>6 DEF EarlierAcked, AwaitedPut
    <3> QED
      BY <2>1, <3>7 DEF EarlierAcked, Logged
  <2> QED
    BY <1>5, <2>2, <2>3, <2>4, SessionEnds
<1>6. Commit => UNCHANGED <<proposals, call, acked>>
  BY DEF Commit, clerkVars, history
<1>7. ASSUME NEW i \in Node, CheckCommand(i) \/ ExecutePutOp(i) \/ TryPush2Wait(i)
      PROVE  UNCHANGED <<proposals, call, acked>>
  BY <1>7 DEF CheckCommand, ExecutePutOp, TryPush2Wait, raftVars, clerkVars, history
<1>8. UNCHANGED sessionVars => UNCHANGED <<proposals, call, acked>>
  BY DEF sessionVars
<1> QED
  BY <1>1, <1>2, <1>3, <1>4, <1>5, <1>6, <1>7, <1>8, SessionSteps, Zenon

LEMMA AckedIsCommitted ==
  ASSUME ServerInv
  PROVE  acked \subseteq Elements(committed)
  BY DEF ServerInv, AnswersInv, AckedIsExecuted

\* What is committed was logged.
LEMMA CommittedIsLogged ==
  ASSUME ServerInv
  PROVE  /\ \A k \in 1..Len(committed) : committed[k] \in Logged
         /\ Elements(committed) \subseteq Logged
<1>1. \A k \in 1..Len(committed) : committed[k] \in Logged
  <2>1. TAKE k \in 1..Len(committed)
  <2>2. <<k, committed[k]>> \in proposals
    BY DEF ServerInv, IndexesInv
  <2>3. <<k, committed[k]>>[2] = committed[k]
    OBVIOUS
  <2> QED
    BY <2>2, <2>3, Zenon DEF Logged
<1> QED
  BY <1>1 DEF Elements

\* A client waits for the latest put it made.
LEMMA AwaitedIsLatest ==
  ASSUME TypeOK, ServerInv, NEW op \in Ops, NEW e \in Ops, AwaitedPut(op), Known(e), e[1] = op[1]
  PROVE  e[2] <= op[2]
<1>1. op[1] \in Client
  BY OpTypes
<1>2. requestId[op[1]] = op[2]
  BY <1>1 DEF ServerInv, RequestsInv, ClerkInv, AwaitedPut
<1> QED
  BY <1>2 DEF Known

\* A put is logged only when the earlier ones of its client are in the log, and committed
\* only when they are committed.
LEMMA NextEarlierFirst ==
  ASSUME TypeOK, ServerInv, NoSnapshots, HandlersAreAwaited, EarlierAcked, EarlierFirst,
         [Next]_vars, failures' = 0
  PROVE  EarlierFirst'
<1>0. /\ committed \in Seq(Ops) /\ Len(committed) \in Nat
      /\ \A m \in 1..Len(committed) : committed[m] \in Ops /\ Known(committed[m])
  <2>1. committed \in Seq(Ops) /\ Len(committed) \in Nat
    BY LenProperties DEF TypeOK, CoreTypes
  <2>2. \A m \in 1..Len(committed) : committed[m] \in Elements(committed)
    BY DEF Elements
  <2> QED
    BY <2>1, <2>2, CommittedKnown DEF ServerInv
<1>1. CASE UNCHANGED <<committed, proposals>>
  BY <1>1 DEF EarlierFirst, Logged
<1>2. CASE Commit
  <2>1. PICK p \in proposals : committed' = Append(committed, p[2])
    BY <1>2 DEF Commit
  <2>2. PICK op \in Ops : op = p[2]
    BY <2>1, CommitElements
  <2>3. PICK l \in Nat : l = Len(committed)
    BY <1>0
  <2>4. /\ Len(committed') = l + 1 /\ committed'[l + 1] = op
        /\ \A k \in 1..l : committed'[k] = committed[k]
    BY <1>0, <2>1, <2>2, <2>3, AppendProperties
  <2>5. Logged' = Logged
    BY <1>2 DEF Commit, Logged
  <2>6. ASSUME NEW e \in Logged, e[1] = op[1], e[2] < op[2]
        PROVE  \E k \in 1..l : committed[k] = e
    <3>1. e \in Ops /\ e[2] \in Nat /\ op[2] \in Nat
      BY ProposalTypes, OpTypes DEF Logged
    <3>2. Known(op)
      BY <2>2 DEF ServerInv, RequestsInv
    <3>3. ~AwaitedPut(e)
      BY <2>6, <3>1, <3>2, AwaitedIsLatest
    <3>4. e \in Elements(committed)
      BY <3>3, AckedIsCommitted DEF EarlierAcked
    <3> QED
      BY <2>3, <3>4 DEF Elements
  <2>7. ASSUME NEW m \in 1..(l + 1), NEW e \in Logged, e[1] = committed'[m][1],
               e[2] < committed'[m][2]
        PROVE  \E k \in 1..(m - 1) : committed'[k] = e
    <3>1. m \in 1..l \/ m = l + 1
      BY <2>3
    <3>2. CASE m \in 1..l
      <4>1. PICK k \in 1..(m - 1) : committed[k] = e
        BY <2>3, <2>4, <2>7, <3>2 DEF EarlierFirst
      <4>2. k \in 1..l
        BY <3>2
      <4> QED
        BY <2>4, <4>1, <4>2
    <3>3. CASE m = l + 1
      <4>1. PICK k \in 1..l : committed[k] = e
        BY <2>4, <2>6, <2>7, <3>3
      <4>2. k \in 1..(m - 1)
        BY <3>3
      <4> QED
        BY <2>4, <4>1, <4>2
    <3> QED
      BY <3>1, <3>2, <3>3
  <2> QED
    BY <2>4, <2>5, <2>7 DEF EarlierFirst
<1>3. ASSUME NEW h \in calls, Propose(h)
      PROVE  EarlierFirst'
  <2>1. UNCHANGED committed
    BY <1>3 DEF Propose
  <2>2. h.kind = "put" /\ \E k : proposals' = proposals \cup {<<k, Op(h)>>}
    BY <1>3 DEF Propose
  <2>3. AwaitedPut(Op(h)) /\ Op(h) \in Ops
    BY <2>2, CallsFacts DEF HandlersAreAwaited, Awaited, AwaitedPut, Op
  <2>4. \A e \in Logged' : e \in Logged \/ e = Op(h)
    BY <2>2 DEF Logged
  <2>5. \A m \in 1..Len(committed) :
          Op(h)[1] = committed[m][1] => ~(Op(h)[2] < committed[m][2])
    <3>1. TAKE m \in 1..Len(committed)
    <3>2. HAVE Op(h)[1] = committed[m][1]
    <3>3. committed[m][2] <= Op(h)[2]
      BY <1>0, <2>3, <3>2, AwaitedIsLatest
    <3>4. committed[m][2] \in Nat /\ Op(h)[2] \in Nat
      BY <1>0, <2>3, OpTypes
    <3> QED
      BY <3>3, <3>4
  <2> QED
    BY <2>1, <2>4, <2>5 DEF EarlierFirst
<1>4. ASSUME NEW h \in calls, MovesOn(h) \/ Ends(h)
      PROVE  UNCHANGED <<committed, proposals>>
  BY <1>4 DEF MovesOn, Register, GiveUp, WaitApplied, Ends, Refuse, Pop, AfterTimeout,
              ExecuteGetOp, WaitAppliedTimeout, raftVars
<1>5. ASSUME NEW c \in Client, NEW kind \in Kinds, Call(c, kind)
      PROVE  UNCHANGED <<committed, proposals>>
  BY <1>5 DEF Call, raftVars
<1>6. ASSUME NEW i \in Node, CheckCommand(i) \/ ExecutePutOp(i) \/ TryPush2Wait(i)
      PROVE  UNCHANGED <<committed, proposals>>
  BY <1>6 DEF CheckCommand, ExecutePutOp, TryPush2Wait, raftVars
<1>7. UNCHANGED sessionVars => UNCHANGED <<committed, proposals>>
  BY DEF sessionVars
<1> QED
  BY <1>1, <1>2, <1>3, <1>4, <1>5, <1>6, <1>7, SessionSteps, Zenon

\* The server that answers a put has the earlier ones of its client, too.
LEMMA HasEarlier ==
  ASSUME TypeOK, ServerInv, HandedInOrder, NoSnapshots, EarlierFirst, NEW i \in Node, Complete(i),
         NEW op \in Elements(writes[i]), NEW a \in Logged, a[1] = op[1], a[2] < op[2]
  PROVE  a \in Elements(writes[i])
<1>1. PICK m \in 1..InTable(i) : committed[m] = op
  BY DEF Complete
<1>2. InTable(i) \in 0..Len(committed) /\ Len(committed) \in Nat
  BY TableBehindLog DEF NoSnapshots, ServerInv
<1>3. m \in 1..Len(committed)
  BY <1>2
<1>4. PICK k \in 1..(m - 1) : committed[k] = a
  BY <1>1, <1>3 DEF EarlierFirst
<1>5. k \in 1..InTable(i)
  BY <1>2
<1> QED
  BY <1>4, <1>5 DEF Complete

LEMMA NextAtLeader ==
  ASSUME TypeOK, ServerInv, HandedInOrder, NoSnapshots, HandlersAreAwaited, EarlierFirst,
         AckedAtLeader, \A i \in Node : Complete(i), [Next]_vars, failures' = 0
  PROVE  AckedAtLeader'
<1>0. \A i \in Node : Elements(writes[i]) \subseteq Elements(writes[i])'
  BY WritesGrow DEF ServerInv
<1>1. \A a \in acked : a \in Ops /\ a[1] \in Client
  BY CallFacts, OpTypes DEF TypeOK
<1>2. leaderId \in [Client -> Node]
  BY CallFacts DEF TypeOK
<1>3. CASE UNCHANGED <<acked, leaderId>>
  BY <1>0, <1>1, <1>2, <1>3 DEF AckedAtLeader
<1>4. ASSUME NEW h \in calls, Returned(h)
      PROVE  AckedAtLeader'
  <2>1. h.client \in Client /\ h.node \in Node /\ Op(h) \in Ops
    BY CallsFacts
  <2>2. /\ leaderId'[h.client] = h.node
        /\ \A d \in Client : d # h.client => leaderId'[d] = leaderId[d]
    BY <1>2, <1>4, <2>1 DEF Returned
  <2>3. Op(h)[1] = h.client /\ Op(h)[2] = h.req
    BY DEF Op
  <2>4. ASSUME NEW a \in acked, a[1] = h.client, h.kind = "put"
        PROVE  a \in Elements(writes[h.node])
    <3>1. AwaitedPut(Op(h)) /\ Op(h) \in Elements(writes[h.node])
      BY <1>4, <2>3, <2>4 DEF HandlersAreAwaited, Awaited, AwaitedPut, Returned
    <3>2. a \in Elements(committed) /\ a \in Logged /\ a \in Ops
      BY <1>1, AckedIsCommitted, CommittedIsLogged
    <3>3. Known(a)
      BY <3>2, CommittedKnown DEF ServerInv
    <3>4. a[2] <= Op(h)[2]
      BY <2>1, <2>3, <2>4, <3>1, <3>2, <3>3, AwaitedIsLatest
    <3>5. a = <<a[1], a[2]>> /\ a[2] \in Nat /\ Op(h)[2] \in Nat
      BY <2>1, <3>2, OpTypes
    <3>6. a[2] < Op(h)[2] \/ a = Op(h)
      BY <2>3, <2>4, <3>4, <3>5 DEF Op
    <3> QED
      BY <2>1, <2>3, <2>4, <3>1, <3>2, <3>6, HasEarlier
  <2>5. ASSUME NEW a \in acked, a[1] = h.client, h.kind # "put"
        PROVE  a \in Elements(writes[h.node])
    <3>1. h.kind = "get"
      BY <2>5, CallsFacts, HandlerFields, KvAssumption
    <3> QED
      BY <2>5, <3>1 DEF HandlersAreAwaited, AckedAtLeader
  <2>6. ASSUME NEW a \in acked'
        PROVE  a \in Elements(writes'[leaderId'[a[1]]])
    <3>1. CASE a \notin acked
      <4>1. a = Op(h) /\ h.kind = "put"
        BY <1>4, <2>6, <3>1 DEF Returned
      <4> QED
        BY <1>0, <1>4, <2>1, <2>2, <2>3, <4>1 DEF Returned
    <3>2. CASE a \in acked /\ a[1] = h.client
      BY <1>0, <2>1, <2>2, <2>4, <2>5, <3>2
    <3>3. CASE a \in acked /\ a[1] # h.client
      BY <1>0, <1>1, <1>2, <2>2, <3>3 DEF AckedAtLeader
    <3> QED
      BY <3>1, <3>2, <3>3
  <2> QED
    BY <2>6 DEF AckedAtLeader
<1>5. ASSUME NEW h \in calls, Ends(h)
      PROVE  AckedAtLeader'
  BY <1>3, <1>4, <1>5, SessionEnds DEF Unanswered, Redirected, clerkVars
<1>6. ASSUME NEW h \in calls, Propose(h) \/ MovesOn(h)
      PROVE  UNCHANGED <<acked, leaderId>>
  BY <1>6, SameCall DEF clerkVars, history
<1>7. ASSUME NEW c \in Client, NEW kind \in Kinds, Call(c, kind)
      PROVE  UNCHANGED <<acked, leaderId>>
  BY <1>7 DEF Call, history
<1>8. ASSUME NEW i \in Node, CheckCommand(i) \/ ExecutePutOp(i) \/ TryPush2Wait(i)
      PROVE  UNCHANGED <<acked, leaderId>>
  BY <1>8 DEF CheckCommand, ExecutePutOp, TryPush2Wait, clerkVars, history
<1>9. Commit \/ UNCHANGED sessionVars => UNCHANGED <<acked, leaderId>>
  BY DEF Commit, sessionVars, clerkVars, history
<1> QED
  BY <1>3, <1>5, <1>6, <1>7, <1>8, <1>9, SessionSteps, Zenon

LEMMA CommitComplete ==
  ASSUME TypeOK, ServerInv, HandedInOrder, NoSnapshots, NEW i \in Node, Complete(i), Commit
  PROVE  Complete(i)'
<1>1. UNCHANGED <<writes, lastRequestId, loop, executed, proposals>>
  BY DEF Commit, serverVars, history
<1>2. PICK k \in 0..Len(committed) : k = InTable(i) /\ k = InTable(i)'
  BY <1>1, TableBehindLog DEF InTable, NoSnapshots, ServerInv
<1>3. Len(committed) \in Nat /\ \A n \in 1..Len(committed) : committed'[n] = committed[n]
  <2>1. [Next]_vars
    BY DEF Next
  <2> QED
    BY <2>1, CommittedPrefix, LenProperties DEF TypeOK, CoreTypes
<1>4. \A n \in 1..k : committed'[n] = committed[n]
  BY <1>2, <1>3
<1>5. Elements(writes[i])' = {committed'[n] : n \in 1..k}
  BY <1>1, <1>2, <1>4 DEF Complete
<1>6. loop[i].step = "checked" => committed'[loop[i].index] = committed[loop[i].index]
  BY <1>3 DEF ServerInv, IndexesInv, HandsUpCommitted
<1> QED
  BY <1>1, <1>2, <1>5, <1>6 DEF Complete, Logged

LEMMA CheckComplete ==
  ASSUME TypeOK, ServerInv, IndexesInv', NEW i \in Node, Complete(i), CheckCommand(i)
  PROVE  Complete(i)'
<1>1. PICK k : k = Head(queue[i])[2]
  OBVIOUS
<1>2. PICK dup : dup = DuplicateRequest(i, committed[k])
  OBVIOUS
<1>3. /\ loop[i] = Idle
      /\ loop' = [loop EXCEPT ![i] = [step |-> "checked", index |-> k, duplicate |-> dup]]
      /\ UNCHANGED <<committed, proposals, writes, lastRequestId, executed>>
  BY <1>1, <1>2 DEF CheckCommand, raftVars, serverVars, history
<1>4. loop'[i] = [step |-> "checked", index |-> k, duplicate |-> dup]
  BY <1>3 DEF TypeOK, LoopTypes
<1>5. loop'[i].step = "checked" /\ loop'[i].index = k /\ loop'[i].duplicate = dup
  BY <1>4
<1>6. InTable(i)' = InTable(i)
  BY <1>3, <1>5 DEF InTable, Idle
<1>7. committed[k] \in Logged
  <2>1. k \in 1..Len(committed)
    BY <1>3, <1>5 DEF IndexesInv, HandsUpCommitted
  <2> QED
    BY <2>1, CommittedIsLogged
<1>8. dup => committed[k] \in Elements(writes[i])
  BY <1>2, <1>7 DEF Complete, DuplicateRequest
<1> QED
  BY <1>3, <1>5, <1>6, <1>8 DEF Complete, Logged

LEMMA PushComplete ==
  ASSUME TypeOK, NEW i \in Node, Complete(i), TryPush2Wait(i)
  PROVE  Complete(i)'
<1>1. /\ loop[i].step = "executed"
      /\ loop' = [loop EXCEPT ![i] = Idle]
      /\ executed' = [executed EXCEPT ![i] = loop[i].index]
      /\ UNCHANGED <<committed, proposals, writes, lastRequestId>>
  BY DEF TryPush2Wait, serverVars
<1>2. loop'[i].step = "idle" /\ executed'[i] = loop[i].index
  BY <1>1 DEF TypeOK, LoopTypes, Idle
<1>3. InTable(i)' = InTable(i)
  BY <1>1, <1>2 DEF InTable
<1> QED
  BY <1>1, <1>2, <1>3 DEF Complete, Logged

\* The put that is executed is new, or in the table; its client's earlier ones are there.
LEMMA ExecuteComplete ==
  ASSUME TypeOK, ServerInv, HandedInOrder, NoSnapshots, EarlierFirst, NEW i \in Node, Complete(i),
         ExecutePutOp(i)
  PROVE  Complete(i)'
<1>1. loop[i].step = "checked" /\ loop' = [loop EXCEPT ![i].step = "executed"]
      /\ UNCHANGED <<committed, executed, proposals>>
  BY DEF ExecutePutOp, raftVars, history
<1>2. PICK k \in Nat : k = executed[i]
  BY TableBehindLog DEF NoSnapshots, ServerInv
<1>3. loop[i].index = k + 1
  BY <1>1, <1>2, TakenIsNext DEF NoSnapshots
<1>4. k + 1 \in 1..Len(committed)
  BY <1>1, <1>3 DEF ServerInv, IndexesInv, HandsUpCommitted
<1>5. PICK op \in Ops : op = committed[k + 1]
  BY <1>1, <1>3, LoopCommand DEF ServerInv
<1>6. op[1] \in Client /\ op[2] \in Nat /\ op = <<op[1], op[2]>>
  BY OpTypes
<1>7. loop'[i].step = "executed" /\ loop'[i].index = k + 1
  BY <1>1, <1>3 DEF TypeOK, LoopTypes
<1>8. InTable(i) = k /\ InTable(i)' = k + 1
  BY <1>1, <1>2, <1>7 DEF InTable
<1>9. Elements(writes[i]) = {committed[n] : n \in 1..k}
  BY <1>8 DEF Complete
<1>10. {committed[n] : n \in 1..(k + 1)} = Elements(writes[i]) \cup {op}
  <2>1. \A n : n \in 1..(k + 1) <=> n \in 1..k \/ n = k + 1
    BY <1>2
  <2> QED
    BY <1>5, <1>9, <2>1
<1>11. \/ Elements(writes[i])' = Elements(writes[i]) /\ loop[i].duplicate
       \/ Elements(writes[i])' = Elements(writes[i]) \cup {op}
  BY <1>3, <1>5, ExecutedElements DEF ServerInv
<1>12. loop[i].duplicate => op \in Elements(writes[i])
  BY <1>1, <1>3, <1>5 DEF Complete
<1>13. Elements(writes[i])' = Elements(writes[i]) \cup {op}
  BY <1>11, <1>12
<1>14. UNCHANGED lastRequestId \/ SetsLatest(i, op[1], op[2])
  BY <1>3, <1>5 DEF ExecutePutOp, SetsLatest, serverVars
<1>15. ASSUME NEW e \in Logged, e[2] <= lastRequestId'[i][e[1]]
       PROVE  e \in Elements(writes[i]) \cup {op}
  <2>1. e \in Ops /\ e[1] \in Client /\ e[2] \in Nat /\ e = <<e[1], e[2]>>
    BY ProposalTypes, OpTypes DEF Logged
  <2>2. CASE lastRequestId'[i][e[1]] = lastRequestId[i][e[1]]
    BY <1>15, <2>2 DEF Complete
  <2>3. CASE lastRequestId'[i][e[1]] # lastRequestId[i][e[1]]
    <3>1. e[1] = op[1] /\ e[2] <= op[2]
      BY <1>6, <1>14, <1>15, <2>1, <2>3, LatestEntry
    <3>2. CASE e[2] = op[2]
      BY <1>6, <2>1, <3>1, <3>2
    <3>3. CASE e[2] < op[2]
      <4>1. \E n \in 1..((k + 1) - 1) : committed[n] = e
        BY <1>4, <1>5, <3>1, <3>3 DEF EarlierFirst
      <4>2. (k + 1) - 1 = k
        BY <1>2
      <4> QED
        BY <1>9, <4>1, <4>2
    <3> QED
      BY <1>6, <2>1, <3>1, <3>2, <3>3
  <2> QED
    BY <2>2, <2>3
<1> QED
  BY <1>1, <1>7, <1>8, <1>10, <1>13, <1>15 DEF Complete, Logged

LEMMA ProposeComplete ==
  ASSUME TypeOK, ServerInv, HandlersAreAwaited, NEW i \in Node, Complete(i), NEW h \in calls,
         Propose(h)
  PROVE  Complete(i)'
<1>1. UNCHANGED <<committed, writes, lastRequestId, loop, executed>>
  BY DEF Propose, applyVars, serverVars, history
<1>2. h.kind = "put" /\ \E k : proposals' = proposals \cup {<<k, Op(h)>>}
  BY DEF Propose
<1>3. AwaitedPut(Op(h)) /\ Op(h) \in Ops /\ Known(Op(h))
  BY <1>2, CallsFacts, CallsKnown
     DEF HandlersAreAwaited, Awaited, AwaitedPut, Op, ServerInv, HandlerInv
<1>4. \A e \in Logged' : e \in Logged \/ e = Op(h)
  BY <1>2 DEF Logged
<1>5. DuplicateRequest(i, Op(h)) => Op(h) \in Elements(writes[i])
  BY <1>3, LatestServed DEF Served, ServerInv
<1>6. \A e \in Logged' : e[2] <= lastRequestId[i][e[1]] => e \in Elements(writes[i])
  BY <1>4, <1>5 DEF Complete, DuplicateRequest
<1>7. InTable(i)' = InTable(i)
  BY <1>1 DEF InTable
<1> QED
  BY <1>1, <1>6, <1>7 DEF Complete

\* A get at the server that answered its client last hides no put.
LEMMA GetComplete ==
  ASSUME TypeOK, ServerInv, HandlersAreAwaited, EarlierAcked, AckedAtLeader, NEW i \in Node,
         Complete(i), NEW h \in calls, ExecuteGetOp(h)
  PROVE  Complete(i)' /\ UNCHANGED unseen
<1>1. /\ SetsLatest(h.node, h.client, h.req)
      /\ UNCHANGED <<committed, proposals, loop, writes, executed>>
  BY DEF ExecuteGetOp, SetsLatest, raftVars
<1>2. h.client \in Client /\ h.node \in Node
  BY CallsFacts
<1>3. h.kind = "get" /\ h.node = leaderId[h.client] /\ call[h.client].kind = "get"
  BY CallsKnown DEF ExecuteGetOp, HandlersAreAwaited, Awaited, HandlerInv, ServerInv
<1>4. ASSUME NEW a \in acked, a[1] = h.client
      PROVE  a \in Elements(writes[h.node])
  BY <1>3, <1>4 DEF AckedAtLeader
<1>5. ASSUME NEW e \in Logged, e[2] <= lastRequestId'[i][e[1]]
      PROVE  e \in Elements(writes[i])
  <2>1. e[1] \in Client
    BY ProposalTypes DEF Logged
  <2>2. CASE i = h.node /\ e[1] = h.client
    <3>1. ~AwaitedPut(e)
      BY <1>3, <2>2 DEF AwaitedPut
    <3> QED
      BY <1>4, <2>2, <3>1 DEF EarlierAcked
  <2>3. CASE ~(i = h.node /\ e[1] = h.client)
    BY <1>1, <1>2, <1>5, <2>1, <2>3, LatestEntry DEF Complete
  <2> QED
    BY <2>2, <2>3
<1>6. InTable(i)' = InTable(i)
  BY <1>1 DEF InTable
<1>7. Complete(i)'
  BY <1>1, <1>5, <1>6 DEF Complete, Logged
<1>8. UNCHANGED unseen
  BY <1>4 DEF ExecuteGetOp
<1> QED
  BY <1>7, <1>8

completeVars(i) == <<tableVars(i), committed, proposals>>

LEMMA CompleteFrame ==
  ASSUME NEW i \in Node, Complete(i), UNCHANGED completeVars(i)
  PROVE  Complete(i)'
<1>1. UNCHANGED <<writes[i], lastRequestId[i], loop[i], executed[i], committed, proposals>>
  BY DEF completeVars, tableVars
<1> QED
  BY <1>1 DEF Complete, InTable, Logged

\* What the loop of another server does leaves the table of i alone.
LEMMA OtherTable ==
  ASSUME TypeOK, NEW i \in Node, NEW j \in Node, j # i,
         CheckCommand(j) \/ ExecutePutOp(j) \/ TryPush2Wait(j)
  PROVE  UNCHANGED completeVars(i)
<1>1. UNCHANGED <<loop[i], executed[i]>>
  BY DEF CheckCommand, ExecutePutOp, TryPush2Wait, TypeOK, LoopTypes, history
<1>2. UNCHANGED <<committed, proposals>>
  BY DEF CheckCommand, ExecutePutOp, TryPush2Wait, raftVars
<1>3. UNCHANGED <<writes[i], lastRequestId[i]>>
  BY DEF CheckCommand, ExecutePutOp, TryPush2Wait, TypeOK, LoopTypes, serverVars
<1> QED
  BY <1>1, <1>2, <1>3 DEF completeVars, tableVars

LEMMA NextComplete ==
  ASSUME TypeOK, ServerInv, IndexesInv', HandedInOrder, NoSnapshots, Session, [Next]_vars,
         failures' = 0
  PROVE  (\A i \in Node : Complete(i))' /\ UNCHANGED unseen
<1>1. /\ HandlersAreAwaited /\ EarlierAcked /\ EarlierFirst /\ AckedAtLeader
      /\ \A i \in Node : Complete(i)
  BY DEF Session
<1> DEFINE Done == (\A i \in Node : Complete(i)') /\ UNCHANGED unseen
<1>2. ASSUME UNCHANGED <<committed, proposals, loop, executed, writes, lastRequestId, unseen>>
      PROVE  Done
  <2>1. \A i \in Node : UNCHANGED completeVars(i)
    BY <1>2 DEF completeVars, tableVars
  <2> QED
    BY <1>1, <1>2, <2>1, CompleteFrame
<1>3. ASSUME Commit
      PROVE  Done
  <2>1. \A i \in Node : Complete(i)'
    BY <1>1, <1>3, CommitComplete
  <2> QED
    BY <1>3, <2>1 DEF Commit, history
<1>4. ASSUME NEW j \in Node, CheckCommand(j) \/ ExecutePutOp(j) \/ TryPush2Wait(j)
      PROVE  Done
  <2>1. Complete(j)'
    BY <1>1, <1>4, CheckComplete, ExecuteComplete, PushComplete
  <2>2. \A i \in Node : i # j => Complete(i)'
    BY <1>1, <1>4, OtherTable, CompleteFrame
  <2>3. UNCHANGED unseen
    BY <1>4 DEF CheckCommand, ExecutePutOp, TryPush2Wait, history
  <2> QED
    BY <2>1, <2>2, <2>3
<1>5. ASSUME NEW c \in Client, NEW kind \in Kinds, Call(c, kind)
      PROVE  Done
  <2>1. UNCHANGED <<raftVars, loop, serverVars, history>>
    BY <1>5 DEF Call
  <2> QED
    BY <1>2, <2>1 DEF raftVars, serverVars, history
<1>6. ASSUME NEW h \in calls, Propose(h)
      PROVE  Done
  <2>1. \A i \in Node : Complete(i)'
    BY <1>1, <1>6, ProposeComplete
  <2> QED
    BY <1>6, <2>1, SameCall DEF history
<1>7. ASSUME NEW h \in calls, MovesOn(h)
      PROVE  Done
  <2>1. UNCHANGED <<raftVars, loop, serverVars>>
    BY <1>7 DEF MovesOn, Register, GiveUp, WaitApplied
  <2>2. UNCHANGED history
    BY <1>7, SameCall
  <2> QED
    BY <1>2, <2>1, <2>2 DEF raftVars, serverVars, history
<1>8. ASSUME NEW h \in calls, Ends(h)
      PROVE  Done
  <2>1. CASE ExecuteGetOp(h)
    <3>1. \A i \in Node : Complete(i)' /\ UNCHANGED unseen
      BY <1>1, <2>1, GetComplete
    <3> QED
      BY <3>1, NodeFacts
  <2>2. CASE ~ExecuteGetOp(h)
    <3>1. UNCHANGED <<raftVars, loop, serverVars>>
      BY <1>8, <2>2, Zenon DEF Ends, Refuse, Pop, AfterTimeout, WaitAppliedTimeout
    <3>2. UNCHANGED history \/ UNCHANGED <<executed, unseen>>
      BY <1>8, <2>2 DEF Ends, Refuse, Pop, AfterTimeout, WaitAppliedTimeout
    <3> QED
      BY <1>2, <3>1, <3>2 DEF raftVars, serverVars, history
  <2> QED
    BY <2>1, <2>2
<1>9. ASSUME UNCHANGED sessionVars
      PROVE  Done
  BY <1>2, <1>9 DEF sessionVars
<1> HIDE DEF Done
<1>10. Done
  BY <1>3, <1>4, <1>5, <1>6, <1>7, <1>8, <1>9, SessionSteps, Zenon
<1> QED
  BY <1>10 DEF Done

LEMMA NextSession ==
  ASSUME ~TakesSnapshots, TypeOK, ServerInv, ServerInv', HandedInOrder, SessionInv, [Next]_vars
  PROVE  SessionInv'
<1>1. NoSnapshots'
  BY NextNoSnapshots DEF SessionInv
<1>2. ASSUME failures' = 0
      PROVE  Session'
  <2>1. NoSnapshots /\ Session
    BY <1>2, FailuresStay DEF SessionInv
  <2>2. /\ HandlersAreAwaited /\ EarlierAcked /\ EarlierFirst /\ AckedAtLeader
        /\ (\A i \in Node : Complete(i)) /\ unseen = {} /\ IndexesInv'
    BY <2>1 DEF Session, ServerInv
  <2>3. (HandlersAreAwaited /\ EarlierAcked /\ EarlierFirst /\ AckedAtLeader)'
    BY <1>2, <2>1, <2>2, NextHandlers, NextEarlier, NextEarlierFirst, NextAtLeader
  <2>4. (\A i \in Node : Complete(i))' /\ UNCHANGED unseen
    BY <1>2, <2>1, <2>2, NextComplete
  <2> QED
    BY <2>2, <2>3, <2>4 DEF Session
<1> QED
  BY <1>1, <1>2 DEF SessionInv

LEMMA InitSession == Init => SessionInv
<1> SUFFICES ASSUME Init
             PROVE  SessionInv
  OBVIOUS
<1>1. \A i \in Node : /\ queue[i] = <<>> /\ loop[i].step = "idle" /\ executed[i] = 0
                      /\ writes[i] = <<>> /\ shot[i] = 0 /\ Up(i)
  BY DEF Init, Idle, Up
<1>2. NoSnapshots
  <2>1. ASSUME NEW i \in Node
        PROVE  ~Behind(i)
    <3>1. pushers = {} /\ queue[i] = <<>>
      BY <1>1 DEF Init
    <3> QED
      BY <3>1 DEF Behind, SnapshotAt, Contains
  <2> QED
    BY <1>1, <2>1 DEF NoSnapshots
<1>3. calls = {} /\ proposals = {} /\ committed = <<>> /\ acked = {} /\ unseen = {}
  BY DEF Init
<1>4. Logged = {}
  BY <1>3 DEF Logged
<1>5. ASSUME NEW i \in Node
      PROVE  Complete(i)
  <2>1. InTable(i) = 0 /\ Elements(writes[i]) = {}
    BY <1>1 DEF InTable, Elements
  <2> QED
    BY <1>1, <1>4, <2>1 DEF Complete
<1>6. HandlersAreAwaited /\ EarlierAcked /\ EarlierFirst /\ AckedAtLeader
  BY <1>3, <1>4 DEF HandlersAreAwaited, EarlierAcked, EarlierFirst, AckedAtLeader
<1> QED
  BY <1>2, <1>3, <1>5, <1>6 DEF SessionInv, Session

\* _L_put, _L_get, clerk::get: as long as no connection fails and nobody takes snapshots, a
\* clerk has one handler, its puts are logged and executed in its order, and the server that
\* answered it last has all that returned to it; however many clients, servers, elections and
\* timeouts there are.
THEOREM SessionKept ==
  ASSUME ~TakesSnapshots
  PROVE  Spec => []SessionInv
<1>1. Init => SessionInv
  BY InitSession
<1>2. /\ TypeOK /\ ServerInv /\ (TypeOK /\ ServerInv)' /\ HandedInOrder /\ SessionInv
      /\ [Next]_vars
      => SessionInv'
  BY NextSession
<1> QED
  BY <1>1, <1>2, ServerKept, HandedUpInOrder, PTL DEF Spec

\* Without snapshots, and until a connection fails, a client that gets reads a table with all
\* its own puts in it, whichever server it asks.
THEOREM ClientsReadTheirPuts ==
  ASSUME ~TakesSnapshots
  PROVE  Spec => []ReadYourWrites
<1>1. SessionInv => ReadYourWrites
  BY DEF SessionInv, Session, ReadYourWrites
<1> QED
  BY <1>1, SessionKept, PTL
=============================================================================
