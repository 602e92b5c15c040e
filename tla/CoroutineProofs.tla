-------------------------- MODULE CoroutineProofs --------------------------
(***************************************************************************)
(* Proof of the safety properties of the coroutine library, for every      *)
(* number of coroutines, sockets, calls and timers.                        *)
(***************************************************************************)
EXTENDS Coroutines, Integers, TLAPS, SequenceTheorems, FiniteSetTheorems

(***************************************************************************)
(* The inductive invariant: the properties themselves and what the steps   *)
(* of the worker rely on.                                                  *)
(***************************************************************************)
WellFormed(t) ==
  /\ t \in TaskType
  /\ t.kind \in {"resume", "wake", "timeout"} => t.co \in Coroutine
  /\ t.kind \in {"tick", "watch"} => t.co = Nil
  /\ t.kind \in {"timeout", "watch"} => t.fd \in Fd /\ t.ev \in event

\* What the queue, the timers and the worker hold fits what they do with it.
ShapeInv ==
  /\ \A i \in DOMAIN tasks : WellFormed(tasks[i])
  /\ \A i \in DOMAIN timers : WellFormed(timers[i]) /\ timers[i].kind # "resume"
  /\ pc \in {"run", "callback"} => WellFormed(cur)
  /\ pc = "run" => cur.kind = "resume"
  /\ pc = "callback" => cur.kind # "resume"

\* A coroutine runs while the worker runs it, and waits in a call only when it has yielded in
\* it or has just been resumed.
StateInv == \A c \in Coroutine :
  /\ state[c] = "RUNNING" <=> Running(c)
  /\ state[c] \in {"none", "TERM"} => wait[c] = NoCall
  /\ wait[c].call = "none" => wait[c] = NoCall
  /\ wait[c].call \in {"io", "connect"} => wait[c].fd \in Fd /\ wait[c].ev \in event

\* The timers that main has added, which it can do only beside a worker of its own.
MainsTimers == \A i \in DOMAIN timers : timers[i].kind = "tick" /\ ~asWorker

\* Main stops the worker once.  Where the worker has found no timer only main has added some
\* since, and nothing else is left when the idle coroutine ends.
StopInv ==
  /\ pc = "off" <=> asWorker /\ main \in {"free", "stop"}
  /\ stopped <=> main \notin {"free", "stop"}
  /\ pc = "end" => idleOver
  /\ pc = "decide" /\ seen = Nil => MainsTimers
  /\ idleOver => /\ pc \in {"take", "end"} /\ stopped
                 /\ seen = Nil /\ tasks = <<>> /\ MainsTimers /\ pending = 0

\* A coroutine has at most one timer, that of the call it is in.
Distinct(s) == \A i, j \in DOMAIN s : s[i].co = s[j].co /\ s[i].co # Nil => i = j
TimerInv ==
  /\ Distinct(timers)
  /\ \A i \in DOMAIN timers : timers[i].co # Nil => wait[timers[i].co] # NoCall

\* A time-out is never that of a later call.
PastCalls ==
  /\ \A i \in DOMAIN timers : timers[i].kind = "timeout" => timers[i].call <= used[timers[i].co]
  /\ \A i \in DOMAIN tasks : tasks[i].kind = "timeout" => tasks[i].call <= used[tasks[i].co]

\* A queued time-out that is not too late runs before what resumes its coroutine.
OrderInv == \A i \in DOMAIN tasks :
  tasks[i].kind = "timeout" /\ Live(tasks[i]) =>
    /\ state[tasks[i].co] # "RUNNING"
    /\ \A j \in DOMAIN tasks : Resumes(tasks[j], tasks[i].co) => j > i

\* Since the worker found the queue empty only main has added to it.
IdleQueue == pc \in {"idle", "check", "decide", "wait"} =>
  \A i \in DOMAIN tasks : tasks[i].kind = "resume" /\ wait[tasks[i].co] = NoCall

\* The flag of a new front timer stands for a byte in the pipe.
TickledPipe == pc \in {"decide", "wait"} /\ tickled => pipe

IInv ==
  /\ TypeOK /\ ShapeInv /\ StateInv /\ StopInv /\ TimerInv /\ PastCalls
  /\ OneWaker /\ PendingCounted /\ OrderInv /\ OwnTimeout /\ IdleQueue
  /\ TickledPipe /\ NoMissedTimer

-----------------------------------------------------------------------------
\* Sequences of tasks: the pieces that the actions cut them into.

LEMMA TaskSeqFacts ==
  ASSUME NEW s \in Seq(TaskType)
  PROVE  /\ Len(s) \in Nat /\ DOMAIN s = 1 .. Len(s)
         /\ \A i \in DOMAIN s : s[i] \in TaskType
         /\ s = <<>> <=> Len(s) = 0
<1>1. Len(s) \in Nat /\ DOMAIN s = 1 .. Len(s) /\ s \in [1 .. Len(s) -> TaskType]
  BY LenProperties
<1>2. s # <<>> => Len(s) # 0
  BY EmptySeq
<1>3. Len(<<>>) = 0
  BY EmptySeq
<1> QED
  BY <1>1, <1>2, <1>3

LEMMA ConcatFacts ==
  ASSUME NEW s \in Seq(TaskType), NEW t \in Seq(TaskType)
  PROVE  /\ s \o t \in Seq(TaskType)
         /\ DOMAIN (s \o t) = 1 .. Len(s) + Len(t)
         /\ Len(s \o t) = Len(s) + Len(t)
         /\ \A i \in DOMAIN s : (s \o t)[i] = s[i]
         /\ \A i \in DOMAIN t : (s \o t)[Len(s) + i] = t[i]
         /\ \A i \in DOMAIN (s \o t) : i \in DOMAIN s \/ \E j \in DOMAIN t : i = Len(s) + j
<1>1. /\ s \o t \in Seq(TaskType) /\ Len(s \o t) = Len(s) + Len(t)
      /\ \A i \in 1 .. Len(s) + Len(t) :
           (s \o t)[i] = IF i <= Len(s) THEN s[i] ELSE t[i - Len(s)]
  BY ConcatProperties
<1>2. /\ Len(s) \in Nat /\ DOMAIN s = 1 .. Len(s)
      /\ Len(t) \in Nat /\ DOMAIN t = 1 .. Len(t)
      /\ DOMAIN (s \o t) = 1 .. Len(s \o t)
  BY <1>1, TaskSeqFacts
<1> DEFINE m == Len(s)
           n == Len(t)
           u == s \o t
<1>3. \A i \in 1 .. m + n : u[i] = IF i <= m THEN s[i] ELSE t[i - m]
  BY <1>1
<1>4. m \in Nat /\ n \in Nat
  BY <1>2
<1>a. DOMAIN s = 1 .. m /\ DOMAIN t = 1 .. n /\ DOMAIN u = 1 .. m + n
  BY <1>1, <1>2
<1> HIDE DEF m, n, u
<1>5. \A i \in 1 .. m : u[i] = s[i]
  BY <1>3, <1>4
<1>6. \A i \in 1 .. n : u[m + i] = t[i]
  <2> TAKE i \in 1 .. n
  <2>1. PICK k \in 1 .. m + n : k = m + i /\ ~(k <= m) /\ k - m = i
    BY <1>4
  <2> QED
    BY <2>1, <1>3
<1>7. \A i \in 1 .. m + n : i \in 1 .. m \/ \E j \in 1 .. n : i = m + j
  <2> TAKE i \in 1 .. m + n
  <2>1. i \notin 1 .. m => i - m \in 1 .. n /\ i = m + (i - m)
    BY <1>4
  <2> QED
    BY <2>1
<1> QED
  BY <1>1, <1>a, <1>5, <1>6, <1>7 DEF m, n, u

LEMMA OneTaskFacts ==
  ASSUME NEW t \in TaskType
  PROVE  <<t>> \in Seq(TaskType) /\ Len(<<t>>) = 1 /\ DOMAIN <<t>> = {1} /\ <<t>>[1] = t
OBVIOUS

LEMMA EmptyTasks == <<>> \in Seq(TaskType) /\ Len(<<>>) = 0 /\ DOMAIN <<>> = {}
<1>1. <<>> \in Seq(TaskType) /\ Len(<<>>) = 0
  BY EmptySeq
<1> QED
  BY <1>1, TaskSeqFacts

LEMMA SplitFacts ==
  ASSUME NEW s \in Seq(TaskType), NEW n \in 0 .. Len(s)
  PROVE  /\ SubSeq(s, 1, n) \in Seq(TaskType)
         /\ SubSeq(s, n + 1, Len(s)) \in Seq(TaskType)
         /\ s = SubSeq(s, 1, n) \o SubSeq(s, n + 1, Len(s))
         /\ Len(SubSeq(s, 1, n)) = n /\ DOMAIN SubSeq(s, 1, n) = 1 .. n
         /\ \A i \in 1 .. n : SubSeq(s, 1, n)[i] = s[i]
         /\ Len(SubSeq(s, n + 1, Len(s))) = Len(s) - n
         /\ DOMAIN SubSeq(s, n + 1, Len(s)) = 1 .. Len(s) - n
         /\ \A i \in 1 .. Len(s) - n : SubSeq(s, n + 1, Len(s))[i] = s[n + i]
<1>1. Len(s) \in Nat /\ n \in Nat /\ n <= Len(s)
  BY TaskSeqFacts
<1>2. \A i \in 1 .. Len(s) : s[i] \in TaskType
  BY TaskSeqFacts
<1> DEFINE a == SubSeq(s, 1, n)
           b == SubSeq(s, n + 1, Len(s))
           k == n + 1
           l == Len(s)
<1>3. /\ a \in Seq(TaskType)
      /\ Len(a) = IF 1 <= n THEN n - 1 + 1 ELSE 0
      /\ \A i \in 1 .. n - 1 + 1 : a[i] = s[1 + i - 1]
  <2>1. \A i \in 1 .. n : s[i] \in TaskType
    BY <1>1, <1>2
  <2>2. 1 \in Int /\ n \in Int
    BY <1>1
  <2> HIDE DEF a
  <2>3. a = SubSeq(s, 1, n)
    BY DEF a
  <2>4. /\ SubSeq(s, 1, n) \in Seq(TaskType)
        /\ Len(SubSeq(s, 1, n)) = IF 1 <= n THEN n - 1 + 1 ELSE 0
        /\ \A i \in 1 .. n - 1 + 1 : SubSeq(s, 1, n)[i] = s[1 + i - 1]
    BY <2>1, <2>2, SubSeqProperties
  <2> QED
    BY <2>3, <2>4
<1>4. /\ b \in Seq(TaskType)
      /\ Len(b) = IF k <= l THEN l - k + 1 ELSE 0
      /\ \A i \in 1 .. l - k + 1 : b[i] = s[k + i - 1]
  <2>1. (\A i \in k .. l : s[i] \in TaskType) /\ k \in Int /\ l \in Int
    BY <1>1, <1>2
  <2>2. b = SubSeq(s, k, l)
    OBVIOUS
  <2> HIDE DEF k, l, b
  <2>3. /\ SubSeq(s, k, l) \in Seq(TaskType)
        /\ Len(SubSeq(s, k, l)) = IF k <= l THEN l - k + 1 ELSE 0
        /\ \A i \in 1 .. l - k + 1 : SubSeq(s, k, l)[i] = s[k + i - 1]
    BY <2>1, SubSeqProperties
  <2> QED
    BY <2>2, <2>3
<1>5. l \in Nat /\ k = n + 1
  BY <1>1
<1> HIDE DEF k, l, a, b
<1>6. Len(a) = n /\ \A i \in 1 .. n : a[i] = s[i]
  BY <1>1, <1>3
<1>b. n <= l
  BY <1>1 DEF l
<1>7. Len(b) = l - n /\ \A i \in 1 .. l - n : b[i] = s[n + i]
  <2>1. Len(b) = l - n
    BY <1>1, <1>4, <1>5, <1>b
  <2>2. ASSUME NEW i \in 1 .. l - n
        PROVE  b[i] = s[n + i]
    <3>1. i \in 1 .. l - k + 1 /\ k + i - 1 = n + i
      BY <1>1, <1>5
    <3> QED
      BY <3>1, <1>4
  <2> QED
    BY <2>1, <2>2
<1>8. s = a \o b
  <2>1. 1 \in 1 .. Len(s) + 1 /\ n \in 1 - 1 .. Len(s) /\ Len(s) \in n .. Len(s)
    BY <1>1
  <2>2. SubSeq(s, 1, n) \o SubSeq(s, n + 1, Len(s)) = SubSeq(s, 1, Len(s))
    BY <2>1, ConcatAdjacentSubSeq, Zenon
  <2> QED
    BY <2>2, SubSeqFull DEF a, b
<1>9. DOMAIN a = 1 .. n /\ DOMAIN b = 1 .. l - n
  BY <1>3, <1>4, <1>6, <1>7, TaskSeqFacts
<1> QED
  BY <1>3, <1>4, <1>6, <1>7, <1>8, <1>9 DEF a, b, l

LEMMA HeadTailFacts ==
  ASSUME NEW s \in Seq(TaskType), s # <<>>
  PROVE  /\ Head(s) \in TaskType /\ Head(s) = s[1] /\ 1 \in DOMAIN s
         /\ Tail(s) \in Seq(TaskType) /\ s = <<Head(s)>> \o Tail(s)
         /\ DOMAIN Tail(s) = 1 .. Len(s) - 1 /\ Len(s) \in Nat \ {0}
         /\ \A i \in DOMAIN Tail(s) : i + 1 \in DOMAIN s /\ Tail(s)[i] = s[i + 1]
<1>1. /\ Head(s) \in TaskType /\ Tail(s) \in Seq(TaskType) /\ Len(Tail(s)) = Len(s) - 1
      /\ \A i \in 1 .. Len(Tail(s)) : Tail(s)[i] = s[i + 1]
  BY HeadTailProperties
<1>2. Len(s) \in Nat \ {0} /\ DOMAIN s = 1 .. Len(s)
  BY TaskSeqFacts
<1>3. DOMAIN Tail(s) = 1 .. Len(Tail(s))
  BY <1>1, TaskSeqFacts
<1>4. Head(s) = s[1]
  OBVIOUS
<1>5. s = <<Head(s)>> \o Tail(s)
  <2>1. SubSeq(s, 1, Len(s)) = <<s[1]>> \o SubSeq(s, 1 + 1, Len(s))
    <3>1. 1 \in 1 .. Len(s) /\ Len(s) \in 1 .. Len(s)
      BY <1>2
    <3> QED
      BY <3>1, SubSeqRecursiveFirst, Zenon
  <2>2. SubSeq(s, 1, Len(s)) = s /\ Tail(s) = SubSeq(s, 2, Len(s))
    BY SubSeqFull, TailIsSubSeq
  <2> QED
    BY <2>1, <2>2, <1>4
<1>6. \A i \in 1 .. Len(s) - 1 : i + 1 \in 1 .. Len(s)
  BY <1>2
<1>7. 1 \in 1 .. Len(s)
  BY <1>2
<1> QED
  BY <1>1, <1>2, <1>3, <1>4, <1>5, <1>6, <1>7

LEMMA InsertFacts ==
  ASSUME NEW s \in Seq(TaskType), NEW i \in 1 .. Len(s) + 1, NEW t \in TaskType
  PROVE  /\ InsertAt(s, i, t) \in Seq(TaskType)
         /\ InsertAt(s, i, t) = (SubSeq(s, 1, i - 1) \o <<t>>) \o SubSeq(s, i, Len(s))
         /\ DOMAIN InsertAt(s, i, t) = 1 .. Len(s) + 1 /\ Len(InsertAt(s, i, t)) = Len(s) + 1
         /\ \A j \in 1 .. i - 1 : InsertAt(s, i, t)[j] = s[j]
         /\ InsertAt(s, i, t)[i] = t
         /\ \A j \in i + 1 .. Len(s) + 1 : InsertAt(s, i, t)[j] = s[j - 1]
<1>1. Len(s) \in Nat /\ i \in Nat /\ i >= 1 /\ i <= Len(s) + 1
  BY TaskSeqFacts
<1> DEFINE n == i - 1
           a == SubSeq(s, 1, i - 1)
           b == SubSeq(s, i, Len(s))
           l == Len(s)
<1>2. n \in 0 .. l /\ n \in Nat /\ l \in Nat /\ i = n + 1 /\ n <= l
  BY <1>1
<1>3. b = SubSeq(s, n + 1, Len(s)) /\ a = SubSeq(s, 1, n)
  BY <1>2
<1> HIDE DEF n, a, b, l
<1>4. /\ a \in Seq(TaskType) /\ b \in Seq(TaskType)
      /\ Len(a) = n /\ DOMAIN a = 1 .. n /\ \A j \in 1 .. n : a[j] = s[j]
      /\ Len(b) = l - n /\ DOMAIN b = 1 .. l - n /\ \A j \in 1 .. l - n : b[j] = s[n + j]
  BY <1>2, <1>3, SplitFacts DEF l
<1>5. <<t>> \in Seq(TaskType) /\ Len(<<t>>) = 1 /\ DOMAIN <<t>> = {1} /\ <<t>>[1] = t
  BY OneTaskFacts
<1> DEFINE one == <<t>>
           p == a \o one
<1> HIDE DEF one
<1>6. /\ p \in Seq(TaskType) /\ Len(p) = n + 1 /\ DOMAIN p = 1 .. n + 1
      /\ \A j \in 1 .. n : p[j] = s[j]
      /\ p[n + 1] = t
  <2>1. one \in Seq(TaskType) /\ Len(one) = 1 /\ DOMAIN one = {1} /\ one[1] = t
    BY <1>5 DEF one
  <2>2. /\ p \in Seq(TaskType) /\ DOMAIN p = 1 .. Len(a) + Len(one) /\ Len(p) = Len(a) + Len(one)
        /\ \A j \in DOMAIN a : p[j] = a[j]
        /\ \A j \in DOMAIN one : p[Len(a) + j] = one[j]
    BY <2>1, <1>4, ConcatFacts, Zenon
  <2> QED
    BY <2>1, <2>2, <1>4
<1> HIDE DEF p
<1> DEFINE u == p \o b
<1>c. /\ u \in Seq(TaskType) /\ DOMAIN u = 1 .. Len(p) + Len(b) /\ Len(u) = Len(p) + Len(b)
      /\ \A j \in DOMAIN p : u[j] = p[j]
      /\ \A j \in DOMAIN b : u[Len(p) + j] = b[j]
  BY <1>4, <1>6, ConcatFacts, Zenon
<1> HIDE DEF u
<1>7. /\ u \in Seq(TaskType) /\ DOMAIN u = 1 .. (n + 1) + (l - n)
      /\ \A j \in DOMAIN p : u[j] = p[j]
      /\ \A j \in DOMAIN b : u[(n + 1) + j] = b[j]
  BY <1>4, <1>6, <1>c
<1> HIDE DEF u
<1>8. /\ DOMAIN u = 1 .. l + 1
      /\ \A j \in 1 .. n : u[j] = s[j]
      /\ u[n + 1] = t
  <2>1. (n + 1) + (l - n) = l + 1 /\ n + 1 \in 1 .. n + 1 /\ \A j \in 1 .. n : j \in 1 .. n + 1
    BY <1>2
  <2> QED
    BY <2>1, <1>6, <1>7
<1>9. ASSUME NEW j \in (n + 1) + 1 .. l + 1
      PROVE  u[j] = s[j - 1]
  <2>1. PICK k \in 1 .. l - n : j = (n + 1) + k /\ j - 1 = n + k
    <3>1. j - (n + 1) \in 1 .. l - n /\ j = (n + 1) + (j - (n + 1)) /\ j - 1 = n + (j - (n + 1))
      BY <1>2
    <3> QED
      BY <3>1
  <2>2. u[j] = b[k] /\ b[k] = s[n + k]
    BY <2>1, <1>4, <1>7
  <2> QED
    BY <2>1, <2>2
<1>10. InsertAt(s, i, t) = u
  BY DEF InsertAt, u, p, one, a, b
<1>11. u = (SubSeq(s, 1, i - 1) \o <<t>>) \o SubSeq(s, i, Len(s)) /\ n = i - 1 /\ l = Len(s)
  BY DEF u, p, one, a, b, l, n
<1>12. InsertAt(s, i, t) \in Seq(TaskType) /\ DOMAIN InsertAt(s, i, t) = 1 .. Len(s) + 1
  BY <1>7, <1>8, <1>10, <1>11, Zenon
<1>15. Len(InsertAt(s, i, t)) = Len(s) + 1
  <2>1. Len(u) = (n + 1) + (l - n)
    BY <1>4, <1>6, <1>c
  <2>2. Len(u) = l + 1
    BY <2>1, <1>2
  <2> QED
    BY <2>2, <1>10, <1>11, Zenon
<1>13. InsertAt(s, i, t)[i] = t /\ \A j \in 1 .. i - 1 : InsertAt(s, i, t)[j] = s[j]
  BY <1>2, <1>8, <1>10, <1>11, Zenon
<1>14. \A j \in i + 1 .. Len(s) + 1 : InsertAt(s, i, t)[j] = s[j - 1]
  BY <1>2, <1>9, <1>10, <1>11, Zenon
<1> QED
  BY <1>10, <1>11, <1>12, <1>13, <1>14, <1>15, Zenon

LEMMA RemoveFacts ==
  ASSUME NEW s \in Seq(TaskType), NEW i \in DOMAIN s
  PROVE  /\ RemoveAt(s, i) \in Seq(TaskType)
         /\ RemoveAt(s, i) = SubSeq(s, 1, i - 1) \o SubSeq(s, i + 1, Len(s))
         /\ s = (SubSeq(s, 1, i - 1) \o <<s[i]>>) \o SubSeq(s, i + 1, Len(s))
         /\ SubSeq(s, 1, i - 1) \in Seq(TaskType)
         /\ SubSeq(s, i + 1, Len(s)) \in Seq(TaskType)
         /\ s[i] \in TaskType
         /\ DOMAIN RemoveAt(s, i) = 1 .. Len(s) - 1 /\ Len(s) \in Nat \ {0} /\ i \in 1 .. Len(s)
         /\ \A j \in 1 .. i - 1 : RemoveAt(s, i)[j] = s[j]
         /\ \A j \in i .. Len(s) - 1 : RemoveAt(s, i)[j] = s[j + 1]
<1> DEFINE n == i - 1
           l == Len(s)
           a == SubSeq(s, 1, i - 1)
           b == SubSeq(s, i + 1, Len(s))
           r == SubSeq(s, i, Len(s))
<1>1. l \in Nat \ {0} /\ i \in 1 .. l /\ s[i] \in TaskType /\ DOMAIN s = 1 .. l
  BY TaskSeqFacts
<1>2. n \in 0 .. l /\ n \in Nat /\ n < l /\ i = n + 1 /\ i \in 0 .. l
  BY <1>1
<1>3. a = SubSeq(s, 1, n) /\ r = SubSeq(s, n + 1, Len(s))
  BY <1>2
<1> HIDE DEF n, a, b, l, r
<1>4. /\ a \in Seq(TaskType) /\ r \in Seq(TaskType) /\ s = a \o r
      /\ Len(a) = n /\ DOMAIN a = 1 .. n /\ \A j \in 1 .. n : a[j] = s[j]
  BY <1>2, <1>3, SplitFacts DEF l
<1>5. /\ b \in Seq(TaskType)
      /\ Len(b) = l - i /\ DOMAIN b = 1 .. l - i /\ \A j \in 1 .. l - i : b[j] = s[i + j]
  BY <1>2, SplitFacts DEF l, b
<1> DEFINE one == <<s[i]>>
<1>6. one \in Seq(TaskType)
  BY <1>1, OneTaskFacts
<1>7. r = one \o b
  <2>1. i \in 1 .. Len(s) /\ Len(s) \in i .. Len(s)
    BY <1>1 DEF l
  <2>2. SubSeq(s, i, Len(s)) = <<s[i]>> \o SubSeq(s, i + 1, Len(s))
    BY <2>1, SubSeqRecursiveFirst, Zenon
  <2> QED
    BY <2>2 DEF r, b
<1> HIDE DEF one
<1>8. s = (a \o one) \o b
  <2>1. (a \o one) \o b = a \o (one \o b)
    <3>1. a \in Seq(TaskType) /\ one \in Seq(TaskType) /\ b \in Seq(TaskType)
      BY <1>4, <1>5, <1>6
    <3> QED
      BY <3>1, ConcatAssociative
  <2> QED
    BY <2>1, <1>4, <1>7
<1> DEFINE u == a \o b
<1>c. /\ u \in Seq(TaskType) /\ DOMAIN u = 1 .. Len(a) + Len(b)
      /\ \A j \in DOMAIN a : u[j] = a[j]
      /\ \A j \in DOMAIN b : u[Len(a) + j] = b[j]
  BY <1>4, <1>5, ConcatFacts, Zenon
<1> HIDE DEF u
<1>9. /\ u \in Seq(TaskType) /\ DOMAIN u = 1 .. n + (l - i)
      /\ \A j \in DOMAIN a : u[j] = a[j]
      /\ \A j \in DOMAIN b : u[n + j] = b[j]
  BY <1>4, <1>5, <1>c
<1>10. n + (l - i) = l - 1
  BY <1>1, <1>2
<1>11. ASSUME NEW j \in i .. l - 1
       PROVE  u[j] = s[j + 1]
  <2>1. PICK k \in 1 .. l - i : j = n + k /\ j + 1 = i + k
    <3>1. j - n \in 1 .. l - i /\ j = n + (j - n) /\ j + 1 = i + (j - n)
      BY <1>1, <1>2
    <3> QED
      BY <3>1
  <2>2. u[j] = b[k] /\ b[k] = s[i + k]
    BY <2>1, <1>5, <1>9
  <2> QED
    BY <2>1, <2>2
<1>12. RemoveAt(s, i) = u
  BY DEF RemoveAt, u, a, b
<1>13. \A j \in 1 .. n : u[j] = s[j]
  BY <1>4, <1>9
<1> QED
  BY <1>1, <1>4, <1>5, <1>8, <1>9, <1>10, <1>11, <1>12, <1>13 DEF u, a, b, l, n, one

-----------------------------------------------------------------------------
\* How many tasks of a sequence resume a coroutine.

Resuming(s, c) == {i \in DOMAIN s : Resumes(s[i], c)}

LEMMA SameSize ==
  ASSUME NEW B, NEW C, NEW f \in [B -> C], IsFiniteSet(B),
         \A j, k \in B : f[j] = f[k] => j = k,
         \A i \in C : \E j \in B : f[j] = i
  PROVE  IsFiniteSet(C) /\ Cardinality(C) = Cardinality(B)
<1>1. f \in Injection(B, C)
  BY DEF Injection, IsInjective
<1>2. f \in Surjection(B, C)
  BY DEF Surjection
<1>3. f \in Bijection(B, C)
  BY <1>1, <1>2 DEF Bijection
<1>4. ExistsBijection(B, C)
  BY <1>3 DEF ExistsBijection
<1> QED
  BY <1>4, FS_Bijection

LEMMA CountIsNat ==
  ASSUME NEW s \in Seq(TaskType), NEW c
  PROVE  IsFiniteSet(Resuming(s, c)) /\ Count(s, c) = Cardinality(Resuming(s, c))
         /\ Count(s, c) \in Nat
<1>1. IsFiniteSet(1 .. Len(s)) /\ DOMAIN s = 1 .. Len(s)
  BY TaskSeqFacts, FS_Interval
<1>2. Resuming(s, c) \in SUBSET (1 .. Len(s))
  BY <1>1 DEF Resuming
<1>3. IsFiniteSet(Resuming(s, c))
  BY <1>1, <1>2, FS_Subset
<1> QED
  BY <1>3, FS_CardinalityType DEF Count, Resuming

LEMMA CountNone ==
  ASSUME NEW s \in Seq(TaskType), NEW c
  PROVE  Count(s, c) = 0 <=> \A i \in DOMAIN s : ~Resumes(s[i], c)
<1>1. Count(s, c) = 0 <=> Resuming(s, c) = {}
  BY CountIsNat, FS_EmptySet
<1> QED
  BY <1>1 DEF Resuming

LEMMA CountEmpty == ASSUME NEW c PROVE Count(<<>>, c) = 0
<1>1. <<>> \in Seq(TaskType) /\ \A i \in DOMAIN <<>> : ~Resumes(<<>>[i], c)
  BY EmptyTasks
<1> QED
  BY <1>1, CountNone

LEMMA CountOne ==
  ASSUME NEW t \in TaskType, NEW c
  PROVE  Count(<<t>>, c) = IF Resumes(t, c) THEN 1 ELSE 0
<1> DEFINE s == <<t>>
<1>1. s \in Seq(TaskType) /\ DOMAIN s = {1} /\ s[1] = t
  BY OneTaskFacts
<1> HIDE DEF s
<1>2. CASE ~Resumes(t, c)
  BY <1>1, <1>2, CountNone DEF s
<1>3. CASE Resumes(t, c)
  <2>1. Resuming(s, c) = {1}
    BY <1>1, <1>3 DEF Resuming
  <2>2. Cardinality(Resuming(s, c)) = 1
    BY <2>1, FS_Singleton
  <2> QED
    BY <1>1, <1>3, <2>2, CountIsNat DEF s
<1> QED
  BY <1>2, <1>3

LEMMA CountConcat ==
  ASSUME NEW s \in Seq(TaskType), NEW t \in Seq(TaskType), NEW c
  PROVE  Count(s \o t, c) = Count(s, c) + Count(t, c)
<1> DEFINE u == s \o t
           m == Len(s)
           A == Resuming(s, c)
           B == Resuming(t, c)
           C == {i \in DOMAIN u : i \notin DOMAIN s /\ Resumes(u[i], c)}
           f == [j \in B |-> m + j]
<1>1. /\ u \in Seq(TaskType) /\ DOMAIN u = 1 .. m + Len(t)
      /\ \A i \in DOMAIN s : u[i] = s[i]
      /\ \A i \in DOMAIN t : u[m + i] = t[i]
      /\ \A i \in DOMAIN u : i \in DOMAIN s \/ \E j \in DOMAIN t : i = m + j
  BY ConcatFacts
<1>2. m \in Nat /\ DOMAIN s = 1 .. m /\ Len(t) \in Nat /\ DOMAIN t = 1 .. Len(t)
  BY TaskSeqFacts
<1> HIDE DEF u, m
<1>3. \A i \in DOMAIN s : i \in DOMAIN u
  BY <1>1, <1>2
<1>4. \A j \in DOMAIN t : m + j \in DOMAIN u /\ m + j \notin DOMAIN s
  BY <1>1, <1>2
<1>5. Resuming(u, c) = A \cup C /\ A \cap C = {}
  BY <1>1, <1>3 DEF Resuming
<1>6. f \in [B -> C]
  <2>1. ASSUME NEW j \in B PROVE m + j \in C
    <3>1. j \in DOMAIN t /\ Resumes(t[j], c)
      BY DEF Resuming
    <3> QED
      BY <3>1, <1>1, <1>4
  <2> QED
    BY <2>1
<1>7. \A j, k \in B : f[j] = f[k] => j = k
  <2>1. \A j, k \in DOMAIN t : m + j = m + k => j = k
    BY <1>2
  <2> QED
    BY <2>1 DEF Resuming
<1>8. \A i \in C : \E j \in B : f[j] = i
  <2> TAKE i \in C
  <2>1. PICK j \in DOMAIN t : i = m + j
    BY <1>1
  <2>2. j \in B
    BY <2>1, <1>1 DEF Resuming
  <2> QED
    BY <2>1, <2>2
<1> HIDE DEF f, C
<1>10. IsFiniteSet(A) /\ IsFiniteSet(B) /\ Cardinality(A) = Count(s, c)
       /\ Cardinality(B) = Count(t, c) /\ Count(s, c) \in Nat /\ Count(t, c) \in Nat
  BY CountIsNat
<1> HIDE DEF A, B
<1>11. IsFiniteSet(C) /\ Cardinality(C) = Cardinality(B)
  BY <1>6, <1>7, <1>8, <1>10, SameSize, Zenon
<1>12. Cardinality(A \cup C) = Cardinality(A) + Cardinality(C) - Cardinality(A \cap C)
  BY <1>10, <1>11, FS_Union, Zenon
<1>13. Cardinality(A \cap C) = 0
  BY <1>5, FS_EmptySet
<1>14. Count(u, c) = Cardinality(A \cup C)
  BY <1>1, <1>5, CountIsNat
<1> QED
  BY <1>10, <1>11, <1>12, <1>13, <1>14 DEF u

LEMMA CountSplit ==
  ASSUME NEW s \in Seq(TaskType), NEW n \in 0 .. Len(s), NEW c
  PROVE  Count(s, c) = Count(SubSeq(s, 1, n), c) + Count(SubSeq(s, n + 1, Len(s)), c)
<1> DEFINE a == SubSeq(s, 1, n)
           b == SubSeq(s, n + 1, Len(s))
<1>1. a \in Seq(TaskType) /\ b \in Seq(TaskType) /\ s = a \o b
  BY SplitFacts
<1> HIDE DEF a, b
<1>2. Count(a \o b, c) = Count(a, c) + Count(b, c)
  BY <1>1, CountConcat, ZenonT(30)
<1> QED
  BY <1>1, <1>2 DEF a, b

LEMMA CountHead ==
  ASSUME NEW s \in Seq(TaskType), s # <<>>, NEW c
  PROVE  Count(s, c) = Count(Tail(s), c) + (IF Resumes(Head(s), c) THEN 1 ELSE 0)
<1>1. /\ Head(s) \in TaskType /\ Tail(s) \in Seq(TaskType) /\ s = <<Head(s)>> \o Tail(s)
      /\ <<Head(s)>> \in Seq(TaskType)
  BY HeadTailFacts, OneTaskFacts
<1>a. Count(<<Head(s)>> \o Tail(s), c) = Count(<<Head(s)>>, c) + Count(Tail(s), c)
  BY <1>1, CountConcat, Zenon
<1>2. Count(s, c) = Count(<<Head(s)>>, c) + Count(Tail(s), c)
  BY <1>1, <1>a, Zenon
<1>3. Count(<<Head(s)>>, c) = IF Resumes(Head(s), c) THEN 1 ELSE 0
  BY <1>1, CountOne
<1>4. Count(Tail(s), c) \in Nat
  BY <1>1, CountIsNat
<1> QED
  BY <1>2, <1>3, <1>4

LEMMA CountInsert ==
  ASSUME NEW s \in Seq(TaskType), NEW i \in 1 .. Len(s) + 1, NEW t \in TaskType, NEW c
  PROVE  Count(InsertAt(s, i, t), c) = Count(s, c) + (IF Resumes(t, c) THEN 1 ELSE 0)
<1> DEFINE n == i - 1
           a == SubSeq(s, 1, n)
           b == SubSeq(s, n + 1, Len(s))
<1>1. n \in 0 .. Len(s) /\ n + 1 = i
  BY TaskSeqFacts
<1>2. a \in Seq(TaskType) /\ b \in Seq(TaskType) /\ <<t>> \in Seq(TaskType)
  BY <1>1, SplitFacts, OneTaskFacts
<1>3. InsertAt(s, i, t) = (a \o <<t>>) \o b
  BY <1>1, InsertFacts
<1>4. a \o <<t>> \in Seq(TaskType)
  BY <1>2, ConcatFacts
<1>5. Count((a \o <<t>>) \o b, c) = Count(a, c) + Count(<<t>>, c) + Count(b, c)
  <2>1. Count((a \o <<t>>) \o b, c) = Count(a \o <<t>>, c) + Count(b, c)
    BY <1>2, <1>4, CountConcat, Zenon
  <2>2. Count(a \o <<t>>, c) = Count(a, c) + Count(<<t>>, c)
    BY <1>2, CountConcat, ZenonT(30)
  <2> QED
    BY <2>1, <2>2, Zenon
<1>6. Count(s, c) = Count(a, c) + Count(b, c)
  BY <1>1, CountSplit
<1>7. Count(<<t>>, c) = IF Resumes(t, c) THEN 1 ELSE 0
  BY CountOne
<1>8. Count(a, c) \in Nat /\ Count(b, c) \in Nat
  BY <1>2, CountIsNat
<1> QED
  BY <1>3, <1>5, <1>6, <1>7, <1>8

LEMMA CountRemove ==
  ASSUME NEW s \in Seq(TaskType), NEW i \in DOMAIN s, NEW c
  PROVE  Count(s, c) = Count(RemoveAt(s, i), c) + (IF Resumes(s[i], c) THEN 1 ELSE 0)
<1> DEFINE a == SubSeq(s, 1, i - 1)
           b == SubSeq(s, i + 1, Len(s))
           one == <<s[i]>>
<1>1. /\ a \in Seq(TaskType) /\ b \in Seq(TaskType) /\ s[i] \in TaskType
      /\ RemoveAt(s, i) = a \o b /\ s = (a \o one) \o b
  BY RemoveFacts
<1>2. one \in Seq(TaskType) /\ Count(one, c) = IF Resumes(s[i], c) THEN 1 ELSE 0
  BY <1>1, OneTaskFacts, CountOne
<1> HIDE DEF a, b, one
<1>3. a \o one \in Seq(TaskType)
  BY <1>1, <1>2, ConcatFacts
<1>4. Count((a \o one) \o b, c) = Count(a, c) + Count(one, c) + Count(b, c)
  <2>1. Count((a \o one) \o b, c) = Count(a \o one, c) + Count(b, c)
    BY <1>1, <1>3, CountConcat, Zenon
  <2>2. Count(a \o one, c) = Count(a, c) + Count(one, c)
    <3>1. a \in Seq(TaskType) /\ one \in Seq(TaskType)
      BY <1>1, <1>2
    <3> QED
      BY <3>1, CountConcat, Zenon
  <2> QED
    BY <2>1, <2>2, Zenon
<1>5. Count(a \o b, c) = Count(a, c) + Count(b, c)
  BY <1>1, CountConcat
<1>6. Count(a, c) \in Nat /\ Count(b, c) \in Nat
  BY <1>1, CountIsNat
<1>7. Count(s, c) = Count((a \o one) \o b, c) /\ Count(RemoveAt(s, i), c) = Count(a \o b, c)
  BY <1>1
<1> QED
  BY <1>2, <1>4, <1>5, <1>6, <1>7

-----------------------------------------------------------------------------
\* Registrations that leave the table for the queue, and a new one.

LEMMA TaskForms ==
  /\ \A c \in Coroutine :
       /\ WellFormed(Resume(c)) /\ Resume(c).kind = "resume" /\ Resume(c).co = c
       /\ WellFormed(Awake(c)) /\ Awake(c).kind = "wake" /\ Awake(c).co = c
  /\ \A c \in Coroutine, fd \in Fd, e \in event, n \in Nat :
       /\ WellFormed(Timeout(c, fd, e, n)) /\ Timeout(c, fd, e, n).kind = "timeout"
       /\ Timeout(c, fd, e, n).co = c /\ Timeout(c, fd, e, n).call = n
  /\ \A fd \in Fd, e \in event :
       WellFormed(Watch(fd, e)) /\ Watch(fd, e).kind = "watch" /\ Watch(fd, e).co = Nil
  /\ \A n \in Nat : WellFormed(Tick(n)) /\ Tick(n).kind = "tick" /\ Tick(n).co = Nil
BY DEF WellFormed, TaskType, Kinds, Resume, Awake, Timeout, Watch, Tick, Task

LEMMA FinitePairs ==
  ASSUME NEW S \in SUBSET (Fd \X event)
  PROVE  IsFiniteSet(S) /\ Cardinality(S) \in Nat
<1>1. IsFiniteSet(event)
  <2>1. IsFiniteSet({READ}) /\ event = {READ} \cup {WRITE}
    BY FS_Singleton DEF event
  <2> QED
    BY <2>1, FS_AddElement
<1>2. IsFiniteSet(Fd \X event)
  BY <1>1, CoroutinesAssumption, FS_Product
<1> QED
  BY <1>2, FS_Subset, FS_CardinalityType

Waits == [Fd -> [event -> Coroutine \cup {Watcher, Nil}]]

LEMMA TriggeredFacts ==
  ASSUME waiting \in Waits, NEW p \in Registrations
  PROVE  /\ WellFormed(Triggered(p[1], p[2]))
         /\ Triggered(p[1], p[2]).kind \in {"resume", "watch"}
         /\ \A c \in Coroutine : Resumes(Triggered(p[1], p[2]), c) <=> p \in RegistrationsOf(c)
<1> DEFINE x == waiting[p[1]][p[2]]
<1>1. p \in Fd \X event /\ p[1] \in Fd /\ p[2] \in event /\ x # Nil
  BY DEF Registrations
<1>2. x \in Coroutine \cup {Watcher}
  BY <1>1 DEF Waits
<1>3. Watcher \notin Coroutine /\ Nil \notin Coroutine
  BY CoroutinesAssumption DEF Watcher
<1>4. \A c \in Coroutine : p \in RegistrationsOf(c) <=> x = c
  BY <1>1 DEF RegistrationsOf
<1>5. Triggered(p[1], p[2]) = IF x = Watcher THEN Watch(p[1], p[2]) ELSE Resume(x)
  BY DEF Triggered
<1> HIDE DEF x
<1>6. CASE x = Watcher
  BY <1>1, <1>3, <1>4, <1>5, <1>6, TaskForms DEF Resumes
<1>7. CASE x \in Coroutine
  <2>1. Triggered(p[1], p[2]) = Resume(x)
    BY <1>3, <1>5, <1>7
  <2>2. WellFormed(Resume(x)) /\ Resume(x).kind = "resume" /\ Resume(x).co = x
    BY <1>7, TaskForms
  <2> QED
    BY <2>1, <2>2, <1>4 DEF Resumes
<1> QED
  BY <1>2, <1>6, <1>7

\* w is what the registrations of Q put into the queue.
Woke(Q, w) == \E order \in SetToSeqs(Q) : w = WokenInOrder(order)

LEMMA OrderFacts ==
  ASSUME NEW Q \in SUBSET (Fd \X event), NEW order \in SetToSeqs(Q)
  PROVE  /\ Cardinality(Q) \in Nat
         /\ order \in [1 .. Cardinality(Q) -> Q]
         /\ \A i, j \in 1 .. Cardinality(Q) : order[i] = order[j] => i = j
         /\ \A p \in Q : \E i \in 1 .. Cardinality(Q) : order[i] = p
<1> DEFINE n == Cardinality(Q)
           D == 1 .. n
<1>1. IsFiniteSet(Q) /\ n \in Nat
  BY FinitePairs
<1>2. order \in [D -> Q] /\ \A i, j \in D : i # j => order[i] # order[j]
  BY DEF SetToSeqs
<1>3. IsFiniteSet(D) /\ Cardinality(D) = n
  BY <1>1, FS_Interval
<1> HIDE DEF n, D
<1>4. order \in Injection(D, Q)
  BY <1>2 DEF Injection, IsInjective
<1>5. order \in Surjection(D, Q)
  BY <1>1, <1>3, <1>4, FS_Injection DEF n
<1> QED
  BY <1>1, <1>2, <1>5 DEF Surjection, n, D

LEMMA WokeFacts ==
  ASSUME waiting \in Waits, NEW Q \in SUBSET Registrations, NEW w, Woke(Q, w)
  PROVE  /\ w \in Seq(TaskType)
         /\ \A i \in DOMAIN w : /\ WellFormed(w[i]) /\ w[i].kind \in {"resume", "watch"}
                                /\ \E p \in Q : w[i] = Triggered(p[1], p[2])
         /\ \A c \in Coroutine : Count(w, c) = Cardinality(Q \cap RegistrationsOf(c))
         /\ w = <<>> <=> Q = {}
<1>1. PICK order \in SetToSeqs(Q) : w = WokenInOrder(order)
  BY DEF Woke
<1> DEFINE n == Cardinality(Q)
<1>2. Q \in SUBSET (Fd \X event)
  BY DEF Registrations
<1>3. /\ n \in Nat /\ order \in [1 .. n -> Q]
      /\ \A i, j \in 1 .. n : order[i] = order[j] => i = j
      /\ \A p \in Q : \E i \in 1 .. n : order[i] = p
  BY <1>2, OrderFacts
<1>a. IsFiniteSet(Q)
  BY <1>2, FinitePairs
<1>b. n = 0 <=> Q = {}
  BY <1>a, FS_EmptySet
<1> HIDE DEF n
<1>4. /\ DOMAIN w = 1 .. n
      /\ \A i \in 1 .. n : w[i] = Triggered(order[i][1], order[i][2])
      /\ w = [i \in 1 .. n |-> Triggered(order[i][1], order[i][2])]
  BY <1>1, <1>3 DEF WokenInOrder
<1>5. \A i \in 1 .. n : order[i] \in Q /\ order[i] \in Registrations
  BY <1>3
<1>6. \A i \in 1 .. n :
        /\ WellFormed(w[i]) /\ w[i].kind \in {"resume", "watch"}
        /\ \A c \in Coroutine : Resumes(w[i], c) <=> order[i] \in RegistrationsOf(c)
  <2> TAKE i \in 1 .. n
  <2> QED
    BY <1>4, <1>5, TriggeredFacts
<1>7. \A i \in 1 .. n : w[i] \in TaskType
  BY <1>6 DEF WellFormed
<1>8. w \in [1 .. n -> TaskType]
  BY <1>4, <1>7
<1>9. w \in Seq(TaskType)
  BY <1>3, <1>8, SeqDef
<1>10. ASSUME NEW c \in Coroutine
       PROVE  Count(w, c) = Cardinality(Q \cap RegistrationsOf(c))
  <2> DEFINE B == Resuming(w, c)
             C == Q \cap RegistrationsOf(c)
             f == [i \in B |-> order[i]]
  <2>1. IsFiniteSet(B) /\ Count(w, c) = Cardinality(B)
    BY <1>9, CountIsNat
  <2>2. \A i : i \in B <=> i \in 1 .. n /\ order[i] \in RegistrationsOf(c)
    BY <1>4, <1>6 DEF Resuming
  <2> HIDE DEF B
  <2>3. f \in [B -> C]
    BY <2>2, <1>5
  <2>4. \A j, k \in B : f[j] = f[k] => j = k
    BY <2>2, <1>3
  <2>5. \A i \in C : \E j \in B : f[j] = i
    BY <2>2, <1>3
  <2> HIDE DEF f, C
  <2>6. Cardinality(C) = Cardinality(B)
    BY <2>1, <2>3, <2>4, <2>5, SameSize, Zenon
  <2> QED
    BY <2>1, <2>6 DEF C
<1>11. Len(w) = n
  <2>1. Len(w) \in Nat /\ DOMAIN w = 1 .. Len(w)
    BY <1>9, TaskSeqFacts
  <2> QED
    BY <2>1, <1>3, <1>4
<1>12. w = <<>> <=> Q = {}
  BY <1>b, <1>9, <1>11, TaskSeqFacts
<1> QED
  BY <1>4, <1>5, <1>6, <1>9, <1>10, <1>12

\* The registrations of Q leave the table.
Removed(Q) ==
  /\ waiting' = [fd \in Fd |-> [e \in event |->
                   IF <<fd, e>> \in Q THEN Nil ELSE waiting[fd][e]]]
  /\ pending' = pending - Cardinality(Q)

LEMMA RemovedFacts ==
  ASSUME waiting \in Waits, PendingCounted, NEW Q \in SUBSET Registrations, Removed(Q)
  PROVE  /\ waiting' \in Waits /\ PendingCounted'
         /\ \A c \in Coroutine :
              Cardinality(RegistrationsOf(c))' + Cardinality(Q \cap RegistrationsOf(c))
                = Cardinality(RegistrationsOf(c))
         /\ Cardinality(Q) \in Nat
<1>1. waiting' \in Waits
  BY DEF Removed, Waits
<1>2. \A p \in Fd \X event : p[1] \in Fd /\ p[2] \in event /\ p = <<p[1], p[2]>>
  OBVIOUS
<1>3. \A p \in Fd \X event :
        waiting'[p[1]][p[2]] = IF p \in Q THEN Nil ELSE waiting[p[1]][p[2]]
  BY <1>2 DEF Removed
<1>4. Registrations' = Registrations \ Q
  BY <1>3 DEF Registrations
<1>5. \A c \in Coroutine : RegistrationsOf(c)' = RegistrationsOf(c) \ Q
  <2>1. Nil \notin Coroutine
    BY CoroutinesAssumption
  <2> QED
    BY <1>3, <2>1 DEF RegistrationsOf
<1>6. Registrations \cap Q = Q /\ IsFiniteSet(Registrations)
  BY FinitePairs DEF Registrations
<1>7. Cardinality(Registrations \ Q) = Cardinality(Registrations) - Cardinality(Registrations \cap Q)
  BY <1>6, FS_Difference
<1>8. PendingCounted'
  BY <1>4, <1>6, <1>7 DEF PendingCounted, Removed
<1>9. ASSUME NEW c \in Coroutine
      PROVE  Cardinality(RegistrationsOf(c))' + Cardinality(Q \cap RegistrationsOf(c))
               = Cardinality(RegistrationsOf(c))
  <2> DEFINE R == RegistrationsOf(c)
  <2>1. R \in SUBSET (Fd \X event)
    BY DEF RegistrationsOf
  <2>2. R' = R \ Q
    BY <1>5
  <2> HIDE DEF R
  <2>3. R \cap Q \in SUBSET (Fd \X event) /\ R \cap Q = Q \cap R
    BY <2>1
  <2>4. IsFiniteSet(R) /\ Cardinality(R) \in Nat /\ Cardinality(R \cap Q) \in Nat
    BY <2>1, <2>3, FinitePairs
  <2>5. Cardinality(R \ Q) = Cardinality(R) - Cardinality(R \cap Q)
    BY <2>4, FS_Difference
  <2>7. Cardinality(R') = Cardinality(R) - Cardinality(R \cap Q)
    BY <2>2, <2>5, Zenon
  <2>8. Cardinality(Q \cap R) = Cardinality(R \cap Q)
    BY <2>3, Zenon
  <2>6. Cardinality(R') + Cardinality(Q \cap R) = Cardinality(R)
    BY <2>4, <2>7, <2>8
  <2> QED
    BY <2>6 DEF R
<1>10. Q \in SUBSET (Fd \X event)
  BY DEF Registrations
<1> QED
  BY <1>1, <1>8, <1>9, <1>10, FinitePairs

\* One more registration, of x.
Added(fd, e, x) ==
  /\ waiting[fd][e] = Nil
  /\ waiting' = [waiting EXCEPT ![fd][e] = x]
  /\ pending' = pending + 1

LEMMA AddedFacts ==
  ASSUME waiting \in Waits, PendingCounted, NEW fd \in Fd, NEW e \in event,
         NEW x \in Coroutine \cup {Watcher}, Added(fd, e, x)
  PROVE  /\ waiting' \in Waits /\ PendingCounted'
         /\ \A c \in Coroutine : Cardinality(RegistrationsOf(c))' =
              Cardinality(RegistrationsOf(c)) + (IF c = x THEN 1 ELSE 0)
<1> DEFINE q == <<fd, e>>
<1>1. q \in Fd \X event
  OBVIOUS
<1>2. \A g \in Fd : \A b \in event :
        waiting'[g][b] = IF g = fd /\ b = e THEN x ELSE waiting[g][b]
  BY DEF Added, Waits
<1>3. waiting' \in Waits
  BY DEF Added, Waits
<1>4. \A p \in Fd \X event : p[1] \in Fd /\ p[2] \in event /\ (p = q <=> p[1] = fd /\ p[2] = e)
  OBVIOUS
<1>5. \A p \in Fd \X event :
        waiting'[p[1]][p[2]] = IF p = q THEN x ELSE waiting[p[1]][p[2]]
  BY <1>2, <1>4
<1>6. waiting[q[1]][q[2]] = Nil
  BY DEF Added
<1> HIDE DEF q
<1>7. x # Nil /\ Nil \notin Coroutine
  BY CoroutinesAssumption DEF Watcher
<1>8. Registrations' = Registrations \cup {q} /\ q \notin Registrations
  BY <1>1, <1>5, <1>6, <1>7 DEF Registrations
<1>9. IsFiniteSet(Registrations)
  BY FinitePairs DEF Registrations
<1>10. PendingCounted'
  BY <1>8, <1>9, FS_AddElement DEF PendingCounted, Added
<1>11. ASSUME NEW c \in Coroutine
       PROVE  Cardinality(RegistrationsOf(c))' =
                Cardinality(RegistrationsOf(c)) + (IF c = x THEN 1 ELSE 0)
  <2> DEFINE R == RegistrationsOf(c)
  <2>1. IsFiniteSet(R) /\ Cardinality(R) \in Nat
    BY FinitePairs DEF RegistrationsOf
  <2>2. c = x => R' = R \cup {q} /\ q \notin R
    BY <1>1, <1>5, <1>6, <1>7 DEF RegistrationsOf
  <2>3. c # x => R' = R
    BY <1>1, <1>5, <1>6, <1>7 DEF RegistrationsOf
  <2> HIDE DEF R
  <2>4. Cardinality(R') = Cardinality(R) + (IF c = x THEN 1 ELSE 0)
    BY <2>1, <2>2, <2>3, FS_AddElement
  <2> QED
    BY <2>4 DEF R
<1> QED
  BY <1>3, <1>10, <1>11

LEMMA TriggerAllFacts ==
  ASSUME waiting \in Waits, NEW fd \in Fd, NEW es \in SUBSET Registered(fd), TriggerAll(fd, es)
  PROVE  /\ {fd} \X es \in SUBSET Registrations /\ Removed({fd} \X es)
<1> DEFINE Q == {fd} \X es
           f == [e \in es |-> <<fd, e>>]
<1>1. es \in SUBSET event /\ \A e \in es : waiting[fd][e] # Nil
  BY DEF Registered
<1>2. Q \in SUBSET Registrations
  BY <1>1 DEF Registrations
<1>3. IsFiniteSet(es)
  <2>1. IsFiniteSet({READ}) /\ event = {READ} \cup {WRITE}
    BY FS_Singleton DEF event
  <2> QED
    BY <1>1, <2>1, FS_AddElement, FS_Subset
<1>4. Cardinality(Q) = Cardinality(es)
  <2>1. f \in [es -> Q]
    OBVIOUS
  <2>2. \A j, k \in es : f[j] = f[k] => j = k
    OBVIOUS
  <2>3. \A i \in Q : \E j \in es : f[j] = i
    OBVIOUS
  <2> HIDE DEF f, Q
  <2> QED
    BY <1>3, <2>1, <2>2, <2>3, SameSize, Zenon
<1>5. waiting' = [g \in Fd |-> [e \in event |->
                    IF <<g, e>> \in Q THEN Nil ELSE waiting[g][e]]]
  <2>1. waiting' = [waiting EXCEPT ![fd] = [e \in event |-> IF e \in es THEN Nil ELSE waiting[fd][e]]]
    BY DEF TriggerAll
  <2>2. \A g \in Fd, e \in event : <<g, e>> \in Q <=> g = fd /\ e \in es
    OBVIOUS
  <2> HIDE DEF Q
  <2>3. \A g \in Fd : waiting[g] \in [event -> Coroutine \cup {Watcher, Nil}]
    BY DEF Waits
  <2>4. waiting' = [g \in Fd |-> IF g = fd THEN [e \in event |-> IF e \in es THEN Nil ELSE waiting[fd][e]]
                                           ELSE waiting[g]]
    BY <2>1 DEF Waits
  <2>5. ASSUME NEW g \in Fd
        PROVE  waiting'[g] = [e \in event |-> IF <<g, e>> \in Q THEN Nil ELSE waiting[g][e]]
    <3>1. CASE g = fd
      BY <3>1, <2>2, <2>4
    <3>2. CASE g # fd
      <4>1. waiting'[g] = waiting[g] /\ waiting[g] = [e \in event |-> waiting[g][e]]
        BY <3>2, <2>3, <2>4
      <4>2. \A e \in event : <<g, e>> \notin Q
        BY <3>2, <2>2
      <4> QED
        BY <4>1, <4>2
    <3> QED
      BY <3>1, <3>2
  <2>6. waiting' = [g \in Fd |-> waiting'[g]]
    BY <2>4
  <2> QED
    BY <2>5, <2>6
<1> QED
  BY <1>2, <1>4, <1>5 DEF Removed, TriggerAll

LEMMA AnOrder ==
  ASSUME NEW Q, NEW n \in Nat, Cardinality(Q) = n, NEW f \in [1 .. n -> Q],
         \A i, j \in 1 .. n : i # j => f[i] # f[j]
  PROVE  f \in SetToSeqs(Q)
BY DEF SetToSeqs

LEMMA TupleFacts ==
  ASSUME NEW x, NEW y
  PROVE  /\ <<>> \in [1 .. 0 -> {}]
         /\ <<x>> \in [1 .. 1 -> {x}] /\ <<x>>[1] = x
         /\ <<x, y>> \in [1 .. 2 -> {x, y}] /\ <<x, y>>[1] = x /\ <<x, y>>[2] = y
         /\ <<>> \o <<>> = <<>> /\ <<x>> \o <<>> = <<x>> /\ <<>> \o <<y>> = <<y>>
         /\ <<x>> \o <<y>> = <<x, y>>
<1>1. <<x>> \in Seq({x, y}) /\ <<y>> \in Seq({x, y}) /\ <<>> \in Seq({x, y})
  OBVIOUS
<1>2. <<>> \o <<>> = <<>> /\ <<x>> \o <<>> = <<x>> /\ <<>> \o <<y>> = <<y>>
  BY <1>1, ConcatEmptySeq, Zenon
<1>3. <<x>> \o <<y>> = <<x, y>>
  <2> DEFINE S == {x, y}
             a == <<x>>
             b == <<y>>
             u == <<x, y>>
  <2>1. /\ a \in Seq(S) /\ b \in Seq(S) /\ u \in Seq(S)
        /\ Len(a) = 1 /\ Len(b) = 1 /\ Len(u) = 2
        /\ a[1] = x /\ b[1] = y /\ u[1] = x /\ u[2] = y
    OBVIOUS
  <2> HIDE DEF S, a, b, u
  <2>2. /\ a \o b \in Seq(S) /\ Len(a \o b) = Len(a) + Len(b)
        /\ \A i \in 1 .. Len(a) + Len(b) : (a \o b)[i] = IF i <= Len(a) THEN a[i] ELSE b[i - Len(a)]
    BY <2>1, ConcatProperties, Zenon
  <2>3. Len(a \o b) = 2 /\ (a \o b)[1] = x /\ (a \o b)[2] = y
    BY <2>1, <2>2
  <2>4. \A i \in 1 .. Len(a \o b) : (a \o b)[i] = u[i]
    BY <2>1, <2>3
  <2>5. a \o b = u
    BY <2>1, <2>2, <2>3, <2>4, SeqEqual
  <2> QED
    BY <2>5 DEF a, b, u
<1>4. <<>> \in [1 .. 0 -> {}]
  <2>1. <<>> \in Seq({}) /\ Len(<<>>) = 0
    BY EmptySeq
  <2> QED
    BY <2>1, LenProperties
<1>5. <<x>> \in [1 .. 1 -> {x}]
  <2>1. <<x>> \in Seq({x}) /\ Len(<<x>>) = 1
    OBVIOUS
  <2> QED
    BY <2>1, LenProperties
<1>6. <<x, y>> \in [1 .. 2 -> {x, y}]
  <2>1. <<x, y>> \in Seq({x, y}) /\ Len(<<x, y>>) = 2
    OBVIOUS
  <2> QED
    BY <2>1, LenProperties
<1> QED
  BY <1>2, <1>3, <1>4, <1>5, <1>6

LEMMA WokenFacts ==
  ASSUME NEW fd \in Fd, NEW es \in SUBSET event
  PROVE  Woke({fd} \X es, Woken(fd, es))
<1> DEFINE Q == {fd} \X es
           r == <<fd, READ>>
           w == <<fd, WRITE>>
           tr == Triggered(fd, READ)
           tw == Triggered(fd, WRITE)
<1>1. READ # WRITE /\ r # w /\ r[1] = fd /\ r[2] = READ /\ w[1] = fd /\ w[2] = WRITE
  BY DEF READ, WRITE
<1>2. Woken(fd, es) = (IF READ \in es THEN <<tr>> ELSE <<>>) \o (IF WRITE \in es THEN <<tw>> ELSE <<>>)
  BY DEF Woken
<1>3. Cardinality({}) = 0 /\ \A x : Cardinality({x}) = 1 /\ IsFiniteSet({x})
  BY FS_EmptySet, FS_Singleton
<1>5. ASSUME NEW n \in Nat, NEW f, DOMAIN f = 1 .. n
      PROVE  WokenInOrder(f) = [i \in 1 .. n |-> Triggered(f[i][1], f[i][2])]
  BY <1>5 DEF WokenInOrder
<1> HIDE DEF tr, tw
<1>6. CASE READ \notin es /\ WRITE \notin es
  <2>1. Q = {} /\ Cardinality(Q) = 0
    BY <1>3, <1>6 DEF event
  <2>2. Woken(fd, es) = <<>>
    BY <1>2, <1>6, TupleFacts
  <2>3. <<>> \in [1 .. 0 -> Q] /\ DOMAIN <<>> = 1 .. 0
    BY <2>1, TupleFacts
  <2>4. <<>> \in SetToSeqs(Q)
    <3>1. \A i, j \in 1 .. 0 : i # j => <<>>[i] # <<>>[j]
      OBVIOUS
    <3> QED
      BY <2>1, <2>3, <3>1, 0 \in Nat, AnOrder, Zenon
  <2>5. WokenInOrder(<<>>) = <<>>
    <3>1. WokenInOrder(<<>>) = [i \in 1 .. 0 |-> Triggered(<<>>[i][1], <<>>[i][2])]
      BY <2>3, <1>5
    <3>2. \A i \in 1 .. 0 : FALSE
      OBVIOUS
    <3> QED
      BY <2>3, <3>1, <3>2
  <2> QED
    BY <2>2, <2>4, <2>5 DEF Woke
<1>7. CASE READ \in es /\ WRITE \notin es
  <2>1. Q = {r} /\ Cardinality(Q) = 1
    <3>1. Q = {r}
      BY <1>1, <1>7 DEF event
    <3> QED
      BY <3>1, <1>3
  <2>2. Woken(fd, es) = <<tr>>
    BY <1>2, <1>7, TupleFacts
  <2> HIDE DEF r
  <2>3. <<r>> \in [1 .. 1 -> Q] /\ DOMAIN <<r>> = 1 .. 1 /\ <<r>>[1] = r
    BY <2>1, TupleFacts
  <2>4. <<r>> \in SetToSeqs(Q)
    <3>1. \A i, j \in 1 .. 1 : i # j => <<r>>[i] # <<r>>[j]
      OBVIOUS
    <3> QED
      BY <2>1, <2>3, <3>1, 1 \in Nat, AnOrder, Zenon
  <2>5. WokenInOrder(<<r>>) = <<tr>>
    <3>1. WokenInOrder(<<r>>) = [i \in 1 .. 1 |-> Triggered(<<r>>[i][1], <<r>>[i][2])]
      BY <2>3, <1>5
    <3>2. \A i \in 1 .. 1 : i = 1
      OBVIOUS
    <3>3. <<tr>> \in [1 .. 1 -> {tr}] /\ <<tr>>[1] = tr
      BY TupleFacts
    <3> QED
      BY <1>1, <2>3, <3>1, <3>2, <3>3 DEF tr
  <2> QED
    BY <2>2, <2>4, <2>5 DEF Woke
<1>8. CASE READ \notin es /\ WRITE \in es
  <2>1. Q = {w} /\ Cardinality(Q) = 1
    <3>1. Q = {w}
      BY <1>1, <1>8 DEF event
    <3> QED
      BY <3>1, <1>3
  <2>2. Woken(fd, es) = <<tw>>
    BY <1>2, <1>8, TupleFacts
  <2> HIDE DEF w
  <2>3. <<w>> \in [1 .. 1 -> Q] /\ DOMAIN <<w>> = 1 .. 1 /\ <<w>>[1] = w
    BY <2>1, TupleFacts
  <2>4. <<w>> \in SetToSeqs(Q)
    <3>1. \A i, j \in 1 .. 1 : i # j => <<w>>[i] # <<w>>[j]
      OBVIOUS
    <3> QED
      BY <2>1, <2>3, <3>1, 1 \in Nat, AnOrder, Zenon
  <2>5. WokenInOrder(<<w>>) = <<tw>>
    <3>1. WokenInOrder(<<w>>) = [i \in 1 .. 1 |-> Triggered(<<w>>[i][1], <<w>>[i][2])]
      BY <2>3, <1>5
    <3>2. \A i \in 1 .. 1 : i = 1
      OBVIOUS
    <3>3. <<tw>> \in [1 .. 1 -> {tw}] /\ <<tw>>[1] = tw
      BY TupleFacts
    <3> QED
      BY <1>1, <2>3, <3>1, <3>2, <3>3 DEF tw
  <2> QED
    BY <2>2, <2>4, <2>5 DEF Woke
<1>9. CASE READ \in es /\ WRITE \in es
  <2>1. Q = {r} \cup {w} /\ {r} \cup {w} = {r, w} /\ w \notin {r}
    BY <1>1, <1>9 DEF event
  <2>2. Cardinality(Q) = 2
    <3>1. Cardinality({r} \cup {w}) = Cardinality({r}) + 1
      BY <1>3, <2>1, FS_AddElement
    <3>2. Cardinality({r}) = 1
      BY <1>3, Zenon
    <3>3. Cardinality(Q) = 1 + 1
      BY <2>1, <3>1, <3>2, Zenon
    <3> QED
      BY <3>3
  <2>3. Woken(fd, es) = <<tr, tw>>
    BY <1>2, <1>9, TupleFacts
  <2> HIDE DEF r, w
  <2>4. <<r, w>> \in [1 .. 2 -> Q] /\ DOMAIN <<r, w>> = 1 .. 2 /\ <<r, w>>[1] = r /\ <<r, w>>[2] = w
    BY <2>1, TupleFacts
  <2>5. <<r, w>> \in SetToSeqs(Q)
    <3>1. \A i, j \in 1 .. 2 : i # j => <<r, w>>[i] # <<r, w>>[j]
      BY <1>1, <2>4
    <3> QED
      BY <2>2, <2>4, <3>1, 2 \in Nat, AnOrder, Zenon
  <2>6. WokenInOrder(<<r, w>>) = <<tr, tw>>
    <3>1. WokenInOrder(<<r, w>>) = [i \in 1 .. 2 |-> Triggered(<<r, w>>[i][1], <<r, w>>[i][2])]
      BY <2>4, <1>5
    <3>2. \A i \in 1 .. 2 : i = 1 \/ i = 2
      OBVIOUS
    <3>3. <<tr, tw>> \in [1 .. 2 -> {tr, tw}] /\ <<tr, tw>>[1] = tr /\ <<tr, tw>>[2] = tw
      BY TupleFacts
    <3> QED
      BY <1>1, <2>4, <3>1, <3>2, <3>3 DEF tr, tw
  <2> QED
    BY <2>3, <2>5, <2>6 DEF Woke
<1> QED
  BY <1>6, <1>7, <1>8, <1>9

LEMMA PassFacts ==
  ASSUME waiting \in Waits, NEW n \in 0 .. Len(timers), Pass(n)
  PROVE  /\ Reports \in SUBSET Registrations /\ Removed(Reports)
         /\ \E w : Woke(Reports, w) /\ tasks' = tasks \o (SubSeq(timers, 1, n) \o w)
<1>1. Reports \in SUBSET Registrations
  BY DEF Reports, Reported, Registered, Registrations
<1>2. \A fd \in Fd, e \in event : <<fd, e>> \in Reports <=> e \in Reported(fd)
  BY DEF Reports
<1>3. Removed(Reports)
  BY <1>2 DEF Pass, Removed
<1>4. PICK order \in Orders : tasks' = tasks \o Batch(SubSeq(timers, 1, n), order)
  BY DEF Pass
<1>5. Woke(Reports, WokenInOrder(order))
  BY DEF Orders, Woke
<1> QED
  BY <1>1, <1>3, <1>4, <1>5 DEF Batch

-----------------------------------------------------------------------------
\* The timers, with one more and with fewer.

Parts(s, t) == \A i \in DOMAIN s : \E j \in DOMAIN t : s[i] = t[j]

LEMMA InsertDistinct ==
  ASSUME NEW s \in Seq(TaskType), Distinct(s), NEW i \in 1 .. Len(s) + 1, NEW t \in TaskType,
         t.co # Nil => \A j \in DOMAIN s : s[j].co # t.co
  PROVE  /\ Distinct(InsertAt(s, i, t))
         /\ \A j \in DOMAIN InsertAt(s, i, t) :
              InsertAt(s, i, t)[j] = t \/ \E k \in DOMAIN s : InsertAt(s, i, t)[j] = s[k]
<1> DEFINE u == InsertAt(s, i, t)
           l == Len(s)
<1>1. /\ DOMAIN u = 1 .. l + 1
      /\ \A j \in 1 .. i - 1 : u[j] = s[j]
      /\ u[i] = t
      /\ \A j \in i + 1 .. l + 1 : u[j] = s[j - 1]
  <2>1. DOMAIN InsertAt(s, i, t) = 1 .. Len(s) + 1
    <3>1. InsertAt(s, i, t) \in Seq(TaskType) /\ Len(InsertAt(s, i, t)) = Len(s) + 1
      BY InsertFacts
    <3> QED
      BY <3>1, TaskSeqFacts
  <2>4. InsertAt(s, i, t)[i] = t
    BY InsertFacts, ZenonT(30)
  <2>2. \A j \in 1 .. i - 1 : InsertAt(s, i, t)[j] = s[j]
    BY InsertFacts, ZenonT(30)
  <2>3. \A j \in i + 1 .. Len(s) + 1 : InsertAt(s, i, t)[j] = s[j - 1]
    BY InsertFacts, ZenonT(30)
  <2> QED
    BY <2>1, <2>2, <2>3, <2>4, Zenon
<1>2. l \in Nat /\ DOMAIN s = 1 .. l /\ i \in 1 .. l + 1
  BY TaskSeqFacts
<1> HIDE DEF u, l
<1> DEFINE k(j) == IF j < i THEN j ELSE j - 1
<1>3. \A j \in 1 .. l + 1 : j # i => k(j) \in 1 .. l /\ u[j] = s[k(j)]
  <2> TAKE j \in 1 .. l + 1
  <2>1. CASE j < i
    <3>1. j \in 1 .. i - 1 /\ j \in 1 .. l
      BY <1>2, <2>1
    <3> QED
      BY <3>1, <2>1, <1>1
  <2>2. CASE j > i
    <3>1. j \in i + 1 .. l + 1 /\ j - 1 \in 1 .. l /\ ~(j < i)
      BY <1>2, <2>2
    <3> QED
      BY <3>1, <1>1
  <2> QED
    BY <2>1, <2>2, <1>2
<1>4. \A j, m \in 1 .. l + 1 : j # i /\ m # i /\ k(j) = k(m) => j = m
  BY <1>2
<1> HIDE DEF k
<1>5. Distinct(u)
  <2> SUFFICES ASSUME NEW j \in 1 .. l + 1, NEW m \in 1 .. l + 1,
                      u[j].co = u[m].co, u[j].co # Nil
               PROVE  j = m
    BY <1>1 DEF Distinct
  <2>1. CASE j # i /\ m # i
    BY <2>1, <1>2, <1>3, <1>4 DEF Distinct
  <2>2. CASE j = i /\ m # i
    BY <2>2, <1>1, <1>2, <1>3
  <2>3. CASE j # i /\ m = i
    BY <2>3, <1>1, <1>2, <1>3
  <2> QED
    BY <2>1, <2>2, <2>3
<1>6. \A j \in 1 .. l + 1 : u[j] = t \/ \E m \in DOMAIN s : u[j] = s[m]
  BY <1>1, <1>2, <1>3
<1> QED
  BY <1>1, <1>5, <1>6 DEF u

LEMMA RemoveDistinct ==
  ASSUME NEW s \in Seq(TaskType), Distinct(s), NEW i \in DOMAIN s, s[i].co # Nil
  PROVE  /\ Distinct(RemoveAt(s, i)) /\ Parts(RemoveAt(s, i), s)
         /\ \A j \in DOMAIN RemoveAt(s, i) : RemoveAt(s, i)[j].co # s[i].co
<1> DEFINE u == RemoveAt(s, i)
           l == Len(s)
           k(j) == IF j < i THEN j ELSE j + 1
<1>1. /\ DOMAIN u = 1 .. l - 1
      /\ \A j \in 1 .. i - 1 : u[j] = s[j]
      /\ \A j \in i .. l - 1 : u[j] = s[j + 1]
  BY RemoveFacts
<1>2. l \in Nat /\ DOMAIN s = 1 .. l /\ i \in 1 .. l
  BY TaskSeqFacts
<1> HIDE DEF u, l
<1>3. \A j \in 1 .. l - 1 : k(j) \in 1 .. l /\ k(j) # i /\ u[j] = s[k(j)]
  <2> TAKE j \in 1 .. l - 1
  <2>1. CASE j < i
    <3>1. j \in 1 .. i - 1 /\ j \in 1 .. l /\ j # i
      BY <1>2, <2>1
    <3> QED
      BY <3>1, <2>1, <1>1
  <2>2. CASE ~(j < i)
    <3>1. j \in i .. l - 1 /\ j + 1 \in 1 .. l /\ j + 1 # i
      BY <1>2, <2>2
    <3> QED
      BY <3>1, <2>2, <1>1
  <2> QED
    BY <2>1, <2>2
<1>4. \A j, m \in 1 .. l - 1 : k(j) = k(m) => j = m
  BY <1>2
<1> HIDE DEF k
<1>5. Distinct(u)
  BY <1>1, <1>2, <1>3, <1>4 DEF Distinct
<1>6. \A j \in DOMAIN u : u[j].co # s[i].co
  BY <1>1, <1>2, <1>3 DEF Distinct
<1>7. Parts(u, s)
  BY <1>1, <1>2, <1>3 DEF Parts
<1> QED
  BY <1>5, <1>6, <1>7 DEF u

LEMMA RestDistinct ==
  ASSUME NEW s \in Seq(TaskType), Distinct(s), NEW n \in 0 .. Len(s)
  PROVE  /\ Distinct(SubSeq(s, n + 1, Len(s))) /\ Parts(SubSeq(s, n + 1, Len(s)), s)
         /\ Parts(SubSeq(s, 1, n), s)
         /\ \A i \in DOMAIN SubSeq(s, 1, n), j \in DOMAIN SubSeq(s, n + 1, Len(s)) :
              SubSeq(s, 1, n)[i].co # Nil
                => SubSeq(s, n + 1, Len(s))[j].co # SubSeq(s, 1, n)[i].co
<1> DEFINE a == SubSeq(s, 1, n)
           b == SubSeq(s, n + 1, Len(s))
           l == Len(s)
<1>1. /\ DOMAIN a = 1 .. n /\ \A i \in 1 .. n : a[i] = s[i]
      /\ DOMAIN b = 1 .. l - n /\ \A i \in 1 .. l - n : b[i] = s[n + i]
  BY SplitFacts
<1>2. l \in Nat /\ DOMAIN s = 1 .. l /\ n \in 0 .. l
  BY TaskSeqFacts
<1> HIDE DEF a, b, l
<1>3. \A i \in 1 .. n : i \in 1 .. l
  BY <1>2
<1>4. \A j \in 1 .. l - n : n + j \in 1 .. l /\ \A i \in 1 .. n : i # n + j
  BY <1>2
<1>5. \A i, j \in 1 .. l - n : n + i = n + j => i = j
  BY <1>2
<1>6. Distinct(b)
  <2>1. \A j, k \in 1 .. l - n : /\ b[j] = s[n + j] /\ b[k] = s[n + k]
                                 /\ n + j \in DOMAIN s /\ n + k \in DOMAIN s
    BY <1>1, <1>2, <1>4
  <2>2. \A j, k \in 1 .. l - n : b[j].co = b[k].co /\ b[j].co # Nil => n + j = n + k
    BY <2>1 DEF Distinct
  <2> QED
    BY <1>1, <1>5, <2>2 DEF Distinct
<1>7. Parts(a, s) /\ Parts(b, s)
  BY <1>1, <1>2, <1>3, <1>4 DEF Parts
<1>8. \A i \in DOMAIN a, j \in DOMAIN b : a[i].co # Nil => b[j].co # a[i].co
  BY <1>1, <1>2, <1>3, <1>4 DEF Distinct
<1> QED
  BY <1>6, <1>7, <1>8 DEF a, b, l

LEMMA WithoutFacts ==
  ASSUME timers \in Seq(TaskType), Distinct(timers), NEW c \in Coroutine
  PROVE  /\ TimersWithout(c) \in Seq(TaskType)
         /\ Distinct(TimersWithout(c)) /\ Parts(TimersWithout(c), timers)
         /\ \A j \in DOMAIN TimersWithout(c) : TimersWithout(c)[j].co # c
         /\ (\A i \in DOMAIN timers : timers[i].co # c) => TimersWithout(c) = timers
         /\ Count(timers, c) = 0 => \A d : Count(TimersWithout(c), d) = Count(timers, d)
<1> DEFINE armed == {i \in DOMAIN timers : timers[i].co = c}
           i == CHOOSE i \in armed : TRUE
<1>1. CASE armed = {}
  <2>1. TimersWithout(c) = timers
    BY <1>1 DEF TimersWithout
  <2> QED
    BY <1>1, <2>1 DEF Parts
<1>2. CASE armed # {}
  <2>1. i \in DOMAIN timers /\ timers[i].co = c
    BY <1>2
  <2>2. TimersWithout(c) = RemoveAt(timers, i)
    BY <1>2 DEF TimersWithout
  <2> HIDE DEF i
  <2>3. c # Nil
    BY CoroutinesAssumption
  <2>6. RemoveAt(timers, i) \in Seq(TaskType) /\ timers[i].co # Nil
    BY <2>1, <2>3, RemoveFacts
  <2>7. /\ Distinct(RemoveAt(timers, i)) /\ Parts(RemoveAt(timers, i), timers)
        /\ \A j \in DOMAIN RemoveAt(timers, i) : RemoveAt(timers, i)[j].co # timers[i].co
    BY <2>1, <2>6, RemoveDistinct, Zenon
  <2>4. /\ Distinct(RemoveAt(timers, i)) /\ Parts(RemoveAt(timers, i), timers)
        /\ \A j \in DOMAIN RemoveAt(timers, i) : RemoveAt(timers, i)[j].co # c
        /\ RemoveAt(timers, i) \in Seq(TaskType)
    BY <2>1, <2>6, <2>7, Zenon
  <2>5. ASSUME Count(timers, c) = 0, NEW d
        PROVE  Count(RemoveAt(timers, i), d) = Count(timers, d)
    <3>1. ~Resumes(timers[i], c)
      BY <2>1, <2>5, CountNone
    <3>2. ~Resumes(timers[i], d)
      BY <2>1, <3>1 DEF Resumes
    <3>3. Count(RemoveAt(timers, i), d) \in Nat
      BY <2>4, CountIsNat
    <3> QED
      BY <2>1, <3>2, <3>3, CountRemove
  <2> QED
    BY <2>1, <2>2, <2>4, <2>5
<1> QED
  BY <1>1, <1>2

-----------------------------------------------------------------------------
\* A call of a coroutine returns, or leaves the coroutine waiting for an event.

Flags == tickled \in BOOLEAN /\ pipe \in BOOLEAN /\ ready \in [Fd -> SUBSET event]

Returned(c, rest) == timers' = rest /\ Return(c) /\ UNCHANGED eventVars /\ Flags'

Blocked(c, call, fd, e, rest, n) ==
  /\ timers' = rest \/ \E i \in 1 .. Len(rest) + 1 : timers' = InsertAt(rest, i, Timeout(c, fd, e, n))
  /\ Added(fd, e, c) /\ Yield(c, call, fd, e) /\ Flags'

CallFrame == UNCHANGED <<fixed, main, made, idleOver, seen, tasks, idle, stopped, gone, open>>

Spends(c) ==
  \/ wait[c] = NoCall /\ used[c] < MaxOps[c] /\ used' = [used EXCEPT ![c] = used[c] + 1]
  \/ wait[c] # NoCall /\ used' = used

Returns(c) == Running(c) /\ CallFrame /\ Spends(c) /\ Returned(c, TimersWithout(c))

Blocking(c, call, fd, e) ==
  /\ Running(c) /\ CallFrame /\ Spends(c)
  /\ Blocked(c, call, fd, e, TimersWithout(c), used'[c])
  /\ wait[c] # NoCall => wait[c].call = "io" /\ call = "io"

LEMMA FlagsKeep ==
  ASSUME TypeOK
  PROVE  /\ Flags
         /\ \A when \in BOOLEAN : Tickled(when) \in BOOLEAN
         /\ \A fd \in Fd, e \in event : Consume(fd, e) => ready' \in [Fd -> SUBSET event]
<1>1. Flags /\ idle \in Nat
  BY DEF TypeOK, Flags
<1>2. \A when \in BOOLEAN : Tickled(when) \in BOOLEAN
  BY DEF Tickled
<1>3. \A fd \in Fd, e \in event : Consume(fd, e) => ready' \in [Fd -> SUBSET event]
  BY <1>1 DEF Consume, Flags
<1> QED
  BY <1>1, <1>2, <1>3

LEMMA RegisterFacts ==
  ASSUME TypeOK, NEW c \in Coroutine, NEW call, NEW fd \in Fd, NEW e \in event,
         NEW rest, NEW n, Register(c, call, fd, e, rest, n)
  PROVE  Returned(c, rest) \/ Blocked(c, call, fd, e, rest, n)
<1> DEFINE taken == waiting[fd][e] # Nil
           limited == fd \in timed \/ call = "connect"
<1>1. /\ IF limited
           THEN \E i \in 1 .. Len(rest) + 1 :
                  /\ timers' = IF taken THEN rest ELSE InsertAt(rest, i, Timeout(c, fd, e, n))
                  /\ tickled' = (tickled \/ i = 1)
                  /\ pipe' = Tickled(i = 1 /\ ~tickled)
           ELSE timers' = rest /\ UNCHANGED <<tickled, pipe>>
      /\ IF taken
           THEN Return(c) /\ UNCHANGED eventVars
           ELSE /\ waiting' = [waiting EXCEPT ![fd][e] = c]
                /\ pending' = pending + 1
                /\ Yield(c, call, fd, e)
      /\ UNCHANGED ready
  BY DEF Register
<1>2. ready' \in [Fd -> SUBSET event] /\ tickled' \in BOOLEAN /\ pipe' \in BOOLEAN
  <2>1. tickled \in BOOLEAN /\ pipe \in BOOLEAN /\ ready \in [Fd -> SUBSET event]
    BY FlagsKeep DEF Flags
  <2>2. CASE limited
    <3>1. PICK i \in 1 .. Len(rest) + 1 : tickled' = (tickled \/ i = 1) /\ pipe' = Tickled(i = 1 /\ ~tickled)
      BY <1>1, <2>2
    <3>2. Tickled(i = 1 /\ ~tickled) \in BOOLEAN
      BY FlagsKeep
    <3> QED
      BY <1>1, <2>1, <3>1, <3>2
  <2>3. CASE ~limited
    BY <1>1, <2>1, <2>3
  <2> QED
    BY <2>2, <2>3
<1>3. Flags'
  BY <1>2 DEF Flags
<1>4. CASE taken
  <2>1. timers' = rest
    BY <1>1, <1>4
  <2> QED
    BY <1>1, <1>3, <1>4, <2>1 DEF Returned
<1>5. CASE ~taken
  <2>1. timers' = rest \/ \E i \in 1 .. Len(rest) + 1 : timers' = InsertAt(rest, i, Timeout(c, fd, e, n))
    BY <1>1, <1>5
  <2>2. Added(fd, e, c) /\ Yield(c, call, fd, e)
    BY <1>1, <1>5 DEF Added
  <2> QED
    BY <1>3, <2>1, <2>2 DEF Blocked
<1> QED
  BY <1>4, <1>5

LEMMA TurnFacts ==
  ASSUME TypeOK, NEW c \in Coroutine, NEW call, NEW fd \in Fd, NEW e \in event,
         NEW rest, NEW n, Turn(c, call, fd, e, rest, n)
  PROVE  Returned(c, rest) \/ Blocked(c, call, fd, e, rest, n)
<1>1. CASE Blocks(fd, e)
  <2>1. Register(c, call, fd, e, rest, n)
    BY <1>1 DEF Turn
  <2> QED
    BY <2>1, RegisterFacts
<1>2. CASE ~Blocks(fd, e)
  <2>1. /\ Consume(fd, e) /\ timers' = rest /\ Return(c)
        /\ tickled' = tickled /\ pipe' = pipe /\ UNCHANGED eventVars
    BY <1>2 DEF Turn
  <2>2. Flags'
    BY <2>1, FlagsKeep DEF Flags
  <2> QED
    BY <2>1, <2>2 DEF Returned
<1> QED
  BY <1>1, <1>2

LEMMA FreeTimers ==
  ASSUME TypeOK, TimerInv, NEW c \in Coroutine, wait[c] = NoCall
  PROVE  TimersWithout(c) = timers /\ \A i \in DOMAIN timers : timers[i].co # c
<1>1. timers \in Seq(TaskType) /\ Distinct(timers)
  BY DEF TypeOK, TimerInv
<1>2. c # Nil
  BY CoroutinesAssumption
<1>3. \A i \in DOMAIN timers : timers[i].co # c
  BY <1>2 DEF TimerInv
<1> QED
  BY <1>1, <1>3, WithoutFacts

LEMMA CallCases ==
  ASSUME TypeOK, TimerInv, StateInv, NEW c \in Coroutine,
         \/ Wake(c)
         \/ \E fd \in Fd, e \in event : Io(c, fd, e)
         \/ \E fd \in Fd : Connect(c, fd)
  PROVE  \/ Returns(c)
         \/ \E fd \in Fd, e \in event, call \in {"io", "connect"} : Blocking(c, call, fd, e)
<1>0. used \in [Coroutine -> Nat] /\ "io" \in {"io", "connect"} /\ "connect" \in {"io", "connect"}
      /\ WRITE \in event
  BY DEF TypeOK, event
<1>1. ASSUME Calls(c)
      PROVE  /\ Running(c) /\ Spends(c) /\ used'[c] = used[c] + 1 /\ wait[c] = NoCall
             /\ TimersWithout(c) = timers
  <2>1. Running(c) /\ wait[c] = NoCall /\ used[c] < MaxOps[c] /\ used' = [used EXCEPT ![c] = used[c] + 1]
    BY <1>1 DEF Calls, Free
  <2>2. used'[c] = used[c] + 1
    BY <2>1, <1>0
  <2>3. Spends(c)
    BY <2>1, Zenon DEF Spends
  <2> QED
    BY <2>1, <2>2, <2>3, FreeTimers
<1>2. CASE \E fd \in Fd, e \in event : Io(c, fd, e)
  <2>1. PICK fd \in Fd, e \in event : Io(c, fd, e)
    BY <1>2
  <2>2. Calls(c) /\ Turn(c, "io", fd, e, timers, used[c] + 1) /\ CallFrame
    BY <2>1 DEF Io, CallFrame
  <2>3. Returned(c, timers) \/ Blocked(c, "io", fd, e, timers, used[c] + 1)
    BY <2>2, TurnFacts
  <2>4. CASE Returned(c, timers)
    BY <1>1, <2>2, <2>4 DEF Returns
  <2>5. CASE Blocked(c, "io", fd, e, timers, used[c] + 1)
    <3>1. Blocked(c, "io", fd, e, TimersWithout(c), used'[c])
      BY <1>1, <2>2, <2>5
    <3>2. Blocking(c, "io", fd, e)
      BY <1>1, <2>2, <3>1 DEF Blocking
    <3> QED
      BY <3>2, <1>0
  <2> QED
    BY <2>3, <2>4, <2>5
<1>3. CASE \E fd \in Fd : Connect(c, fd)
  <2>1. PICK fd \in Fd : Connect(c, fd)
    BY <1>3
  <2>2. Calls(c) /\ CallFrame
    BY <2>1 DEF Connect, CallFrame
  <2>3. \/ Register(c, "connect", fd, WRITE, timers, used[c] + 1)
        \/ Return(c) /\ UNCHANGED <<timerVars, pipe, eventVars, ready>>
    BY <2>1 DEF Connect
  <2>4. Return(c) /\ UNCHANGED <<timerVars, pipe, eventVars, ready>> => Returned(c, timers)
    <3> SUFFICES ASSUME Return(c), UNCHANGED <<timerVars, pipe, eventVars, ready>>
                 PROVE  Returned(c, timers)
      OBVIOUS
    <3>1. timers' = timers /\ tickled' = tickled /\ pipe' = pipe /\ ready' = ready /\ UNCHANGED eventVars
      BY DEF timerVars
    <3>2. Flags'
      BY <3>1, FlagsKeep DEF Flags
    <3> QED
      BY <3>1, <3>2 DEF Returned
  <2>5. Returned(c, timers) \/ Blocked(c, "connect", fd, WRITE, timers, used[c] + 1)
    BY <1>0, <2>3, <2>4, RegisterFacts
  <2>6. CASE Returned(c, timers)
    BY <1>1, <2>2, <2>6 DEF Returns
  <2>7. CASE Blocked(c, "connect", fd, WRITE, timers, used[c] + 1)
    <3>1. Blocked(c, "connect", fd, WRITE, TimersWithout(c), used'[c])
      BY <1>1, <2>2, <2>7
    <3>2. Blocking(c, "connect", fd, WRITE)
      BY <1>1, <2>2, <3>1 DEF Blocking
    <3> QED
      BY <3>2, <1>0
  <2> QED
    BY <2>5, <2>6, <2>7
<1>4. CASE Wake(c)
  <2> DEFINE w == wait[c]
             rest == TimersWithout(c)
  <2>1. /\ Running(c) /\ w # NoCall
        /\ IF w.call = "io" /\ ~cancelled[c]
             THEN Turn(c, "io", w.fd, w.ev, rest, used[c])
             ELSE timers' = rest /\ Return(c) /\ UNCHANGED <<tickled, pipe, eventVars, ready>>
        /\ CallFrame /\ used' = used
    BY <1>4 DEF Wake, CallFrame
  <2>2. Spends(c)
    BY <2>1 DEF Spends
  <2>3. CASE w.call = "io" /\ ~cancelled[c]
    <3>1. w.fd \in Fd /\ w.ev \in event
      BY <2>3 DEF StateInv
    <3>2. Returned(c, rest) \/ Blocked(c, "io", w.fd, w.ev, rest, used[c])
      BY <2>1, <2>3, <3>1, TurnFacts
    <3>3. CASE Returned(c, rest)
      BY <2>1, <2>2, <3>3 DEF Returns
    <3>4. CASE Blocked(c, "io", w.fd, w.ev, rest, used[c])
      <4>1. Blocked(c, "io", w.fd, w.ev, rest, used'[c])
        BY <2>1, <3>4
      <4>2. Blocking(c, "io", w.fd, w.ev)
        BY <2>1, <2>2, <2>3, <4>1 DEF Blocking
      <4> QED
        BY <4>2, <3>1, <1>0
    <3> QED
      BY <3>2, <3>3, <3>4
  <2>4. CASE ~(w.call = "io" /\ ~cancelled[c])
    <3>1. timers' = rest /\ Return(c) /\ tickled' = tickled /\ pipe' = pipe /\ ready' = ready
          /\ UNCHANGED eventVars
      BY <2>1, <2>4
    <3>2. Flags'
      BY <3>1, FlagsKeep DEF Flags
    <3>3. Returned(c, rest)
      BY <3>1, <3>2 DEF Returned
    <3> QED
      BY <2>1, <2>2, <3>3 DEF Returns
  <2> QED
    BY <2>3, <2>4
<1> QED
  BY <1>2, <1>3, <1>4

-----------------------------------------------------------------------------
\* What each action does to each variable.

LEMMA MainAddsEffect ==
  ASSUME NEW c, MainAdds(c)
  PROVE
  /\ main = "free"
  /\ state[c] = "none"
  /\ state' = [state EXCEPT ![c] = "READY"]
  /\ tasks' = tasks \o <<Resume(c)>>
  /\ pipe' = Tickled(tasks = <<>> /\ <<Resume(c)>> # <<>>)
  /\ asWorker' = asWorker /\ timed' = timed /\ main' = main /\ made' = made /\ pc' = pc
  /\ cur' = cur /\ idleOver' = idleOver /\ seen' = seen /\ active' = active
  /\ idle' = idle /\ stopped' = stopped /\ timers' = timers /\ tickled' = tickled
  /\ waiting' = waiting /\ pending' = pending /\ ready' = ready /\ gone' = gone
  /\ open' = open /\ wait' = wait /\ cancelled' = cancelled /\ used' = used
BY DEF MainAdds, AddTasks, fixed, workerVars, schedVars, timerVars, eventVars, netVars, coVars

LEMMA MainAddsTimerEffect ==
  ASSUME MainAddsTimer
  PROVE
  /\ main = "free"
  /\ made < MaxTimers
  /\ AddTimer(Tick(made))
  /\ made' = made + 1
  /\ asWorker' = asWorker /\ timed' = timed /\ main' = main /\ pc' = pc /\ cur' = cur
  /\ idleOver' = idleOver /\ seen' = seen /\ tasks' = tasks /\ active' = active
  /\ idle' = idle /\ stopped' = stopped /\ waiting' = waiting /\ pending' = pending
  /\ ready' = ready /\ gone' = gone /\ open' = open /\ state' = state /\ wait' = wait
  /\ cancelled' = cancelled /\ used' = used
BY DEF MainAddsTimer, fixed, workerVars, schedVars, timerVars, eventVars, netVars, coVars

LEMMA CallStopEffect ==
  ASSUME CallStop
  PROVE
  /\ main = "free"
  /\ main' = "stop"
  /\ tickled' = FALSE
  /\ asWorker' = asWorker /\ timed' = timed /\ made' = made /\ pc' = pc /\ cur' = cur
  /\ idleOver' = idleOver /\ seen' = seen /\ tasks' = tasks /\ active' = active
  /\ idle' = idle /\ stopped' = stopped /\ timers' = timers /\ pipe' = pipe
  /\ waiting' = waiting /\ pending' = pending /\ ready' = ready /\ gone' = gone
  /\ open' = open /\ state' = state /\ wait' = wait /\ cancelled' = cancelled
  /\ used' = used
BY DEF CallStop, fixed, workerVars, schedVars, eventVars, netVars, coVars

LEMMA StopEffect ==
  ASSUME Stop
  PROVE
  /\ main = "stop"
  /\ main' = "stopping"
  /\ stopped' = TRUE
  /\ pipe' = Tickled(TRUE)
  /\ pc' = IF asWorker THEN "take" ELSE pc
  /\ asWorker' = asWorker /\ timed' = timed /\ made' = made /\ cur' = cur
  /\ idleOver' = idleOver /\ seen' = seen /\ tasks' = tasks /\ active' = active
  /\ idle' = idle /\ timers' = timers /\ tickled' = tickled /\ waiting' = waiting
  /\ pending' = pending /\ ready' = ready /\ gone' = gone /\ open' = open
  /\ state' = state /\ wait' = wait /\ cancelled' = cancelled /\ used' = used
BY DEF Stop, fixed, workerVars, schedVars, timerVars, eventVars, netVars, coVars

LEMMA JoinedEffect ==
  ASSUME Joined
  PROVE
  /\ main = "stopping"
  /\ pc = "end"
  /\ main' = "joined"
  /\ asWorker' = asWorker /\ timed' = timed /\ made' = made /\ pc' = pc /\ cur' = cur
  /\ idleOver' = idleOver /\ seen' = seen /\ tasks' = tasks /\ active' = active
  /\ idle' = idle /\ stopped' = stopped /\ timers' = timers /\ tickled' = tickled
  /\ pipe' = pipe /\ waiting' = waiting /\ pending' = pending /\ ready' = ready
  /\ gone' = gone /\ open' = open /\ state' = state /\ wait' = wait
  /\ cancelled' = cancelled /\ used' = used
BY DEF Joined, fixed, workerVars, schedVars, timerVars, eventVars, netVars, coVars

LEMMA HangUpEffect ==
  ASSUME NEW fd, HangUp(fd)
  PROVE
  /\ gone' = gone \cup {fd}
  /\ ready' = [ready EXCEPT ![fd] = {}]
  /\ asWorker' = asWorker /\ timed' = timed /\ main' = main /\ made' = made /\ pc' = pc
  /\ cur' = cur /\ idleOver' = idleOver /\ seen' = seen /\ tasks' = tasks
  /\ active' = active /\ idle' = idle /\ stopped' = stopped /\ timers' = timers
  /\ tickled' = tickled /\ pipe' = pipe /\ waiting' = waiting /\ pending' = pending
  /\ open' = open /\ state' = state /\ wait' = wait /\ cancelled' = cancelled
  /\ used' = used
BY DEF HangUp, fixed, workerVars, schedVars, timerVars, eventVars, netVars, coVars

LEMMA ArriveEffect ==
  ASSUME NEW fd, NEW e, Arrive(fd, e)
  PROVE
  /\ ready' = [ready EXCEPT ![fd] = ready[fd] \cup {e}]
  /\ asWorker' = asWorker /\ timed' = timed /\ main' = main /\ made' = made /\ pc' = pc
  /\ cur' = cur /\ idleOver' = idleOver /\ seen' = seen /\ tasks' = tasks
  /\ active' = active /\ idle' = idle /\ stopped' = stopped /\ timers' = timers
  /\ tickled' = tickled /\ pipe' = pipe /\ waiting' = waiting /\ pending' = pending
  /\ gone' = gone /\ open' = open /\ state' = state /\ wait' = wait
  /\ cancelled' = cancelled /\ used' = used
BY DEF Arrive, fixed, workerVars, schedVars, timerVars, eventVars, netVars, coVars

LEMMA NoTaskEffect ==
  ASSUME NoTask
  PROVE
  /\ pc = "take"
  /\ tasks = <<>>
  /\ pc' = IF idleOver THEN "end" ELSE "idle"
  /\ asWorker' = asWorker /\ timed' = timed /\ main' = main /\ made' = made
  /\ cur' = cur /\ idleOver' = idleOver /\ seen' = seen /\ tasks' = tasks
  /\ active' = active /\ idle' = idle /\ stopped' = stopped /\ timers' = timers
  /\ tickled' = tickled /\ pipe' = pipe /\ waiting' = waiting /\ pending' = pending
  /\ ready' = ready /\ gone' = gone /\ open' = open /\ state' = state /\ wait' = wait
  /\ cancelled' = cancelled /\ used' = used
BY DEF NoTask, fixed, workerVars, schedVars, timerVars, eventVars, netVars, coVars

LEMMA EnterIdleEffect ==
  ASSUME EnterIdle
  PROVE
  /\ pc = "idle"
  /\ idle' = idle + 1
  /\ pc' = "check"
  /\ asWorker' = asWorker /\ timed' = timed /\ main' = main /\ made' = made
  /\ cur' = cur /\ idleOver' = idleOver /\ seen' = seen /\ tasks' = tasks
  /\ active' = active /\ stopped' = stopped /\ timers' = timers /\ tickled' = tickled
  /\ pipe' = pipe /\ waiting' = waiting /\ pending' = pending /\ ready' = ready
  /\ gone' = gone /\ open' = open /\ state' = state /\ wait' = wait
  /\ cancelled' = cancelled /\ used' = used
BY DEF EnterIdle, fixed, workerVars, schedVars, timerVars, eventVars, netVars, coVars

LEMMA TakeEffect ==
  ASSUME Take
  PROVE
  /\ pc = "take"
  /\ tasks # <<>>
  /\ tasks' = Tail(tasks)
  /\ pipe' = Tickled(tasks' # <<>>)
  /\ asWorker' = asWorker /\ timed' = timed /\ main' = main /\ made' = made
  /\ idleOver' = idleOver /\ seen' = seen /\ idle' = idle /\ stopped' = stopped
  /\ timers' = timers /\ tickled' = tickled /\ waiting' = waiting /\ pending' = pending
  /\ ready' = ready /\ gone' = gone /\ open' = open /\ wait' = wait
  /\ cancelled' = cancelled /\ used' = used
BY DEF Take, fixed, workerVars, schedVars, timerVars, eventVars, netVars, coVars

LEMMA GetNextDurationEffect ==
  ASSUME GetNextDuration
  PROVE
  /\ pc = "check"
  /\ pc' = "decide"
  /\ tickled' = FALSE
  /\ seen' = IF timers = <<>> THEN Nil ELSE Head(timers)
  /\ asWorker' = asWorker /\ timed' = timed /\ main' = main /\ made' = made
  /\ cur' = cur /\ idleOver' = idleOver /\ tasks' = tasks /\ active' = active
  /\ idle' = idle /\ stopped' = stopped /\ timers' = timers /\ pipe' = pipe
  /\ waiting' = waiting /\ pending' = pending /\ ready' = ready /\ gone' = gone
  /\ open' = open /\ state' = state /\ wait' = wait /\ cancelled' = cancelled
  /\ used' = used
BY DEF GetNextDuration, fixed, workerVars, schedVars, eventVars, netVars, coVars

LEMMA CheckStoppingEffect ==
  ASSUME CheckStopping
  PROVE
  /\ pc = "decide"
  /\ asWorker' = asWorker /\ timed' = timed /\ main' = main /\ made' = made
  /\ cur' = cur /\ seen' = seen /\ tasks' = tasks /\ active' = active
  /\ stopped' = stopped /\ timers' = timers /\ tickled' = tickled /\ pipe' = pipe
  /\ waiting' = waiting /\ pending' = pending
  /\ ready' = ready /\ gone' = gone /\ open' = open /\ state' = state /\ wait' = wait
  /\ cancelled' = cancelled /\ used' = used
BY DEF CheckStopping, fixed, workerVars, schedVars, timerVars, eventVars, netVars, coVars

LEMMA PassEffect ==
  ASSUME NEW n, Pass(n)
  PROVE
  /\ pc = "wait"
  /\ timers' = SubSeq(timers, n + 1, Len(timers))
  /\ idle' = idle - 1
  /\ pc' = "take"
  /\ seen' = Nil
  /\ asWorker' = asWorker /\ timed' = timed /\ main' = main /\ made' = made
  /\ cur' = cur /\ idleOver' = idleOver /\ active' = active /\ stopped' = stopped
  /\ tickled' = tickled /\ ready' = ready /\ gone' = gone /\ open' = open
  /\ state' = state /\ wait' = wait /\ cancelled' = cancelled /\ used' = used
BY DEF Pass, fixed, workerVars, schedVars, timerVars, eventVars, netVars, coVars

LEMMA CallbackEffect ==
  ASSUME Callback
  PROVE
  /\ pc = "callback"
  /\ active' = active - 1
  /\ pc' = "take"
  /\ cur' = Nil
  /\ asWorker' = asWorker /\ timed' = timed /\ main' = main /\ made' = made
  /\ idleOver' = idleOver /\ seen' = seen /\ idle' = idle /\ stopped' = stopped
  /\ timers' = timers /\ tickled' = tickled /\ gone' = gone /\ open' = open
  /\ state' = state /\ wait' = wait /\ used' = used
BY DEF Callback, fixed, workerVars, schedVars, timerVars, eventVars, netVars, coVars

LEMMA SpawnEffect ==
  ASSUME NEW c, NEW d, Spawn(c, d)
  PROVE
  /\ Calls(c)
  /\ state[d] = "none"
  /\ state' = [state EXCEPT ![d] = "READY"]
  /\ tasks' = tasks \o <<Resume(d)>>
  /\ pipe' = Tickled(tasks = <<>> /\ <<Resume(d)>> # <<>>)
  /\ used' = [used EXCEPT ![c] = used[c] + 1]
  /\ asWorker' = asWorker /\ timed' = timed /\ main' = main /\ made' = made /\ pc' = pc
  /\ cur' = cur /\ idleOver' = idleOver /\ seen' = seen /\ active' = active
  /\ idle' = idle /\ stopped' = stopped /\ timers' = timers /\ tickled' = tickled
  /\ waiting' = waiting /\ pending' = pending /\ ready' = ready /\ gone' = gone
  /\ open' = open /\ wait' = wait /\ cancelled' = cancelled
BY DEF Spawn, AddTasks, Calls, fixed, workerVars, schedVars, timerVars, eventVars, netVars, coVars

LEMMA SleepEffect ==
  ASSUME NEW c, Sleep(c)
  PROVE
  /\ Calls(c)
  /\ AddTimer(Awake(c))
  /\ wait' = [wait EXCEPT ![c] = [call |-> "sleep", fd |-> Nil, ev |-> Nil]]
  /\ state' = [state EXCEPT ![c] = "READY"]
  /\ pc' = "take"
  /\ cur' = Nil
  /\ active' = active - 1
  /\ used' = [used EXCEPT ![c] = used[c] + 1]
  /\ asWorker' = asWorker /\ timed' = timed /\ main' = main /\ made' = made
  /\ idleOver' = idleOver /\ seen' = seen /\ tasks' = tasks /\ idle' = idle
  /\ stopped' = stopped /\ waiting' = waiting /\ pending' = pending /\ ready' = ready
  /\ gone' = gone /\ open' = open /\ cancelled' = cancelled
BY DEF Sleep, Yield, Calls, fixed, workerVars, schedVars, timerVars, eventVars, netVars, coVars

LEMMA AddWatchEffect ==
  ASSUME NEW c, NEW fd, NEW e, AddWatch(c, fd, e)
  PROVE
  /\ Calls(c)
  /\ Added(fd, e, Watcher) \/ (waiting' = waiting /\ pending' = pending)
  /\ used' = [used EXCEPT ![c] = used[c] + 1]
  /\ asWorker' = asWorker /\ timed' = timed /\ main' = main /\ made' = made /\ pc' = pc
  /\ cur' = cur /\ idleOver' = idleOver /\ seen' = seen /\ tasks' = tasks
  /\ active' = active /\ idle' = idle /\ stopped' = stopped /\ timers' = timers
  /\ tickled' = tickled /\ pipe' = pipe /\ ready' = ready /\ gone' = gone
  /\ open' = open /\ state' = state /\ wait' = wait /\ cancelled' = cancelled
BY DEF AddWatch, Calls, Added, fixed, workerVars, schedVars, timerVars, eventVars, netVars, coVars

LEMMA CloseEffect ==
  ASSUME NEW c, NEW fd, Close(c, fd)
  PROVE
  /\ Calls(c)
  /\ TriggerAll(fd, Registered(fd))
  /\ tasks' = tasks \o Woken(fd, Registered(fd))
  /\ pipe' = Tickled(tasks = <<>> /\ Woken(fd, Registered(fd)) # <<>>)
  /\ open' = open \ {fd}
  /\ ready' = [ready EXCEPT ![fd] = {}]
  /\ used' = [used EXCEPT ![c] = used[c] + 1]
  /\ asWorker' = asWorker /\ timed' = timed /\ main' = main /\ made' = made /\ pc' = pc
  /\ cur' = cur /\ idleOver' = idleOver /\ seen' = seen /\ active' = active
  /\ idle' = idle /\ stopped' = stopped /\ timers' = timers /\ tickled' = tickled
  /\ gone' = gone /\ state' = state /\ wait' = wait /\ cancelled' = cancelled
BY DEF Close, AddTasks, Calls, fixed, workerVars, schedVars, timerVars, eventVars, netVars, coVars

LEMMA FinishEffect ==
  ASSUME NEW c, Finish(c)
  PROVE
  /\ Free(c)
  /\ state' = [state EXCEPT ![c] = "TERM"]
  /\ pc' = "take"
  /\ cur' = Nil
  /\ active' = active - 1
  /\ asWorker' = asWorker /\ timed' = timed /\ main' = main /\ made' = made
  /\ idleOver' = idleOver /\ seen' = seen /\ tasks' = tasks /\ idle' = idle
  /\ stopped' = stopped /\ timers' = timers /\ tickled' = tickled /\ pipe' = pipe
  /\ waiting' = waiting /\ pending' = pending /\ ready' = ready /\ gone' = gone
  /\ open' = open /\ wait' = wait /\ cancelled' = cancelled /\ used' = used
BY DEF Finish, fixed, workerVars, schedVars, timerVars, eventVars, netVars, coVars
LEMMA ReturnsEffect ==
  ASSUME NEW c, Returns(c)
  PROVE
  /\ Running(c) /\ Spends(c) /\ Flags'
  /\ timers' = TimersWithout(c)
  /\ wait' = [wait EXCEPT ![c] = NoCall]
  /\ cancelled' = [cancelled EXCEPT ![c] = FALSE]
  /\ asWorker' = asWorker /\ timed' = timed /\ main' = main /\ made' = made /\ pc' = pc
  /\ cur' = cur /\ idleOver' = idleOver /\ seen' = seen /\ tasks' = tasks
  /\ active' = active /\ idle' = idle /\ stopped' = stopped /\ waiting' = waiting
  /\ pending' = pending /\ gone' = gone /\ open' = open /\ state' = state
BY DEF Returns, Returned, Return, CallFrame, fixed, eventVars

LEMMA BlockingEffect ==
  ASSUME NEW c, NEW call, NEW fd, NEW e, Blocking(c, call, fd, e)
  PROVE
  /\ Running(c) /\ Spends(c) /\ Flags' /\ Added(fd, e, c)
  /\ wait[c] # NoCall => wait[c].call = "io" /\ call = "io"
  /\ \/ timers' = TimersWithout(c)
     \/ \E i \in 1 .. Len(TimersWithout(c)) + 1 :
          timers' = InsertAt(TimersWithout(c), i, Timeout(c, fd, e, used'[c]))
  /\ wait' = [wait EXCEPT ![c] = [call |-> call, fd |-> fd, ev |-> e]]
  /\ state' = [state EXCEPT ![c] = "READY"]
  /\ pc' = "take" /\ cur' = Nil /\ active' = active - 1
  /\ asWorker' = asWorker /\ timed' = timed /\ main' = main /\ made' = made
  /\ idleOver' = idleOver /\ seen' = seen /\ tasks' = tasks /\ idle' = idle
  /\ stopped' = stopped /\ gone' = gone /\ open' = open /\ cancelled' = cancelled
BY DEF Blocking, Blocked, Yield, CallFrame, fixed

LEMMA NextCases ==
  ASSUME TypeOK, TimerInv, StateInv, Next
  PROVE  \/ \E c \in Coroutine : MainAdds(c)
         \/ MainAddsTimer \/ CallStop \/ Stop \/ Joined
         \/ \E fd \in Fd : HangUp(fd)
         \/ \E fd \in Fd, e \in event : Arrive(fd, e)
         \/ Take \/ NoTask \/ EnterIdle \/ GetNextDuration \/ CheckStopping \/ Callback
         \/ \E n \in 0 .. Len(timers) : Pass(n)
         \/ \E c \in Coroutine : Returns(c)
         \/ \E c \in Coroutine : \E fd \in Fd, e \in event, call \in {"io", "connect"} :
              Blocking(c, call, fd, e)
         \/ \E c \in Coroutine, fd \in Fd, e \in event : AddWatch(c, fd, e)
         \/ \E c \in Coroutine, fd \in Fd : Close(c, fd)
         \/ \E c \in Coroutine, d \in Coroutine : Spawn(c, d)
         \/ \E c \in Coroutine : Sleep(c)
         \/ \E c \in Coroutine : Finish(c)
<1>1. CASE Main
  BY <1>1, Zenon DEF Main
<1>2. CASE Net
  BY <1>2, Zenon DEF Net
<1>3. CASE Schedule
  BY <1>3, Zenon DEF Schedule, IdlePass
<1>4. ASSUME NEW c \in Coroutine, Call(c) \/ Wake(c) \/ Finish(c)
      PROVE  \/ Returns(c)
             \/ \E fd \in Fd, e \in event, call \in {"io", "connect"} : Blocking(c, call, fd, e)
             \/ \E fd \in Fd, e \in event : AddWatch(c, fd, e)
             \/ \E fd \in Fd : Close(c, fd)
             \/ \E d \in Coroutine : Spawn(c, d)
             \/ Sleep(c) \/ Finish(c)
  <2>1. CASE Wake(c)
    BY <2>1, CallCases, Zenon
  <2>2. CASE \E fd \in Fd, e \in event : Io(c, fd, e)
    BY <2>2, CallCases, Zenon
  <2>3. CASE \E fd \in Fd : Connect(c, fd)
    BY <2>3, CallCases, Zenon
  <2> QED
    BY <1>4, <2>1, <2>2, <2>3, Zenon DEF Call
<1>5. CASE \E c \in Coroutine : Call(c) \/ Wake(c) \/ Finish(c)
  <2>1. PICK c \in Coroutine : Call(c) \/ Wake(c) \/ Finish(c)
    BY <1>5
  <2> QED
    BY <2>1, <1>4, Zenon
<1> QED
  BY <1>1, <1>2, <1>3, <1>5, Zenon DEF Next, Worker

-----------------------------------------------------------------------------
\* Registrations move from the table behind what is in the queue (base).

Moves(base) == \E Q \in SUBSET Registrations : \E w :
  Removed(Q) /\ Woke(Q, w) /\ tasks' = base \o w

LEMMA MovesFacts ==
  ASSUME waiting \in Waits, PendingCounted, NEW base \in Seq(TaskType), Moves(base)
  PROVE  /\ waiting' \in Waits /\ PendingCounted'
         /\ tasks' \in Seq(TaskType)
         /\ \A c \in Coroutine :
              Count(tasks', c) + Cardinality(RegistrationsOf(c))'
                = Count(base, c) + Cardinality(RegistrationsOf(c))
         /\ \A i \in DOMAIN base : i \in DOMAIN tasks' /\ tasks'[i] = base[i]
         /\ \A i \in DOMAIN tasks' : i \notin DOMAIN base =>
              i > Len(base) /\ WellFormed(tasks'[i]) /\ tasks'[i].kind \in {"resume", "watch"}
<1>1. PICK Q \in SUBSET Registrations : \E w : Removed(Q) /\ Woke(Q, w) /\ tasks' = base \o w
  BY DEF Moves
<1>2. PICK w : Removed(Q) /\ Woke(Q, w) /\ tasks' = base \o w
  BY <1>1
<1>3. /\ waiting' \in Waits /\ PendingCounted'
      /\ \A c \in Coroutine :
           Cardinality(RegistrationsOf(c))' + Cardinality(Q \cap RegistrationsOf(c))
             = Cardinality(RegistrationsOf(c))
  BY <1>2, RemovedFacts
<1>4. /\ w \in Seq(TaskType)
      /\ \A i \in DOMAIN w : WellFormed(w[i]) /\ w[i].kind \in {"resume", "watch"}
      /\ \A c \in Coroutine : Count(w, c) = Cardinality(Q \cap RegistrationsOf(c))
  BY <1>2, WokeFacts
<1>5. ASSUME NEW c \in Coroutine
      PROVE  Count(tasks', c) + Cardinality(RegistrationsOf(c))'
               = Count(base, c) + Cardinality(RegistrationsOf(c))
  <2> DEFINE r == Cardinality(RegistrationsOf(c))
             s == Cardinality(RegistrationsOf(c))'
             q == Cardinality(Q \cap RegistrationsOf(c))
             b == Count(base, c)
             n == Count(tasks', c)
  <2>1. Count(base \o w, c) = Count(base, c) + Count(w, c)
    BY <1>4, CountConcat, Zenon
  <2>2. n = b + q
    BY <1>2, <1>4, <2>1
  <2>3. s + q = r
    BY <1>3
  <2>4. b \in Nat /\ q \in Nat
    BY <1>4, CountIsNat
  <2>5. RegistrationsOf(c) \in SUBSET (Fd \X event) /\ RegistrationsOf(c)' \in SUBSET (Fd \X event)
    BY DEF RegistrationsOf
  <2>6. r \in Nat /\ s \in Nat
    BY <2>5, FinitePairs
  <2> HIDE DEF r, s, q, b, n
  <2>7. n + s = b + r
    BY <2>2, <2>3, <2>4, <2>6
  <2> QED
    BY <2>7 DEF r, s, b, n
<1> DEFINE u == base \o w
<1>6. /\ u \in Seq(TaskType)
      /\ DOMAIN u = 1 .. Len(base) + Len(w)
      /\ Len(u) = Len(base) + Len(w)
      /\ \A i \in DOMAIN base : u[i] = base[i]
      /\ \A i \in DOMAIN w : u[Len(base) + i] = w[i]
      /\ \A i \in DOMAIN u : i \in DOMAIN base \/ \E j \in DOMAIN w : i = Len(base) + j
  BY <1>4, ConcatFacts, Zenon
<1>7. /\ Len(base) \in Nat /\ DOMAIN base = 1 .. Len(base)
      /\ Len(w) \in Nat /\ DOMAIN w = 1 .. Len(w)
  BY <1>4, TaskSeqFacts
<1>8. tasks' = u
  BY <1>2
<1> HIDE DEF u
<1>9. \A i \in DOMAIN base : i \in DOMAIN u
  BY <1>6, <1>7
<1>10. ASSUME NEW i \in DOMAIN u, i \notin DOMAIN base
       PROVE  i > Len(base) /\ WellFormed(u[i]) /\ u[i].kind \in {"resume", "watch"}
  <2>1. PICK j \in DOMAIN w : i = Len(base) + j
    BY <1>6, <1>10
  <2>2. u[i] = w[j]
    BY <2>1, <1>6
  <2>3. i > Len(base)
    BY <2>1, <1>7
  <2> QED
    BY <2>2, <2>3, <1>4
<1>11. \A i \in DOMAIN base : i \in DOMAIN tasks' /\ tasks'[i] = base[i]
  BY <1>6, <1>8, <1>9, Zenon
<1>12. \A i \in DOMAIN tasks' : i \notin DOMAIN base =>
         i > Len(base) /\ WellFormed(tasks'[i]) /\ tasks'[i].kind \in {"resume", "watch"}
  BY <1>8, <1>10, Zenon
<1>13. tasks' \in Seq(TaskType)
  BY <1>6, <1>8, Zenon
<1> QED
  BY <1>3, <1>5, <1>11, <1>12, <1>13, Zenon

LEMMA CloseMoves ==
  ASSUME waiting \in Waits, NEW c \in Coroutine, NEW fd \in Fd, Close(c, fd)
  PROVE  Moves(tasks)
<1>1. TriggerAll(fd, Registered(fd)) /\ tasks' = tasks \o Woken(fd, Registered(fd))
  BY CloseEffect
<1>2. {fd} \X Registered(fd) \in SUBSET Registrations /\ Removed({fd} \X Registered(fd))
  BY <1>1, TriggerAllFacts
<1>3. Registered(fd) \in SUBSET event
  BY DEF Registered
<1>4. Woke({fd} \X Registered(fd), Woken(fd, Registered(fd)))
  BY <1>3, WokenFacts
<1> QED
  BY <1>1, <1>2, <1>4 DEF Moves

Expired(n) == tasks \o SubSeq(timers, 1, n)

LEMMA PassMoves ==
  ASSUME waiting \in Waits, tasks \in Seq(TaskType), timers \in Seq(TaskType),
         NEW n \in 0 .. Len(timers), Pass(n)
  PROVE  Moves(Expired(n)) /\ Expired(n) \in Seq(TaskType)
<1> DEFINE x == SubSeq(timers, 1, n)
<1>1. /\ Reports \in SUBSET Registrations /\ Removed(Reports)
      /\ \E w : Woke(Reports, w) /\ tasks' = tasks \o (x \o w)
  BY PassFacts
<1>2. x \in Seq(TaskType)
  BY SplitFacts
<1> HIDE DEF x
<1>3. PICK w : Woke(Reports, w) /\ tasks' = tasks \o (x \o w)
  BY <1>1
<1>4. w \in Seq(TaskType)
  BY <1>1, <1>3, WokeFacts
<1>5. tasks' = (tasks \o x) \o w
  <2>1. (tasks \o x) \o w = tasks \o (x \o w)
    <3>1. tasks \in Seq(TaskType) /\ x \in Seq(TaskType) /\ w \in Seq(TaskType)
      BY <1>2, <1>4
    <3> QED
      BY <3>1, ConcatAssociative, SMTT(30)
  <2> QED
    BY <1>3, <2>1, Zenon
<1>6. tasks \o x \in Seq(TaskType)
  BY <1>2, ConcatFacts
<1> QED
  BY <1>1, <1>3, <1>5, <1>6 DEF Moves, Expired, x

Quiet == UNCHANGED <<tasks, waiting, pending>>

LEMMA CallbackCases ==
  ASSUME TypeOK, ShapeInv, Callback
  PROVE  /\ WellFormed(cur) /\ Flags'
         /\ \/ cur.kind = "wake" /\ cancelled' = cancelled /\ UNCHANGED <<waiting, pending>>
               /\ tasks' = tasks \o <<Resume(cur.co)>>
            \/ cur.kind = "timeout" /\ Live(cur)
               /\ cancelled' = [cancelled EXCEPT ![cur.co] = TRUE] /\ Moves(tasks)
            \/ cur.kind # "wake" /\ cancelled' = cancelled /\ Quiet
<1>1. WellFormed(cur) /\ waiting \in Waits /\ pc = "callback" /\ tickled' = tickled
  BY CallbackEffect DEF ShapeInv, TypeOK, Waits
<1>a. Flags
  BY FlagsKeep
<1>2. CASE cur.kind = "wake" /\ RunWake
  <2>1. /\ tasks' = tasks \o <<Resume(cur.co)>> /\ UNCHANGED <<waiting, pending>>
        /\ pipe' = Tickled(tasks = <<>> /\ <<Resume(cur.co)>> # <<>>)
        /\ ready' = ready /\ cancelled' = cancelled
    BY <1>2 DEF RunWake, AddTasks, eventVars
  <2>2. Flags'
    BY <2>1, <1>1, <1>a, FlagsKeep DEF Flags
  <2> QED
    BY <1>1, <1>2, <2>1, <2>2
<1>3. CASE cur.kind = "timeout" /\ RunTimeout
  <2>1. cur.fd \in Fd /\ cur.ev \in event /\ cur.co \in Coroutine
    BY <1>1, <1>3 DEF WellFormed
  <2>2. CASE Live(cur) /\ ~cancelled[cur.co]
    <3> DEFINE fd == cur.fd
               es == {cur.ev} \cap Registered(fd)
    <3>1. /\ TriggerAll(fd, es) /\ AddTasks(Woken(fd, es)) /\ ready' = ready
          /\ cancelled' = [cancelled EXCEPT ![cur.co] = TRUE]
      BY <1>3, <2>2 DEF RunTimeout, CancelEvent
    <3>2. es \in SUBSET Registered(fd) /\ es \in SUBSET event
      BY DEF Registered
    <3>3. {fd} \X es \in SUBSET Registrations /\ Removed({fd} \X es)
      BY <1>1, <2>1, <3>1, <3>2, TriggerAllFacts
    <3>4. Woke({fd} \X es, Woken(fd, es))
      BY <2>1, <3>2, WokenFacts
    <3>5. tasks' = tasks \o Woken(fd, es) /\ pipe' = Tickled(tasks = <<>> /\ Woken(fd, es) # <<>>)
      BY <3>1 DEF AddTasks
    <3>6. Moves(tasks)
      BY <3>3, <3>4, <3>5 DEF Moves
    <3>7. Flags'
      BY <1>1, <1>a, <3>1, <3>5, FlagsKeep DEF Flags
    <3> QED
      BY <1>1, <1>3, <2>2, <3>1, <3>6, <3>7
  <2>3. CASE ~(Live(cur) /\ ~cancelled[cur.co])
    <3>1. UNCHANGED <<tasks, pipe, eventVars, cancelled>> /\ ready' = ready
      BY <1>3, <2>3 DEF RunTimeout
    <3>2. Quiet /\ cancelled' = cancelled /\ Flags'
      BY <3>1, <1>1, <1>a DEF eventVars, Quiet, Flags
    <3> QED
      BY <1>1, <1>3, <3>2
  <2> QED
    BY <2>2, <2>3
<1>4. CASE cur.kind = "watch" /\ RunWatch
  <2>1. cur.fd \in Fd /\ cur.ev \in event
    BY <1>1, <1>4 DEF WellFormed
  <2>2. Consume(cur.fd, cur.ev) /\ UNCHANGED <<tasks, pipe, eventVars, cancelled>>
    BY <1>4 DEF RunWatch
  <2>3. Quiet /\ cancelled' = cancelled /\ Flags'
    BY <1>1, <1>a, <2>1, <2>2, FlagsKeep DEF eventVars, Quiet, Flags
  <2> QED
    BY <1>1, <1>4, <2>3
<1>5. CASE cur.kind = "tick" /\ RunTick
  <2>1. Quiet /\ cancelled' = cancelled /\ Flags'
    BY <1>5, <1>1, <1>a DEF RunTick, eventVars, Quiet, Flags
  <2> QED
    BY <1>1, <1>5, <2>1
<1> QED
  BY <1>2, <1>3, <1>4, <1>5 DEF Callback

-----------------------------------------------------------------------------
\* The steps keep the counter of registered events.

LEMMA EventsStep ==
  ASSUME IInv, Next
  PROVE  waiting' \in Waits /\ PendingCounted'
<1>0. /\ TypeOK /\ ShapeInv /\ StateInv /\ TimerInv /\ PendingCounted /\ waiting \in Waits
      /\ tasks \in Seq(TaskType) /\ timers \in Seq(TaskType)
  BY DEF IInv, TypeOK, Waits
<1>u. ASSUME waiting' = waiting, pending' = pending
      PROVE  waiting' \in Waits /\ PendingCounted'
  BY <1>0, <1>u DEF PendingCounted, Registrations
<1>m. ASSUME NEW base \in Seq(TaskType), Moves(base)
      PROVE  waiting' \in Waits /\ PendingCounted'
  BY <1>0, <1>m, MovesFacts
<1>1. CASE \E c \in Coroutine : MainAdds(c)
  BY <1>1, <1>u, MainAddsEffect
<1>2. CASE MainAddsTimer \/ CallStop \/ Stop \/ Joined
  BY <1>2, <1>u, MainAddsTimerEffect, CallStopEffect, StopEffect, JoinedEffect
<1>3. CASE (\E fd \in Fd : HangUp(fd)) \/ \E fd \in Fd, e \in event : Arrive(fd, e)
  BY <1>3, <1>u, HangUpEffect, ArriveEffect
<1>4. CASE Take \/ NoTask \/ EnterIdle \/ GetNextDuration \/ CheckStopping
  BY <1>4, <1>u, TakeEffect, NoTaskEffect, EnterIdleEffect, GetNextDurationEffect,
     CheckStoppingEffect
<1>5. CASE Callback
  BY <1>0, <1>5, <1>u, <1>m, CallbackCases DEF Quiet
<1>6. CASE \E n \in 0 .. Len(timers) : Pass(n)
  BY <1>0, <1>6, <1>m, PassMoves
<1>7. CASE \E c \in Coroutine : Returns(c)
  BY <1>7, <1>u, ReturnsEffect
<1>8. CASE \E c \in Coroutine : \E fd \in Fd, e \in event, call \in {"io", "connect"} :
             Blocking(c, call, fd, e)
  <2>1. PICK c \in Coroutine, fd \in Fd, e \in event : Added(fd, e, c)
    BY <1>8, BlockingEffect
  <2> QED
    BY <1>0, <2>1, AddedFacts
<1>9. CASE \E c \in Coroutine, fd \in Fd, e \in event : AddWatch(c, fd, e)
  <2>1. PICK c \in Coroutine, fd \in Fd, e \in event : AddWatch(c, fd, e)
    BY <1>9
  <2>2. Added(fd, e, Watcher) \/ (waiting' = waiting /\ pending' = pending)
    BY <2>1, AddWatchEffect
  <2>3. Watcher \in Coroutine \cup {Watcher}
    OBVIOUS
  <2> QED
    BY <1>0, <1>u, <2>2, <2>3, AddedFacts
<1>10. CASE \E c \in Coroutine, fd \in Fd : Close(c, fd)
  BY <1>0, <1>10, <1>m, CloseMoves
<1>11. CASE \E c \in Coroutine, d \in Coroutine : Spawn(c, d)
  BY <1>11, <1>u, SpawnEffect
<1>12. CASE \E c \in Coroutine : Sleep(c) \/ Finish(c)
  BY <1>12, <1>u, SleepEffect, FinishEffect
<1> QED
  BY <1>0, <1>1, <1>2, <1>3, <1>4, <1>5, <1>6, <1>7, <1>8, <1>9, <1>10, <1>11, <1>12,
     NextCases, Zenon

-----------------------------------------------------------------------------
\* The steps keep the timers and the queue in shape.

UsedOk == used \in [Coroutine -> Nat] /\ \A c \in Coroutine : used[c] <= MaxOps[c]

LEMMA UsedStep ==
  ASSUME IInv, Next
  PROVE  UsedOk' /\ \A c \in Coroutine : used[c] <= used'[c]
<1>0. TypeOK /\ StateInv /\ TimerInv /\ UsedOk
  BY DEF IInv, TypeOK, UsedOk
<1>a. \A c \in Coroutine : MaxOps[c] \in Nat
  BY CoroutinesAssumption
<1>u. ASSUME used' = used
      PROVE  UsedOk' /\ \A c \in Coroutine : used[c] <= used'[c]
  BY <1>0, <1>u DEF UsedOk
<1>i. ASSUME NEW c \in Coroutine, used[c] < MaxOps[c], used' = [used EXCEPT ![c] = used[c] + 1]
      PROVE  UsedOk' /\ \A d \in Coroutine : used[d] <= used'[d]
  <2>1. used' \in [Coroutine -> Nat]
    BY <1>0, <1>i DEF UsedOk
  <2>2. \A d \in Coroutine : used'[d] = IF d = c THEN used[c] + 1 ELSE used[d]
    BY <1>0, <1>i DEF UsedOk
  <2>3. \A d \in Coroutine : used[d] \in Nat /\ used[d] <= MaxOps[d]
    BY <1>0 DEF UsedOk
  <2>4. \A d \in Coroutine : used'[d] <= MaxOps[d] /\ used[d] <= used'[d]
    BY <2>2, <2>3, <1>a, <1>i
  <2> QED
    BY <2>1, <2>4 DEF UsedOk
<1>c. ASSUME NEW c \in Coroutine, Calls(c)
      PROVE  UsedOk' /\ \A d \in Coroutine : used[d] <= used'[d]
  BY <1>c, <1>i DEF Calls
<1>s. ASSUME NEW c \in Coroutine, Spends(c)
      PROVE  UsedOk' /\ \A d \in Coroutine : used[d] <= used'[d]
  BY <1>s, <1>i, <1>u DEF Spends
<1>1. CASE \E c \in Coroutine : MainAdds(c)
  BY <1>1, <1>u, MainAddsEffect
<1>2. CASE MainAddsTimer \/ CallStop \/ Stop \/ Joined
  BY <1>2, <1>u, MainAddsTimerEffect, CallStopEffect, StopEffect, JoinedEffect
<1>3. CASE (\E fd \in Fd : HangUp(fd)) \/ \E fd \in Fd, e \in event : Arrive(fd, e)
  BY <1>3, <1>u, HangUpEffect, ArriveEffect
<1>4. CASE Take \/ NoTask \/ EnterIdle \/ GetNextDuration \/ CheckStopping \/ Callback
  BY <1>4, <1>u, TakeEffect, NoTaskEffect, EnterIdleEffect, GetNextDurationEffect,
     CheckStoppingEffect, CallbackEffect
<1>5. CASE \E n \in 0 .. Len(timers) : Pass(n)
  BY <1>5, <1>u, PassEffect
<1>6. CASE \E c \in Coroutine : Returns(c)
  BY <1>6, <1>s, ReturnsEffect
<1>7. CASE \E c \in Coroutine : \E fd \in Fd, e \in event, call \in {"io", "connect"} :
             Blocking(c, call, fd, e)
  BY <1>7, <1>s, BlockingEffect
<1>8. CASE \/ \E c \in Coroutine, fd \in Fd, e \in event : AddWatch(c, fd, e)
           \/ \E c \in Coroutine, fd \in Fd : Close(c, fd)
           \/ \E c \in Coroutine, d \in Coroutine : Spawn(c, d)
           \/ \E c \in Coroutine : Sleep(c)
  BY <1>8, <1>c, AddWatchEffect, CloseEffect, SpawnEffect, SleepEffect
<1>9. CASE \E c \in Coroutine : Finish(c)
  BY <1>9, <1>u, FinishEffect
<1> QED
  BY <1>0, <1>1, <1>2, <1>3, <1>4, <1>5, <1>6, <1>7, <1>8, <1>9, NextCases, Zenon

TimerOk(t) ==
  /\ WellFormed(t) /\ t.kind # "resume"
  /\ t.co # Nil => wait[t.co] # NoCall
  /\ t.kind = "timeout" => t.call <= used[t.co]
\* The same of t in the next state.
StillOk(t) ==
  /\ WellFormed(t) /\ t.kind # "resume"
  /\ t.co # Nil => wait'[t.co] # NoCall
  /\ t.kind = "timeout" => t.call <= used'[t.co]
TimersOk ==
  timers \in Seq(TaskType) /\ Distinct(timers) /\ \A i \in DOMAIN timers : TimerOk(timers[i])

LEMMA TimersAreOk == ASSUME IInv PROVE TimersOk
BY DEF IInv, TypeOK, ShapeInv, TimerInv, PastCalls, TimersOk, TimerOk

LEMMA TimerStaysOk ==
  ASSUME UsedOk, UsedOk', \A c \in Coroutine : used[c] <= used'[c],
         NEW t, TimerOk(t), t.co # Nil => wait'[t.co] # NoCall
  PROVE  StillOk(t)
<1>1. t.kind = "timeout" => t.co \in Coroutine /\ t.call \in Nat
  BY DEF TimerOk, WellFormed, TaskType
<1>2. t.kind = "timeout" => t.call <= used'[t.co]
  <2> SUFFICES ASSUME t.kind = "timeout" PROVE t.call <= used'[t.co]
    OBVIOUS
  <2>1. t.call \in Nat /\ used[t.co] \in Nat /\ used'[t.co] \in Nat /\ used[t.co] <= used'[t.co]
    BY <1>1 DEF UsedOk
  <2>2. t.call <= used[t.co]
    BY DEF TimerOk
  <2> QED
    BY <2>1, <2>2
<1> QED
  BY <1>2 DEF TimerOk, StillOk

LEMMA NextTimers ==
  ASSUME NEW s \in Seq(TaskType), timers' = s, Distinct(s), \A j \in DOMAIN s : StillOk(s[j])
  PROVE  TimersOk'
BY DEF TimersOk, TimerOk, StillOk

LEMMA TimersStep ==
  ASSUME IInv, Next
  PROVE  TimersOk'
<1>0. /\ TypeOK /\ StateInv /\ TimerInv /\ TimersOk /\ UsedOk /\ UsedOk'
      /\ \A c \in Coroutine : used[c] <= used'[c]
      /\ wait \in [Coroutine -> [call : {"none", "io", "connect", "sleep"},
                                 fd : Fd \cup {Nil}, ev : event \cup {Nil}]]
      /\ timers \in Seq(TaskType) /\ Distinct(timers) /\ made \in Nat
  BY UsedStep, TimersAreOk, CoroutinesAssumption DEF IInv, TypeOK, UsedOk, TimerInv
<1>n. Nil \notin Coroutine /\ NoCall.call = "none"
  BY CoroutinesAssumption DEF NoCall
<1>u. ASSUME timers' = timers, wait' = wait
      PROVE  TimersOk'
  <2>1. \A i \in DOMAIN timers : StillOk(timers[i])
    BY <1>0, <1>u, TimerStaysOk DEF TimersOk, TimerOk
  <2> QED
    BY <1>0, <1>u, <2>1 DEF TimersOk, TimerOk, StillOk
<1>w. ASSUME NEW c \in Coroutine, NEW s, s = TimersWithout(c),
             \A d \in Coroutine : d # c => wait'[d] = wait[d]
      PROVE  s \in Seq(TaskType) /\ Distinct(s)
             /\ \A j \in DOMAIN s : s[j].co # c /\ StillOk(s[j])
  <2>1. /\ s \in Seq(TaskType) /\ Distinct(s) /\ Parts(s, timers)
        /\ \A j \in DOMAIN s : s[j].co # c
    BY <1>0, <1>w, WithoutFacts
  <2>2. ASSUME NEW j \in DOMAIN s PROVE StillOk(s[j])
    <3>1. TimerOk(s[j])
      BY <1>0, <2>1 DEF Parts, TimersOk
    <3>2. s[j].co # c /\ s[j].co \in Coroutine \cup {Nil}
      BY <2>1, <3>1 DEF TimerOk, WellFormed, TaskType
    <3>3. s[j].co # Nil => wait'[s[j].co] # NoCall
      BY <1>w, <3>1, <3>2 DEF TimerOk, StillOk
    <3> QED
      BY <1>0, <3>1, <3>3, TimerStaysOk
  <2> QED
    BY <2>1, <2>2
<1>i. ASSUME NEW s \in Seq(TaskType), Distinct(s), \A j \in DOMAIN s : StillOk(s[j]),
             NEW i \in 1 .. Len(s) + 1, NEW t, StillOk(t),
             t.co # Nil => \A j \in DOMAIN s : s[j].co # t.co, timers' = InsertAt(s, i, t)
      PROVE  TimersOk'
  <2>1. t \in TaskType
    BY <1>i DEF StillOk, WellFormed
  <2>2. InsertAt(s, i, t) \in Seq(TaskType)
    BY <2>1, InsertFacts
  <2>3. /\ Distinct(InsertAt(s, i, t))
        /\ \A j \in DOMAIN InsertAt(s, i, t) :
              InsertAt(s, i, t)[j] = t \/ \E k \in DOMAIN s : InsertAt(s, i, t)[j] = s[k]
    BY <1>i, <2>1, InsertDistinct, Zenon
  <2> DEFINE u == InsertAt(s, i, t)
  <2>4. \A j \in DOMAIN u : StillOk(u[j])
    <3> TAKE j \in DOMAIN u
    <3>1. u[j] = t \/ \E k \in DOMAIN s : u[j] = s[k]
      BY <2>3
    <3> HIDE DEF u
    <3> QED
      BY <1>i, <3>1
  <2>5. timers' = u
    BY <1>i
  <2> QED
    BY <2>2, <2>3, <2>4, <2>5 DEF TimersOk, TimerOk, StillOk
<1>1. CASE \E c \in Coroutine : MainAdds(c)
  BY <1>1, <1>u, MainAddsEffect
<1>2. CASE CallStop \/ Stop \/ Joined
  BY <1>2, <1>u, CallStopEffect, StopEffect, JoinedEffect
<1>3. CASE (\E fd \in Fd : HangUp(fd)) \/ \E fd \in Fd, e \in event : Arrive(fd, e)
  BY <1>3, <1>u, HangUpEffect, ArriveEffect
<1>4. CASE Take \/ NoTask \/ EnterIdle \/ GetNextDuration \/ CheckStopping \/ Callback
  BY <1>4, <1>u, TakeEffect, NoTaskEffect, EnterIdleEffect, GetNextDurationEffect,
     CheckStoppingEffect, CallbackEffect
<1>5. CASE MainAddsTimer
  <2>1. PICK i \in 1 .. Len(timers) + 1 : timers' = InsertAt(timers, i, Tick(made))
    BY <1>5, MainAddsTimerEffect DEF AddTimer
  <2>2. wait' = wait
    BY <1>5, MainAddsTimerEffect
  <2>3. \A j \in DOMAIN timers : StillOk(timers[j])
    BY <1>0, <2>2, TimerStaysOk DEF TimersOk, TimerOk
  <2>4. StillOk(Tick(made)) /\ Tick(made).co = Nil
    BY <1>0, TaskForms DEF TimerOk, StillOk
  <2> HIDE DEF Tick
  <2> DEFINE t == Tick(made)
  <2>5. StillOk(t) /\ t.co = Nil /\ timers' = InsertAt(timers, i, t)
    BY <2>1, <2>4
  <2> HIDE DEF t
  <2> QED
    BY <1>0, <1>i, <2>3, <2>5
<1>6. CASE \E n \in 0 .. Len(timers) : Pass(n)
  <2>1. PICK n \in 0 .. Len(timers) : Pass(n)
    BY <1>6
  <2> DEFINE s == SubSeq(timers, n + 1, Len(timers))
  <2>2. timers' = s /\ wait' = wait
    BY <2>1, PassEffect
  <2>3. s \in Seq(TaskType) /\ Distinct(s) /\ Parts(s, timers)
    BY <1>0, SplitFacts, RestDistinct
  <2> HIDE DEF s
  <2>4. \A j \in DOMAIN timers : StillOk(timers[j])
    BY <1>0, <2>2, TimerStaysOk DEF TimersOk, TimerOk
  <2>5. \A j \in DOMAIN s : StillOk(s[j])
    BY <2>3, <2>4 DEF Parts
  <2> QED
    BY <2>2, <2>3, <2>5 DEF TimersOk, TimerOk, StillOk
<1>7. CASE \E c \in Coroutine : Returns(c)
  <2>1. PICK c \in Coroutine : Returns(c)
    BY <1>7
  <2>2. timers' = TimersWithout(c) /\ \A d \in Coroutine : d # c => wait'[d] = wait[d]
    BY <1>0, <2>1, ReturnsEffect
  <2> DEFINE s == TimersWithout(c)
  <2>3. s \in Seq(TaskType) /\ Distinct(s) /\ \A j \in DOMAIN s : StillOk(s[j])
    BY <1>w, <2>2
  <2> HIDE DEF s
  <2>4. timers' = s
    BY <2>2 DEF s
  <2> QED
    BY <2>3, <2>4 DEF TimersOk, TimerOk, StillOk
<1>8. CASE \E c \in Coroutine : \E fd \in Fd, e \in event, call \in {"io", "connect"} :
             Blocking(c, call, fd, e)
  <2>1. PICK c \in Coroutine, fd \in Fd, e \in event, call \in {"io", "connect"} :
               Blocking(c, call, fd, e)
    BY <1>8
  <2> DEFINE s == TimersWithout(c)
             n == used'[c]
             t == Timeout(c, fd, e, n)
  <2>2. /\ timers' = s \/ \E i \in 1 .. Len(s) + 1 : timers' = InsertAt(s, i, t)
        /\ wait' = [wait EXCEPT ![c] = [call |-> call, fd |-> fd, ev |-> e]]
    BY <2>1, BlockingEffect
  <2>3. /\ \A d \in Coroutine : d # c => wait'[d] = wait[d]
        /\ wait'[c].call = call
    BY <1>0, <2>2
  <2>4. s \in Seq(TaskType) /\ Distinct(s) /\ \A j \in DOMAIN s : s[j].co # c /\ StillOk(s[j])
    BY <1>w, <2>3
  <2>5. n \in Nat
    BY <1>0 DEF UsedOk
  <2> HIDE DEF s, n
  <2>6. WellFormed(t) /\ t.kind = "timeout" /\ t.co = c /\ t.call = n
    BY <2>5, TaskForms
  <2>7. wait'[c] # NoCall /\ n <= used'[c]
    <3>1. n = used'[c]
      BY DEF n
    <3>2. n <= n
      BY <2>5
    <3> QED
      BY <1>n, <2>3, <3>1, <3>2
  <2> HIDE DEF t
  <2>8. ASSUME NEW x, x = t
        PROVE  StillOk(x)
    BY <2>6, <2>7, <2>8 DEF TimerOk, StillOk
  <2>9. CASE timers' = s
    BY <2>4, <2>9 DEF TimersOk, TimerOk, StillOk
  <2>10. CASE \E i \in 1 .. Len(s) + 1 : timers' = InsertAt(s, i, t)
    <3>1. PICK i \in 1 .. Len(s) + 1 : timers' = InsertAt(s, i, t)
      BY <2>10
    <3>2. PICK x : x = t
      OBVIOUS
    <3>3. PICK q : q = s
      OBVIOUS
    <3>4. StillOk(x) /\ x.co = c /\ timers' = InsertAt(q, i, x) /\ i \in 1 .. Len(q) + 1
      BY <2>6, <2>8, <3>1, <3>2, <3>3
    <3>5. q \in Seq(TaskType) /\ Distinct(q) /\ \A j \in DOMAIN q : q[j].co # c /\ StillOk(q[j])
      BY <2>4, <3>3
    <3> QED
      BY <1>i, <3>4, <3>5
  <2> QED
    BY <2>2, <2>9, <2>10
<1>9. CASE \/ \E c \in Coroutine, fd \in Fd, e \in event : AddWatch(c, fd, e)
           \/ \E c \in Coroutine, fd \in Fd : Close(c, fd)
           \/ \E c \in Coroutine, d \in Coroutine : Spawn(c, d)
  BY <1>9, <1>u, AddWatchEffect, CloseEffect, SpawnEffect
<1>10. CASE \E c \in Coroutine : Sleep(c)
  <2>1. PICK c \in Coroutine : Sleep(c)
    BY <1>10
  <2>2. PICK i \in 1 .. Len(timers) + 1 : timers' = InsertAt(timers, i, Awake(c))
    BY <2>1, SleepEffect DEF AddTimer
  <2>3. /\ wait' = [wait EXCEPT ![c] = [call |-> "sleep", fd |-> Nil, ev |-> Nil]]
        /\ wait[c] = NoCall
    BY <2>1, SleepEffect DEF Calls, Free
  <2>4. \A d \in Coroutine : wait'[d] = IF d = c THEN [call |-> "sleep", fd |-> Nil, ev |-> Nil]
                                               ELSE wait[d]
    BY <1>0, <2>3
  <2>5. wait'[c] # NoCall /\ \A d \in Coroutine : d # c => wait'[d] = wait[d]
    <3>1. wait'[c].call = "sleep"
      BY <2>4
    <3> QED
      BY <1>n, <2>4, <3>1
  <2>6. \A j \in DOMAIN timers : timers[j].co # c
    BY <1>0, <2>3, FreeTimers
  <2>7. ASSUME NEW j \in DOMAIN timers PROVE StillOk(timers[j])
    <3>1. TimerOk(timers[j]) /\ timers[j].co # c
      BY <1>0, <2>6 DEF TimersOk, TimerOk, StillOk
    <3>2. timers[j].co \in Coroutine \cup {Nil}
      BY <3>1 DEF TimerOk, WellFormed, TaskType
    <3>3. timers[j].co # Nil => wait'[timers[j].co] # NoCall
      BY <2>5, <3>1, <3>2 DEF TimerOk, StillOk
    <3> QED
      BY <1>0, <3>1, <3>3, TimerStaysOk
  <2>8. WellFormed(Awake(c)) /\ Awake(c).kind = "wake" /\ Awake(c).co = c
    BY TaskForms
  <2>9. StillOk(Awake(c))
    BY <2>5, <2>8 DEF TimerOk, StillOk
  <2> QED
    BY <1>0, <1>i, <2>2, <2>6, <2>7, <2>8, <2>9
<1>11. CASE \E c \in Coroutine : Finish(c)
  BY <1>11, <1>u, FinishEffect
<1> QED
  BY <1>0, <1>1, <1>2, <1>3, <1>4, <1>5, <1>6, <1>7, <1>8, <1>9, <1>10, <1>11, NextCases, Zenon

TaskOk(t) == WellFormed(t) /\ (t.kind = "timeout" => t.call <= used[t.co])
\* The same of t in the next state.
StillTask(t) == WellFormed(t) /\ (t.kind = "timeout" => t.call <= used'[t.co])
TasksOk == tasks \in Seq(TaskType) /\ \A i \in DOMAIN tasks : TaskOk(tasks[i])

LEMMA TasksAreOk == ASSUME IInv PROVE TasksOk
BY DEF IInv, TypeOK, ShapeInv, PastCalls, TasksOk, TaskOk

LEMMA TaskStaysOk ==
  ASSUME UsedOk, UsedOk', \A c \in Coroutine : used[c] <= used'[c], NEW t, TaskOk(t)
  PROVE  StillTask(t)
<1>1. t.kind = "timeout" => t.co \in Coroutine /\ t.call \in Nat
  BY DEF TaskOk, WellFormed, TaskType
<1>2. t.kind = "timeout" => t.call <= used'[t.co]
  <2> SUFFICES ASSUME t.kind = "timeout" PROVE t.call <= used'[t.co]
    OBVIOUS
  <2>1. t.call \in Nat /\ used[t.co] \in Nat /\ used'[t.co] \in Nat /\ used[t.co] <= used'[t.co]
    BY <1>1 DEF UsedOk
  <2>2. t.call <= used[t.co]
    BY DEF TaskOk
  <2> QED
    BY <2>1, <2>2
<1> QED
  BY <1>2 DEF TaskOk, StillTask

LEMMA TasksStep ==
  ASSUME IInv, Next
  PROVE  TasksOk'
<1>0. /\ TypeOK /\ ShapeInv /\ StateInv /\ TimerInv /\ TasksOk /\ UsedOk /\ UsedOk' /\ TimersOk
      /\ \A c \in Coroutine : used[c] <= used'[c]
      /\ timers \in Seq(TaskType) /\ tasks \in Seq(TaskType)
      /\ waiting \in Waits /\ PendingCounted
  BY UsedStep, TasksAreOk, TimersAreOk DEF IInv, TypeOK, UsedOk, Waits
<1>1. \A i \in DOMAIN tasks : StillTask(tasks[i])
  BY <1>0, TaskStaysOk DEF TasksOk
<1>u. ASSUME tasks' = tasks
      PROVE  TasksOk'
  BY <1>0, <1>1, <1>u DEF TasksOk, TaskOk, StillTask
<1>r. ASSUME NEW d \in Coroutine, tasks' = tasks \o <<Resume(d)>>
      PROVE  TasksOk'
  <2> DEFINE t == Resume(d)
             one == <<t>>
             u == tasks \o one
  <2>1. WellFormed(t) /\ t.kind = "resume" /\ t \in TaskType
    BY TaskForms DEF WellFormed
  <2>2. StillTask(t)
    BY <2>1 DEF StillTask
  <2> HIDE DEF t
  <2>3. one \in Seq(TaskType) /\ DOMAIN one = {1} /\ one[1] = t
    BY <2>1, OneTaskFacts
  <2> HIDE DEF one
  <2>4. /\ u \in Seq(TaskType)
        /\ \A i \in DOMAIN tasks : u[i] = tasks[i]
        /\ \A i \in DOMAIN one : u[Len(tasks) + i] = one[i]
        /\ \A i \in DOMAIN u : i \in DOMAIN tasks \/ \E j \in DOMAIN one : i = Len(tasks) + j
    BY <1>0, <2>3, ConcatFacts
  <2> HIDE DEF u
  <2>5. tasks' = u
    BY <1>r DEF u, one, t
  <2>6. \A i \in DOMAIN u : StillTask(u[i])
    <3> TAKE i \in DOMAIN u
    <3>1. CASE i \in DOMAIN tasks
      BY <1>1, <2>4, <3>1
    <3>2. CASE i \notin DOMAIN tasks
      BY <2>2, <2>3, <2>4, <3>2
    <3> QED
      BY <3>1, <3>2
  <2> QED
    BY <2>4, <2>5, <2>6 DEF TasksOk, TaskOk, StillTask
<1>m. ASSUME NEW base \in Seq(TaskType), \A i \in DOMAIN base : StillTask(base[i]), Moves(base)
      PROVE  TasksOk'
  <2>1. /\ tasks' \in Seq(TaskType)
        /\ \A i \in DOMAIN base : i \in DOMAIN tasks' /\ tasks'[i] = base[i]
        /\ \A i \in DOMAIN tasks' : i \notin DOMAIN base =>
             i > Len(base) /\ WellFormed(tasks'[i]) /\ tasks'[i].kind \in {"resume", "watch"}
    BY <1>0, <1>m, MovesFacts, Zenon
  <2>2. ASSUME NEW i \in DOMAIN tasks'
        PROVE  StillTask(tasks'[i])
    <3>1. CASE i \in DOMAIN base
      BY <1>m, <2>1, <3>1
    <3>2. CASE i \notin DOMAIN base
      BY <2>1, <3>2 DEF StillTask
    <3> QED
      BY <3>1, <3>2
  <2> QED
    BY <2>1, <2>2 DEF TasksOk, TaskOk, StillTask
<1>2. CASE \E c \in Coroutine : MainAdds(c)
  BY <1>2, <1>r, MainAddsEffect
<1>3. CASE MainAddsTimer \/ CallStop \/ Stop \/ Joined
  BY <1>3, <1>u, MainAddsTimerEffect, CallStopEffect, StopEffect, JoinedEffect
<1>4. CASE (\E fd \in Fd : HangUp(fd)) \/ \E fd \in Fd, e \in event : Arrive(fd, e)
  BY <1>4, <1>u, HangUpEffect, ArriveEffect
<1>5. CASE NoTask \/ EnterIdle \/ GetNextDuration \/ CheckStopping
  BY <1>5, <1>u, NoTaskEffect, EnterIdleEffect, GetNextDurationEffect,
     CheckStoppingEffect
<1>6. CASE Take
  <2>1. tasks # <<>> /\ tasks' = Tail(tasks)
    BY <1>6, TakeEffect
  <2>2. /\ Tail(tasks) \in Seq(TaskType)
        /\ \A i \in DOMAIN Tail(tasks) : i + 1 \in DOMAIN tasks /\ Tail(tasks)[i] = tasks[i + 1]
    BY <1>0, <2>1, HeadTailFacts
  <2>3. \A i \in DOMAIN Tail(tasks) : StillTask(Tail(tasks)[i])
    BY <1>1, <2>2
  <2> QED
    BY <2>1, <2>2, <2>3 DEF TasksOk, TaskOk, StillTask
<1>7. CASE Callback
  <2>1. /\ WellFormed(cur)
        /\ \/ cur.kind = "wake" /\ tasks' = tasks \o <<Resume(cur.co)>>
           \/ Moves(tasks)
           \/ Quiet
    BY <1>0, <1>7, CallbackCases
  <2>2. cur.kind = "wake" => cur.co \in Coroutine
    BY <2>1 DEF WellFormed
  <2> QED
    BY <1>0, <1>1, <1>u, <1>r, <1>m, <2>1, <2>2 DEF Quiet
<1>8. CASE \E n \in 0 .. Len(timers) : Pass(n)
  <2>1. PICK n \in 0 .. Len(timers) : Pass(n)
    BY <1>8
  <2>2. Moves(Expired(n)) /\ Expired(n) \in Seq(TaskType)
    BY <1>0, <2>1, PassMoves
  <2> DEFINE s == SubSeq(timers, 1, n)
             u == tasks \o s
  <2>3. s \in Seq(TaskType) /\ Parts(s, timers)
    BY <1>0, SplitFacts, RestDistinct DEF TimersOk
  <2>4. \A i \in DOMAIN timers : StillTask(timers[i])
    BY <1>0, TaskStaysOk DEF TimersOk, TimerOk, TaskOk
  <2>5. \A i \in DOMAIN s : StillTask(s[i])
    BY <2>3, <2>4 DEF Parts
  <2> HIDE DEF s
  <2>6. /\ \A i \in DOMAIN tasks : u[i] = tasks[i]
        /\ \A i \in DOMAIN s : u[Len(tasks) + i] = s[i]
        /\ \A i \in DOMAIN u : i \in DOMAIN tasks \/ \E j \in DOMAIN s : i = Len(tasks) + j
    BY <1>0, <2>3, ConcatFacts
  <2>7. Expired(n) = u
    BY DEF Expired, s
  <2> HIDE DEF u
  <2>8. \A i \in DOMAIN u : StillTask(u[i])
    <3> TAKE i \in DOMAIN u
    <3>1. CASE i \in DOMAIN tasks
      BY <1>1, <2>6, <3>1
    <3>2. CASE i \notin DOMAIN tasks
      BY <2>5, <2>6, <3>2
    <3> QED
      BY <3>1, <3>2
  <2> QED
    BY <1>m, <2>2, <2>7, <2>8
<1>9. CASE \E c \in Coroutine : Returns(c)
  BY <1>9, <1>u, ReturnsEffect
<1>10. CASE \E c \in Coroutine : \E fd \in Fd, e \in event, call \in {"io", "connect"} :
             Blocking(c, call, fd, e)
  BY <1>10, <1>u, BlockingEffect
<1>11. CASE \E c \in Coroutine, fd \in Fd, e \in event : AddWatch(c, fd, e)
  BY <1>11, <1>u, AddWatchEffect
<1>12. CASE \E c \in Coroutine, fd \in Fd : Close(c, fd)
  BY <1>0, <1>1, <1>12, <1>m, CloseMoves
<1>13. CASE \E c \in Coroutine, d \in Coroutine : Spawn(c, d)
  BY <1>13, <1>r, SpawnEffect
<1>14. CASE \E c \in Coroutine : Sleep(c) \/ Finish(c)
  BY <1>14, <1>u, SleepEffect, FinishEffect
<1> QED
  BY <1>0, <1>2, <1>3, <1>4, <1>5, <1>6, <1>7, <1>8, <1>9, <1>10, <1>11, <1>12, <1>13, <1>14,
     NextCases, Zenon

-----------------------------------------------------------------------------
\* The steps keep exactly one waker for who has yielded: the places are counted one by one.

Queued(c) == Count(tasks, c)
Armed(c) == Count(timers, c)
Enrolled(c) == Cardinality(RegistrationsOf(c))
Held(c) == IF pc = "callback" /\ Resumes(cur, c) THEN 1 ELSE 0
Due(c) == IF state[c] = "READY" THEN 1 ELSE 0

LEMMA Places ==
  /\ \A c \in Coroutine : Wakers(c) = Queued(c) + Armed(c) + Enrolled(c) + Held(c)
  /\ OneWaker <=> \A c \in Coroutine : Queued(c) + Armed(c) + Enrolled(c) + Held(c) = Due(c)
BY DEF OneWaker, Wakers, Queued, Armed, Enrolled, Held, Due

LEMMA PlacesAreNat ==
  ASSUME TypeOK, NEW c \in Coroutine
  PROVE  Queued(c) \in Nat /\ Armed(c) \in Nat /\ Enrolled(c) \in Nat /\ Held(c) \in Nat
         /\ Due(c) \in Nat
<1>1. RegistrationsOf(c) \in SUBSET (Fd \X event)
  BY DEF RegistrationsOf
<1>2. tasks \in Seq(TaskType) /\ timers \in Seq(TaskType)
  BY DEF TypeOK
<1>3. Queued(c) \in Nat /\ Armed(c) \in Nat
  BY <1>2, CountIsNat DEF Queued, Armed
<1>4. Enrolled(c) \in Nat
  BY <1>1, FinitePairs DEF Enrolled
<1> QED
  BY <1>3, <1>4 DEF Held, Due

LEMMA RunsUnwoken ==
  ASSUME TypeOK, OneWaker, NEW c \in Coroutine, state[c] # "READY"
  PROVE  Queued(c) = 0 /\ Armed(c) = 0 /\ Enrolled(c) = 0 /\ Held(c) = 0
<1>1. Queued(c) + Armed(c) + Enrolled(c) + Held(c) = 0
  BY Places DEF Due
<1>2. Queued(c) \in Nat /\ Armed(c) \in Nat /\ Enrolled(c) \in Nat /\ Held(c) \in Nat
  BY PlacesAreNat
<1> QED
  BY <1>1, <1>2

LEMMA Resumers ==
  ASSUME NEW c \in Coroutine, NEW d \in Coroutine
  PROVE  /\ Resumes(Resume(c), d) <=> d = c
         /\ Resumes(Awake(c), d) <=> d = c
         /\ \A fd \in Fd, e \in event, n \in Nat : ~Resumes(Timeout(c, fd, e, n), d)
         /\ \A n \in Nat : ~Resumes(Tick(n), d)
BY TaskForms DEF Resumes

LEMMA QueuesResume ==
  ASSUME TypeOK, NEW c \in Coroutine, NEW d \in Coroutine, tasks' = tasks \o <<Resume(c)>>
  PROVE  Queued(d)' = Queued(d) + (IF d = c THEN 1 ELSE 0)
<1>1. tasks \in Seq(TaskType) /\ Resume(c) \in TaskType
  BY TaskForms DEF TypeOK, WellFormed
<1>2. <<Resume(c)>> \in Seq(TaskType)
  BY <1>1, OneTaskFacts
<1>3. Count(<<Resume(c)>>, d) = IF Resumes(Resume(c), d) THEN 1 ELSE 0
  BY <1>1, CountOne
<1>4. Count(tasks \o <<Resume(c)>>, d) = Count(tasks, d) + Count(<<Resume(c)>>, d)
  BY <1>1, <1>2, CountConcat, Zenon
<1>5. Queued(d)' = Queued(d) + Count(<<Resume(c)>>, d)
  BY <1>4 DEF Queued
<1> QED
  BY <1>3, <1>5, Resumers

LEMMA ArmsTimer ==
  ASSUME TypeOK, NEW t \in TaskType, NEW d \in Coroutine, AddTimer(t)
  PROVE  Armed(d)' = Armed(d) + (IF Resumes(t, d) THEN 1 ELSE 0)
<1>1. timers \in Seq(TaskType)
  BY DEF TypeOK
<1>2. PICK i \in 1 .. Len(timers) + 1 : timers' = InsertAt(timers, i, t)
  BY DEF AddTimer
<1>3. Count(InsertAt(timers, i, t), d) = Count(timers, d) + (IF Resumes(t, d) THEN 1 ELSE 0)
  BY <1>1, CountInsert
<1> QED
  BY <1>2, <1>3 DEF Armed

\* No task is lost: the coroutine of one that resumes is READY.
LEMMA TakeCases ==
  ASSUME TypeOK, ShapeInv, OneWaker, Take
  PROVE  LET t == Head(tasks) IN
         /\ WellFormed(t) /\ cur' = t /\ active' = active + 1
         /\ \/ /\ t.kind = "resume" /\ t.co \in Coroutine /\ state[t.co] = "READY"
               /\ pc' = "run" /\ state' = [state EXCEPT ![t.co] = "RUNNING"]
            \/ t.kind # "resume" /\ pc' = "callback" /\ state' = state
<1> DEFINE t == Head(tasks)
           lost == t.kind = "resume" /\ state[t.co] # "READY"
<1>1. tasks # <<>> /\ tasks \in Seq(TaskType)
  BY TakeEffect DEF TypeOK
<1>2. WellFormed(t)
  BY <1>1, HeadTailFacts DEF ShapeInv
<1>3. IF lost
        THEN UNCHANGED <<pc, cur, active, state>>
        ELSE /\ cur' = t
             /\ active' = active + 1
             /\ pc' = IF t.kind = "resume" THEN "run" ELSE "callback"
             /\ state' = IF t.kind = "resume" THEN [state EXCEPT ![t.co] = "RUNNING"] ELSE state
  BY DEF Take
<1>4. \A c : Count(tasks, c) = Count(Tail(tasks), c) + (IF Resumes(t, c) THEN 1 ELSE 0)
  BY <1>1, CountHead
<1>5. \A c : Count(Tail(tasks), c) \in Nat
  BY <1>1, HeadTailFacts, CountIsNat
<1> HIDE DEF t
<1>6. t.kind = "resume" => t.co \in Coroutine /\ state[t.co] = "READY"
  <2> SUFFICES ASSUME t.kind = "resume" PROVE t.co \in Coroutine /\ state[t.co] = "READY"
    OBVIOUS
  <2>1. t.co \in Coroutine /\ Resumes(t, t.co)
    BY <1>2 DEF WellFormed, Resumes
  <2>2. Queued(t.co) = Count(Tail(tasks), t.co) + 1 /\ Count(Tail(tasks), t.co) \in Nat
    BY <1>4, <1>5, <2>1 DEF Queued
  <2>3. Queued(t.co) # 0
    BY <2>2
  <2> QED
    BY <2>1, <2>3, RunsUnwoken
<1> QED
  BY <1>2, <1>3, <1>6 DEF t

LEMMA WakersStep ==
  ASSUME IInv, Next, NEW d \in Coroutine
  PROVE  Queued(d)' + Armed(d)' + Enrolled(d)' + Held(d)' = Due(d)'
<1>0. /\ TypeOK /\ ShapeInv /\ StateInv /\ StopInv /\ TimerInv /\ OneWaker
      /\ PendingCounted /\ waiting \in Waits
      /\ tasks \in Seq(TaskType) /\ timers \in Seq(TaskType) /\ Distinct(timers)
      /\ state \in [Coroutine -> {"none", "READY", "RUNNING", "TERM"}] /\ made \in Nat
  BY CoroutinesAssumption DEF IInv, TypeOK, Waits, TimerInv
<1>s. Queued(d) + Armed(d) + Enrolled(d) + Held(d) = Due(d)
  BY <1>0, Places
<1>n. /\ Queued(d) \in Nat /\ Armed(d) \in Nat /\ Enrolled(d) \in Nat /\ Held(d) \in Nat
      /\ Due(d) \in Nat
  BY <1>0, PlacesAreNat
<1>f. ASSUME state[d] # "READY"
      PROVE  Queued(d) = 0 /\ Armed(d) = 0 /\ Enrolled(d) = 0 /\ Held(d) = 0
  BY <1>0, <1>f, RunsUnwoken
\* What stays as it is.
<1>q. tasks' = tasks => Queued(d)' = Queued(d)
  BY DEF Queued
<1>a. timers' = timers => Armed(d)' = Armed(d)
  BY DEF Armed
<1>e. waiting' = waiting => Enrolled(d)' = Enrolled(d)
  BY DEF Enrolled, RegistrationsOf
<1>h. pc' = pc /\ cur' = cur => Held(d)' = Held(d)
  BY DEF Held
<1>i. pc # "callback" /\ pc' # "callback" => Held(d) = 0 /\ Held(d)' = 0
  BY DEF Held
<1>d. state' = state => Due(d)' = Due(d)
  BY DEF Due
<1>u. ASSUME tasks' = tasks, timers' = timers, waiting' = waiting, state' = state,
             Held(d)' = Held(d)
      PROVE  Queued(d)' + Armed(d)' + Enrolled(d)' + Held(d)' = Due(d)'
  BY <1>s, <1>q, <1>a, <1>e, <1>d, <1>u
\* A new coroutine enters the queue.
<1>r. ASSUME NEW c \in Coroutine, state[c] = "none", state' = [state EXCEPT ![c] = "READY"],
             tasks' = tasks \o <<Resume(c)>>, timers' = timers, waiting' = waiting,
             pc' = pc, cur' = cur
      PROVE  Queued(d)' + Armed(d)' + Enrolled(d)' + Held(d)' = Due(d)'
  <2>1. Queued(d)' = Queued(d) + (IF d = c THEN 1 ELSE 0)
    BY <1>0, <1>r, QueuesResume
  <2>2. Armed(d)' = Armed(d) /\ Enrolled(d)' = Enrolled(d) /\ Held(d)' = Held(d)
    BY <1>a, <1>e, <1>h, <1>r
  <2>3. Due(d)' = IF d = c THEN 1 ELSE Due(d)
    BY <1>0, <1>r DEF Due
  <2>4. d = c => state[d] # "READY"
    BY <1>r
  <2>5. d = c => Queued(d) = 0 /\ Armed(d) = 0 /\ Enrolled(d) = 0 /\ Held(d) = 0
    BY <1>f, <2>4
  <2> QED
    BY <1>s, <1>n, <2>1, <2>2, <2>3, <2>5
\* Registrations move into the queue.
<1>m. ASSUME NEW base \in Seq(TaskType), Moves(base),
             Count(base, d) + Armed(d)' + Held(d)' = Queued(d) + Armed(d) + Held(d),
             Armed(d)' \in Nat, Held(d)' \in Nat, state' = state
      PROVE  Queued(d)' + Armed(d)' + Enrolled(d)' + Held(d)' = Due(d)'
  <2>1. Count(tasks', d) + Cardinality(RegistrationsOf(d))'
          = Count(base, d) + Cardinality(RegistrationsOf(d))
    BY <1>0, <1>m, MovesFacts
  <2>2. Queued(d)' + Enrolled(d)' = Count(base, d) + Enrolled(d)
    BY <2>1 DEF Queued, Enrolled
  <2>3. tasks' \in Seq(TaskType)
    BY <1>0, <1>m, MovesFacts
  <2>4. Count(tasks', d) \in Nat /\ Count(base, d) \in Nat
    BY <2>3, CountIsNat
  <2>5. RegistrationsOf(d)' \in SUBSET (Fd \X event)
    BY DEF RegistrationsOf
  <2>6. Enrolled(d)' \in Nat
    BY <2>5, FinitePairs DEF Enrolled
  <2>7. Queued(d)' \in Nat
    BY <2>4 DEF Queued
  <2>8. Due(d)' = Due(d)
    BY <1>d, <1>m
  <2> DEFINE b == Count(base, d)
  <2>9. b + Armed(d)' + Held(d)' = Queued(d) + Armed(d) + Held(d)
        /\ Armed(d)' \in Nat /\ Held(d)' \in Nat /\ b \in Nat
        /\ Queued(d)' + Enrolled(d)' = b + Enrolled(d)
    BY <1>m, <2>2, <2>4
  <2> HIDE DEF b
  <2>10. Queued(d)' + Armed(d)' + Enrolled(d)' + Held(d)'
           = Queued(d) + Armed(d) + Enrolled(d) + Held(d)
    <3>1. PICK q \in Nat, a \in Nat, h \in Nat, e \in Nat :
                 q = Queued(d) /\ a = Armed(d) /\ h = Held(d) /\ e = Enrolled(d)
      BY <1>n
    <3>2. PICK qq \in Nat, aa \in Nat, hh \in Nat, ee \in Nat :
                 qq = Queued(d)' /\ aa = Armed(d)' /\ hh = Held(d)' /\ ee = Enrolled(d)'
      BY <2>6, <2>7, <2>9
    <3>3. qq + ee = b + e /\ b + aa + hh = q + a + h /\ b \in Nat
      BY <2>9, <3>1, <3>2, Zenon
    <3>4. qq + aa + ee + hh = q + a + e + h
      BY <3>3
    <3> QED
      BY <3>1, <3>2, <3>4, Zenon
  <2> QED
    BY <1>s, <2>8, <2>10
<1>c. ASSUME NEW c \in Coroutine, Running(c)
      PROVE  /\ state[c] = "RUNNING" /\ pc = "run"
             /\ Queued(c) = 0 /\ Armed(c) = 0 /\ Enrolled(c) = 0 /\ Held(c) = 0
  <2>1. state[c] = "RUNNING" /\ pc = "run"
    BY <1>0, <1>c DEF StateInv, Running
  <2> QED
    BY <1>0, <2>1, RunsUnwoken
<1>w. ASSUME NEW c \in Coroutine, Running(c)
      PROVE  TimersWithout(c) \in Seq(TaskType) /\ Count(TimersWithout(c), d) = Armed(d)
  <2>1. Count(timers, c) = 0
    BY <1>c, <1>w DEF Armed
  <2> QED
    BY <1>0, <2>1, WithoutFacts DEF Armed
<1>1. CASE \E c \in Coroutine : MainAdds(c)
  BY <1>1, <1>r, MainAddsEffect
<1>2. CASE MainAddsTimer
  <2>1. AddTimer(Tick(made)) /\ tasks' = tasks /\ waiting' = waiting /\ state' = state
        /\ pc' = pc /\ cur' = cur
    BY <1>2, MainAddsTimerEffect
  <2>2. Tick(made) \in TaskType /\ ~Resumes(Tick(made), d)
    BY <1>0, TaskForms, Resumers DEF WellFormed
  <2>3. Armed(d)' = Armed(d) + 0
    BY <1>0, <2>1, <2>2, ArmsTimer
  <2> QED
    BY <1>s, <1>n, <1>q, <1>e, <1>h, <1>d, <2>1, <2>3
<1>3. CASE Stop
  <2>1. /\ tasks' = tasks /\ timers' = timers /\ waiting' = waiting /\ state' = state
        /\ cur' = cur /\ main = "stop" /\ pc' = IF asWorker THEN "take" ELSE pc
    BY <1>3, StopEffect
  <2>2. Held(d)' = Held(d)
    BY <1>0, <2>1 DEF StopInv, Held
  <2> QED
    BY <1>u, <2>1, <2>2
<1>4. CASE CallStop \/ Joined
  BY <1>4, <1>u, <1>h, CallStopEffect, JoinedEffect
<1>5. CASE \E fd \in Fd : HangUp(fd)
  BY <1>5, <1>u, <1>h, HangUpEffect
<1>6. CASE \E fd \in Fd, e \in event : Arrive(fd, e)
  BY <1>6, <1>u, <1>h, ArriveEffect
<1>7. CASE NoTask
  BY <1>7, <1>u, <1>i, NoTaskEffect
<1>8. CASE EnterIdle \/ GetNextDuration
  BY <1>8, <1>u, <1>i, EnterIdleEffect, GetNextDurationEffect
<1>9. CASE CheckStopping
  <2>1. pc' # "callback"
    BY <1>9 DEF CheckStopping
  <2> QED
    BY <1>9, <2>1, <1>u, <1>i, CheckStoppingEffect
<1>10. CASE Take
  <2> DEFINE t == Head(tasks)
  <2>1. /\ pc = "take" /\ tasks # <<>> /\ tasks' = Tail(tasks)
        /\ timers' = timers /\ waiting' = waiting
    BY <1>10, TakeEffect
  <2>2. /\ t \in TaskType /\ cur' = t
        /\ \/ /\ t.kind = "resume" /\ t.co \in Coroutine /\ state[t.co] = "READY"
              /\ pc' = "run" /\ state' = [state EXCEPT ![t.co] = "RUNNING"]
           \/ t.kind # "resume" /\ pc' = "callback" /\ state' = state
    BY <1>0, <1>10, TakeCases DEF WellFormed
  <2>4. \A c \in Coroutine : Count(tasks, c) = Count(Tail(tasks), c) + (IF Resumes(t, c) THEN 1 ELSE 0)
    BY <1>0, <2>1, CountHead
  <2>5. \A c \in Coroutine : Count(Tail(tasks), c) \in Nat
    BY <1>0, <2>1, HeadTailFacts, CountIsNat
  <2>7. Queued(d) = Queued(d)' + (IF Resumes(t, d) THEN 1 ELSE 0) /\ Queued(d)' \in Nat
    BY <2>1, <2>4, <2>5 DEF Queued
  <2>8. Armed(d)' = Armed(d) /\ Enrolled(d)' = Enrolled(d)
    BY <1>a, <1>e, <2>1
  <2>9. Held(d) = 0
    BY <2>1 DEF Held
  <2>10. CASE t.kind = "resume"
    <3>1. t.co \in Coroutine /\ pc' = "run" /\ state' = [state EXCEPT ![t.co] = "RUNNING"]
      BY <2>2, <2>10
    <3>2. Held(d)' = 0 /\ (Resumes(t, d) <=> d = t.co)
      BY <2>10, <3>1 DEF Held, Resumes
    <3>3. Due(d)' = IF d = t.co THEN 0 ELSE Due(d)
      BY <1>0, <3>1 DEF Due
    <3>4. d = t.co => Due(d) = 1
      BY <2>2, <2>10 DEF Due
    <3> HIDE DEF t
    <3> QED
      BY <1>s, <1>n, <2>7, <2>8, <2>9, <3>2, <3>3, <3>4
  <2>11. CASE t.kind # "resume"
    <3>1. cur' = t /\ pc' = "callback" /\ state' = state
      BY <2>2, <2>11
    <3>2. Held(d)' = IF Resumes(t, d) THEN 1 ELSE 0
      BY <3>1 DEF Held, Resumes
    <3>3. Due(d)' = Due(d)
      BY <1>d, <3>1
    <3> HIDE DEF t
    <3> QED
      BY <1>s, <1>n, <2>7, <2>8, <2>9, <3>2, <3>3
  <2> QED
    BY <2>10, <2>11
<1>11. CASE Callback
  <2>1. pc = "callback" /\ pc' = "take" /\ timers' = timers /\ state' = state
    BY <1>11, CallbackEffect
  <2>2. WellFormed(cur) /\ cur.kind # "resume"
    BY <1>0, <2>1 DEF ShapeInv
  <2>3. \/ cur.kind = "wake" /\ waiting' = waiting /\ tasks' = tasks \o <<Resume(cur.co)>>
        \/ cur.kind = "timeout" /\ Moves(tasks)
        \/ cur.kind # "wake" /\ tasks' = tasks /\ waiting' = waiting
    BY <1>0, <1>11, CallbackCases DEF Quiet
  <2>4. Armed(d)' = Armed(d) /\ Held(d)' = 0 /\ Due(d)' = Due(d)
    BY <1>a, <1>d, <2>1 DEF Held
  <2>5. cur.kind # "wake" => Held(d) = 0
    BY <2>2 DEF Held, Resumes
  <2>6. CASE cur.kind = "wake" /\ waiting' = waiting /\ tasks' = tasks \o <<Resume(cur.co)>>
    <3>1. cur.co \in Coroutine
      BY <2>2, <2>6 DEF WellFormed
    <3>2. Queued(d)' = Queued(d) + (IF d = cur.co THEN 1 ELSE 0)
      BY <1>0, <2>6, <3>1, QueuesResume
    <3>3. Held(d) = IF d = cur.co THEN 1 ELSE 0
      BY <2>1, <2>6 DEF Held, Resumes
    <3>4. Enrolled(d)' = Enrolled(d)
      BY <1>e, <2>6
    <3> QED
      BY <1>s, <1>n, <2>4, <3>2, <3>3, <3>4
  <2>7. CASE cur.kind = "timeout" /\ Moves(tasks)
    <3>1. Count(tasks, d) = Queued(d)
      BY DEF Queued
    <3>2. Held(d) = 0
      BY <2>5, <2>7
    <3>3. Count(tasks, d) + Armed(d)' + Held(d)' = Queued(d) + Armed(d) + Held(d)
      BY <2>4, <3>1, <3>2
    <3>4. Armed(d)' \in Nat /\ Held(d)' \in Nat
      BY <1>n, <2>4
    <3> QED
      BY <1>0, <1>m, <2>1, <2>7, <3>3, <3>4
  <2>8. CASE cur.kind # "wake" /\ tasks' = tasks /\ waiting' = waiting
    BY <1>u, <2>1, <2>4, <2>5, <2>8
  <2> QED
    BY <2>3, <2>6, <2>7, <2>8
<1>12. CASE \E n \in 0 .. Len(timers) : Pass(n)
  <2>1. PICK n \in 0 .. Len(timers) : Pass(n)
    BY <1>12
  <2> DEFINE x == SubSeq(timers, 1, n)
  <2>2. /\ timers' = SubSeq(timers, n + 1, Len(timers)) /\ pc = "wait" /\ pc' = "take"
        /\ state' = state
    BY <2>1, PassEffect
  <2>3. Moves(Expired(n)) /\ Expired(n) \in Seq(TaskType)
    BY <1>0, <2>1, PassMoves
  <2>4. x \in Seq(TaskType) /\ timers' \in Seq(TaskType)
    BY <1>0, <2>2, SplitFacts
  <2>5. Count(timers, d) = Count(x, d) + Count(timers', d)
    BY <1>0, <2>2, CountSplit
  <2> HIDE DEF x
  <2>6. Count(tasks \o x, d) = Count(tasks, d) + Count(x, d)
    BY <1>0, <2>4, CountConcat, Zenon
  <2>7. Count(Expired(n), d) = Count(tasks, d) + Count(x, d)
    BY <2>6 DEF Expired, x
  <2>8. Held(d) = 0 /\ Held(d)' = 0
    BY <1>i, <2>2
  <2>9. Count(x, d) \in Nat /\ Count(timers', d) \in Nat
    BY <2>4, CountIsNat
  <2>10. Armed(d)' \in Nat /\ Armed(d) = Count(x, d) + Armed(d)'
    BY <2>5, <2>9 DEF Armed
  <2>11. Count(Expired(n), d) = Queued(d) + Count(x, d)
    BY <2>7 DEF Queued
  <2>12. Count(Expired(n), d) + Armed(d)' + Held(d)' = Queued(d) + Armed(d) + Held(d)
    BY <1>n, <2>8, <2>9, <2>10, <2>11
  <2>13. Held(d)' \in Nat
    BY <2>8
  <2> QED
    BY <1>m, <2>2, <2>3, <2>10, <2>12, <2>13
<1>13. CASE \E c \in Coroutine : Returns(c)
  <2>1. PICK c \in Coroutine : Returns(c)
    BY <1>13
  <2>2. /\ Running(c) /\ timers' = TimersWithout(c) /\ tasks' = tasks /\ waiting' = waiting
        /\ state' = state /\ pc' = pc /\ cur' = cur
    BY <2>1, ReturnsEffect
  <2>3. Armed(d)' = Armed(d)
    BY <1>w, <2>2 DEF Armed
  <2> QED
    BY <1>s, <1>q, <1>e, <1>h, <1>d, <2>2, <2>3
<1>14. CASE \E c \in Coroutine : \E fd \in Fd, e \in event, call \in {"io", "connect"} :
             Blocking(c, call, fd, e)
  <2>1. PICK c \in Coroutine, fd \in Fd, e \in event, call \in {"io", "connect"} :
               Blocking(c, call, fd, e)
    BY <1>14
  <2> DEFINE s == TimersWithout(c)
             t == Timeout(c, fd, e, used'[c])
  <2>2. /\ Running(c) /\ Added(fd, e, c) /\ tasks' = tasks
        /\ timers' = s \/ \E i \in 1 .. Len(s) + 1 : timers' = InsertAt(s, i, t)
        /\ state' = [state EXCEPT ![c] = "READY"] /\ pc' = "take"
    BY <2>1, BlockingEffect
  <2>3. /\ state[c] = "RUNNING" /\ pc = "run"
        /\ Queued(c) = 0 /\ Armed(c) = 0 /\ Enrolled(c) = 0 /\ Held(c) = 0
    BY <1>c, <2>2
  <2>4. s \in Seq(TaskType) /\ Count(s, d) = Armed(d)
    BY <1>w, <2>2
  <2>5. used'[c] \in Nat
    BY UsedStep DEF UsedOk
  <2>6. t \in TaskType /\ ~Resumes(t, d)
    BY <2>5, TaskForms, Resumers DEF WellFormed
  <2> HIDE DEF s, t
  <2>7. Armed(d)' = Armed(d)
    <3>1. CASE timers' = s
      BY <2>4, <3>1 DEF Armed
    <3>2. CASE \E i \in 1 .. Len(s) + 1 : timers' = InsertAt(s, i, t)
      <4>1. PICK i \in 1 .. Len(s) + 1 : timers' = InsertAt(s, i, t)
        BY <3>2
      <4>2. Count(InsertAt(s, i, t), d) = Count(s, d) + 0
        BY <2>4, <2>6, CountInsert
      <4>3. Count(InsertAt(s, i, t), d) = Count(s, d)
        BY <1>n, <2>4, <4>2
      <4> QED
        BY <2>4, <4>1, <4>3 DEF Armed
    <3> QED
      BY <2>2, <3>1, <3>2
  <2>8. Enrolled(d)' = Enrolled(d) + (IF d = c THEN 1 ELSE 0)
    BY <1>0, <2>2, AddedFacts DEF Enrolled
  <2>9. Held(d) = 0 /\ Held(d)' = 0
    BY <1>i, <2>2, <2>3
  <2>10. Due(d)' = IF d = c THEN 1 ELSE Due(d)
    BY <1>0, <2>2 DEF Due
  <2> QED
    BY <1>s, <1>n, <1>q, <2>2, <2>3, <2>7, <2>8, <2>9, <2>10
<1>15. CASE \E c \in Coroutine, fd \in Fd, e \in event : AddWatch(c, fd, e)
  <2>1. PICK c \in Coroutine, fd \in Fd, e \in event : AddWatch(c, fd, e)
    BY <1>15
  <2>2. /\ Added(fd, e, Watcher) \/ waiting' = waiting
        /\ tasks' = tasks /\ timers' = timers /\ state' = state /\ pc' = pc /\ cur' = cur
    BY <2>1, AddWatchEffect
  <2>3. Watcher \in Coroutine \cup {Watcher} /\ d # Watcher
    BY CoroutinesAssumption DEF Watcher
  <2>4. Added(fd, e, Watcher) => Enrolled(d)' = Enrolled(d) + 0
    BY <1>0, <2>3, AddedFacts DEF Enrolled
  <2>5. Enrolled(d)' = Enrolled(d)
    BY <1>e, <1>n, <2>2, <2>4
  <2> QED
    BY <1>s, <1>q, <1>a, <1>h, <1>d, <2>2, <2>5
<1>16. CASE \E c \in Coroutine, fd \in Fd : Close(c, fd)
  <2>1. PICK c \in Coroutine, fd \in Fd : Close(c, fd)
    BY <1>16
  <2>2. timers' = timers /\ state' = state /\ pc' = pc /\ cur' = cur
    BY <2>1, CloseEffect
  <2>3. Armed(d)' = Armed(d) /\ Held(d)' = Held(d) /\ Count(tasks, d) = Queued(d)
    BY <1>a, <1>h, <2>2 DEF Queued
  <2>4. Moves(tasks)
    BY <1>0, <2>1, CloseMoves
  <2>5. Count(tasks, d) + Armed(d)' + Held(d)' = Queued(d) + Armed(d) + Held(d)
        /\ Armed(d)' \in Nat /\ Held(d)' \in Nat
    BY <1>n, <2>3
  <2> QED
    BY <1>0, <1>m, <2>2, <2>4, <2>5
<1>17. CASE \E c \in Coroutine, x \in Coroutine : Spawn(c, x)
  BY <1>17, <1>r, SpawnEffect
<1>18. CASE \E c \in Coroutine : Sleep(c)
  <2>1. PICK c \in Coroutine : Sleep(c)
    BY <1>18
  <2>2. /\ Running(c) /\ AddTimer(Awake(c)) /\ tasks' = tasks /\ waiting' = waiting
        /\ state' = [state EXCEPT ![c] = "READY"] /\ pc' = "take"
    BY <2>1, SleepEffect DEF Calls, Free
  <2>3. /\ state[c] = "RUNNING" /\ pc = "run"
        /\ Queued(c) = 0 /\ Armed(c) = 0 /\ Enrolled(c) = 0 /\ Held(c) = 0
    BY <1>c, <2>2
  <2>4. Awake(c) \in TaskType /\ (Resumes(Awake(c), d) <=> d = c)
    BY TaskForms, Resumers DEF WellFormed
  <2>5. Armed(d)' = Armed(d) + (IF Resumes(Awake(c), d) THEN 1 ELSE 0)
    BY <1>0, <2>2, <2>4, ArmsTimer
  <2>6. Held(d) = 0 /\ Held(d)' = 0
    BY <1>i, <2>2, <2>3
  <2>7. Due(d)' = IF d = c THEN 1 ELSE Due(d)
    BY <1>0, <2>2 DEF Due
  <2> QED
    BY <1>s, <1>n, <1>q, <1>e, <2>2, <2>3, <2>4, <2>5, <2>6, <2>7
<1>19. CASE \E c \in Coroutine : Finish(c)
  <2>1. PICK c \in Coroutine : Finish(c)
    BY <1>19
  <2>2. /\ Running(c) /\ tasks' = tasks /\ timers' = timers /\ waiting' = waiting
        /\ state' = [state EXCEPT ![c] = "TERM"] /\ pc' = "take"
    BY <2>1, FinishEffect DEF Free
  <2>3. state[c] = "RUNNING" /\ pc = "run"
    BY <1>c, <2>2
  <2>4. Held(d)' = Held(d)
    BY <1>i, <2>2, <2>3
  <2>5. Due(d)' = Due(d)
    BY <1>0, <2>2, <2>3 DEF Due
  <2> QED
    BY <1>s, <1>q, <1>a, <1>e, <2>2, <2>4, <2>5
<1> QED
  BY <1>0, <1>1, <1>2, <1>3, <1>4, <1>5, <1>6, <1>7, <1>8, <1>9, <1>10, <1>11, <1>12, <1>13,
     <1>14, <1>15, <1>16, <1>17, <1>18, <1>19, NextCases, Zenon

-----------------------------------------------------------------------------
\* The steps keep what the worker and the coroutines are doing in step.

LEMMA StateStep ==
  ASSUME IInv, Next
  PROVE  StateInv'
<1>0. /\ TypeOK /\ ShapeInv /\ StateInv /\ StopInv /\ TimerInv /\ OneWaker
      /\ state \in [Coroutine -> {"none", "READY", "RUNNING", "TERM"}]
      /\ wait \in [Coroutine -> [call : {"none", "io", "connect", "sleep"},
                                 fd : Fd \cup {Nil}, ev : event \cup {Nil}]]
  BY DEF IInv, TypeOK
<1>n. NoCall.call = "none"
  BY DEF NoCall
<1>u. ASSUME pc' = pc, cur' = cur, state' = state, wait' = wait
      PROVE  StateInv'
  BY <1>0, <1>u DEF StateInv, Running
<1>v. ASSUME pc # "run", pc' # "run", state' = state, wait' = wait
      PROVE  StateInv'
  BY <1>0, <1>v DEF StateInv, Running
<1>r. ASSUME NEW c \in Coroutine, state[c] = "none", state' = [state EXCEPT ![c] = "READY"],
             pc' = pc, cur' = cur, wait' = wait
      PROVE  StateInv'
  <2>1. \A d \in Coroutine : state'[d] = IF d = c THEN "READY" ELSE state[d]
    BY <1>0, <1>r
  <2> QED
    BY <1>0, <1>r, <2>1 DEF StateInv, Running
\* A running coroutine gives the worker back.
<1>y. ASSUME NEW c \in Coroutine, Running(c), pc' = "take", NEW s \in {"READY", "TERM"},
             state' = [state EXCEPT ![c] = s], NEW w, wait' = [wait EXCEPT ![c] = w],
             s = "TERM" => w = NoCall, w.call = "none" => w = NoCall,
             w.call \in {"io", "connect"} => w.fd \in Fd /\ w.ev \in event
      PROVE  StateInv'
  <2>1. \A d \in Coroutine : /\ state'[d] = IF d = c THEN s ELSE state[d]
                             /\ wait'[d] = IF d = c THEN w ELSE wait[d]
    BY <1>0, <1>y
  <2>2. \A d \in Coroutine : d # c => state[d] # "RUNNING"
    BY <1>0, <1>y DEF StateInv, Running
  <2> QED
    BY <1>0, <1>y, <2>1, <2>2 DEF StateInv, Running
<1>1. CASE \E c \in Coroutine : MainAdds(c)
  BY <1>1, <1>r, MainAddsEffect
<1>2. CASE MainAddsTimer \/ CallStop \/ Joined
  BY <1>2, <1>u, MainAddsTimerEffect, CallStopEffect, JoinedEffect
<1>3. CASE Stop
  <2>1. /\ cur' = cur /\ state' = state /\ wait' = wait
        /\ main = "stop" /\ pc' = IF asWorker THEN "take" ELSE pc
    BY <1>3, StopEffect
  <2> QED
    BY <1>0, <1>u, <1>v, <2>1 DEF StopInv
<1>4. CASE (\E fd \in Fd : HangUp(fd)) \/ \E fd \in Fd, e \in event : Arrive(fd, e)
  BY <1>4, <1>u, HangUpEffect, ArriveEffect
<1>5. CASE NoTask \/ EnterIdle \/ GetNextDuration \/ Callback
  BY <1>5, <1>v, NoTaskEffect, EnterIdleEffect, GetNextDurationEffect, CallbackEffect
<1>6. CASE CheckStopping
  <2>1. pc' # "run"
    BY <1>6 DEF CheckStopping
  <2> QED
    BY <1>6, <1>v, <2>1, CheckStoppingEffect
<1>7. CASE Take
  <2> DEFINE t == Head(tasks)
  <2>1. /\ cur' = t
        /\ \/ /\ t.kind = "resume" /\ t.co \in Coroutine /\ state[t.co] = "READY"
              /\ pc' = "run" /\ state' = [state EXCEPT ![t.co] = "RUNNING"]
           \/ t.kind # "resume" /\ pc' = "callback" /\ state' = state
        /\ pc = "take" /\ wait' = wait
    BY <1>0, <1>7, TakeCases, TakeEffect
  <2> HIDE DEF t
  <2>2. CASE t.kind = "resume"
    <3>1. \A d \in Coroutine : state'[d] = IF d = t.co THEN "RUNNING" ELSE state[d]
      BY <1>0, <2>1, <2>2
    <3> QED
      BY <1>0, <2>1, <2>2, <3>1 DEF StateInv, Running
  <2>3. CASE t.kind # "resume"
    BY <1>v, <2>1, <2>3
  <2> QED
    BY <2>2, <2>3
<1>8. CASE \E n \in 0 .. Len(timers) : Pass(n)
  BY <1>8, <1>v, PassEffect
<1>9. CASE \E c \in Coroutine : Returns(c)
  <2>1. PICK c \in Coroutine : Returns(c)
    BY <1>9
  <2>2. wait' = [wait EXCEPT ![c] = NoCall] /\ pc' = pc /\ cur' = cur /\ state' = state
    BY <2>1, ReturnsEffect
  <2>3. \A d \in Coroutine : wait'[d] = IF d = c THEN NoCall ELSE wait[d]
    BY <1>0, <2>2
  <2> QED
    BY <1>0, <1>n, <2>2, <2>3 DEF StateInv, Running
<1>10. CASE \E c \in Coroutine : \E fd \in Fd, e \in event, call \in {"io", "connect"} :
             Blocking(c, call, fd, e)
  <2>1. PICK c \in Coroutine, fd \in Fd, e \in event, call \in {"io", "connect"} :
               Blocking(c, call, fd, e)
    BY <1>10
  <2> DEFINE w == [call |-> call, fd |-> fd, ev |-> e]
  <2>2. /\ Running(c) /\ pc' = "take" /\ state' = [state EXCEPT ![c] = "READY"]
        /\ wait' = [wait EXCEPT ![c] = w]
    BY <2>1, BlockingEffect
  <2>3. w.call = call /\ w.fd = fd /\ w.ev = e
    OBVIOUS
  <2> HIDE DEF w
  <2> QED
    BY <1>y, <2>2, <2>3
<1>11. CASE \/ \E c \in Coroutine, fd \in Fd, e \in event : AddWatch(c, fd, e)
            \/ \E c \in Coroutine, fd \in Fd : Close(c, fd)
  BY <1>11, <1>u, AddWatchEffect, CloseEffect
<1>12. CASE \E c \in Coroutine, d \in Coroutine : Spawn(c, d)
  BY <1>12, <1>r, SpawnEffect
<1>13. CASE \E c \in Coroutine : Sleep(c)
  <2>1. PICK c \in Coroutine : Sleep(c)
    BY <1>13
  <2> DEFINE w == [call |-> "sleep", fd |-> Nil, ev |-> Nil]
  <2>2. /\ Running(c) /\ pc' = "take" /\ state' = [state EXCEPT ![c] = "READY"]
        /\ wait' = [wait EXCEPT ![c] = w]
    BY <2>1, SleepEffect DEF Calls, Free
  <2>3. w.call = "sleep"
    OBVIOUS
  <2> HIDE DEF w
  <2> QED
    BY <1>y, <2>2, <2>3
<1>14. CASE \E c \in Coroutine : Finish(c)
  <2>1. PICK c \in Coroutine : Finish(c)
    BY <1>14
  <2>2. /\ Running(c) /\ pc' = "take" /\ state' = [state EXCEPT ![c] = "TERM"]
        /\ wait' = wait /\ wait[c] = NoCall
    BY <2>1, FinishEffect DEF Free
  <2>3. wait' = [wait EXCEPT ![c] = NoCall]
    BY <1>0, <2>2
  <2> HIDE DEF NoCall
  <2> QED
    BY <1>n, <1>y, <2>2, <2>3
<1> QED
  BY <1>0, <1>1, <1>2, <1>3, <1>4, <1>5, <1>6, <1>7, <1>8, <1>9, <1>10, <1>11, <1>12, <1>13,
     <1>14, NextCases, Zenon

LEMMA StopStep ==
  ASSUME IInv, Next
  PROVE  StopInv'
<1>0. TypeOK /\ StateInv /\ StopInv /\ TimerInv /\ timers \in Seq(TaskType) /\ made \in Nat
  BY CoroutinesAssumption DEF IInv, TypeOK
<1>m. ASSUME timers' = timers, asWorker' = asWorker
      PROVE  MainsTimers' <=> MainsTimers
  BY <1>m DEF MainsTimers
<1>1. CASE \E c \in Coroutine : MainAdds(c)
  BY <1>0, <1>1, <1>m, MainAddsEffect DEF StopInv
<1>2. CASE MainAddsTimer
  <2>1. ~idleOver
    BY <1>0, <1>2, MainAddsTimerEffect DEF StopInv
  <2>2. ASSUME MainsTimers, ~asWorker
        PROVE  MainsTimers'
    <3> DEFINE t == Tick(made)
    <3>1. t \in TaskType /\ t.kind = "tick" /\ t.co = Nil
      BY <1>0, TaskForms DEF WellFormed
    <3>2. PICK i \in 1 .. Len(timers) + 1 : timers' = InsertAt(timers, i, t)
      BY <1>2, MainAddsTimerEffect DEF AddTimer
    <3> HIDE DEF t
    <3>3. \A j \in DOMAIN timers' : timers'[j] = t \/ \E k \in DOMAIN timers : timers'[j] = timers[k]
      BY <1>0, <3>1, <3>2, InsertDistinct DEF TimerInv
    <3> QED
      BY <1>2, <2>2, <3>1, <3>3, MainAddsTimerEffect DEF MainsTimers
  <2> QED
    BY <1>0, <1>2, <2>1, <2>2, MainAddsTimerEffect DEF StopInv
<1>18. CASE CallStop
  BY <1>0, <1>18, <1>m, CallStopEffect DEF StopInv
<1>3. CASE Stop
  <2>1. CASE asWorker
    <3>1. pc = "off"
      BY <1>0, <1>3, <2>1, StopEffect DEF StopInv
    <3> QED
      BY <1>0, <1>3, <1>m, <2>1, <3>1, StopEffect DEF StopInv
  <2>2. CASE ~asWorker
    BY <1>0, <1>3, <1>m, <2>2, StopEffect DEF StopInv
  <2> QED
    BY <2>1, <2>2
<1>4. CASE Joined
  BY <1>0, <1>4, <1>m, JoinedEffect DEF StopInv
<1>5. CASE (\E fd \in Fd : HangUp(fd)) \/ \E fd \in Fd, e \in event : Arrive(fd, e)
  BY <1>0, <1>5, <1>m, HangUpEffect, ArriveEffect DEF StopInv
<1>6. CASE Take
  <2>1. pc' \notin {"off", "end", "decide"}
    BY <1>6, TakeEffect DEF Take
  <2> QED
    BY <1>0, <1>6, <1>m, <2>1, TakeEffect DEF StopInv
<1>7. CASE NoTask \/ EnterIdle \/ Callback
  BY <1>0, <1>7, <1>m, NoTaskEffect, EnterIdleEffect, CallbackEffect DEF StopInv
<1>17. CASE GetNextDuration
  <2>1. seen' = Nil => timers = <<>>
    <3>1. timers # <<>> => Head(timers) # Nil
      BY <1>0, HeadTailFacts, NilAssumption
    <3> QED
      BY <1>17, <3>1, GetNextDurationEffect
  <2>2. seen' = Nil => MainsTimers'
    BY <1>17, <2>1, GetNextDurationEffect, EmptyTasks DEF MainsTimers
  <2> QED
    BY <1>0, <1>17, <2>2, GetNextDurationEffect DEF StopInv
<1>8. CASE CheckStopping
  <2>1. IF Stopping THEN idleOver' = TRUE /\ pc' = "take" ELSE pc' = "wait" /\ idleOver' = idleOver
    BY <1>8 DEF CheckStopping
  <2> QED
    BY <1>0, <1>8, <1>m, <2>1, CheckStoppingEffect DEF StopInv, Stopping
<1>9. CASE \E n \in 0 .. Len(timers) : Pass(n)
  BY <1>0, <1>9, PassEffect DEF StopInv
<1>10. CASE \E c \in Coroutine : Returns(c)
  BY <1>0, <1>10, ReturnsEffect DEF StopInv, Running
<1>11. CASE \E c \in Coroutine : \E fd \in Fd, e \in event, call \in {"io", "connect"} :
             Blocking(c, call, fd, e)
  BY <1>0, <1>11, BlockingEffect DEF StopInv, Running
<1>12. CASE \E c \in Coroutine, fd \in Fd, e \in event : AddWatch(c, fd, e)
  BY <1>0, <1>12, AddWatchEffect DEF StopInv, Calls, Free, Running
<1>13. CASE \E c \in Coroutine, fd \in Fd : Close(c, fd)
  BY <1>0, <1>13, CloseEffect DEF StopInv, Calls, Free, Running
<1>14. CASE \E c \in Coroutine, d \in Coroutine : Spawn(c, d)
  BY <1>0, <1>14, SpawnEffect DEF StopInv, Calls, Free, Running
<1>15. CASE \E c \in Coroutine : Sleep(c)
  BY <1>0, <1>15, SleepEffect DEF StopInv, Calls, Free, Running
<1>16. CASE \E c \in Coroutine : Finish(c)
  BY <1>0, <1>16, FinishEffect DEF StopInv, Free, Running
<1> QED
  BY <1>0, <1>1, <1>2, <1>3, <1>4, <1>5, <1>6, <1>7, <1>8, <1>9, <1>10, <1>11, <1>12, <1>13,
     <1>14, <1>15, <1>16, <1>17, <1>18, NextCases, Zenon

-----------------------------------------------------------------------------
\* The steps keep the types of the variables that no lemma above is about.

Pcs == {"off", "take", "run", "callback", "idle", "check", "decide", "wait", "end"}
WorkerOk ==
  /\ pc \in Pcs
  /\ cur \in TaskType \cup {Nil} /\ seen \in TaskType \cup {Nil} /\ idleOver \in BOOLEAN
  /\ active = IF pc \in {"run", "callback"} THEN 1 ELSE 0
  /\ idle = IF pc \in {"check", "decide", "wait"} THEN 1 ELSE 0
MainOk ==
  /\ asWorker \in BOOLEAN /\ timed \subseteq Fd
  /\ main \in {"free", "stop", "stopping", "joined"} /\ made \in 0 .. MaxTimers
  /\ stopped \in BOOLEAN
CallsOk ==
  /\ state \in [Coroutine -> {"none", "READY", "RUNNING", "TERM"}]
  /\ wait \in [Coroutine -> [call : {"none", "io", "connect", "sleep"},
                              fd : Fd \cup {Nil}, ev : event \cup {Nil}]]
  /\ cancelled \in [Coroutine -> BOOLEAN]
  /\ gone \subseteq Fd /\ open \subseteq Fd

\* What the worker runs fits its place.
Runs ==
  /\ pc \in {"run", "callback"} => WellFormed(cur)
  /\ pc = "run" => cur.kind = "resume"
  /\ pc = "callback" => cur.kind # "resume"

LEMMA TypeParts ==
  TypeOK <=> /\ WorkerOk /\ MainOk /\ CallsOk /\ Flags /\ UsedOk
             /\ waiting \in Waits /\ pending \in Nat
             /\ tasks \in Seq(TaskType) /\ timers \in Seq(TaskType)
BY Zenon DEF TypeOK, WorkerOk, MainOk, CallsOk, Flags, UsedOk, Waits, Pcs

LEMMA MainStep ==
  ASSUME IInv, Next
  PROVE  MainOk'
<1>0. TypeOK /\ StateInv /\ TimerInv /\ MainOk /\ MaxTimers \in Nat
  BY TypeParts, CoroutinesAssumption DEF IInv
<1>u. ASSUME asWorker' = asWorker, timed' = timed, main' = main, made' = made, stopped' = stopped
      PROVE  MainOk'
  BY <1>0, <1>u DEF MainOk
<1>1. CASE \E c \in Coroutine : MainAdds(c)
  BY <1>1, <1>u, MainAddsEffect
<1>2. CASE MainAddsTimer
  BY <1>0, <1>2, MainAddsTimerEffect DEF MainOk
<1>3. CASE CallStop \/ Stop
  BY <1>0, <1>3, CallStopEffect, StopEffect DEF MainOk
<1>4. CASE Joined
  BY <1>0, <1>4, JoinedEffect DEF MainOk
<1>5. CASE (\E fd \in Fd : HangUp(fd)) \/ \E fd \in Fd, e \in event : Arrive(fd, e)
  BY <1>5, <1>u, HangUpEffect, ArriveEffect
<1>6. CASE Take \/ NoTask \/ EnterIdle \/ GetNextDuration \/ CheckStopping \/ Callback
  BY <1>6, <1>u, TakeEffect, NoTaskEffect, EnterIdleEffect, GetNextDurationEffect,
     CheckStoppingEffect, CallbackEffect
<1>7. CASE \E n \in 0 .. Len(timers) : Pass(n)
  BY <1>7, <1>u, PassEffect
<1>8. CASE \E c \in Coroutine : Returns(c)
  BY <1>8, <1>u, ReturnsEffect
<1>9. CASE \E c \in Coroutine : \E fd \in Fd, e \in event, call \in {"io", "connect"} :
             Blocking(c, call, fd, e)
  BY <1>9, <1>u, BlockingEffect
<1>10. CASE \/ \E c \in Coroutine, fd \in Fd, e \in event : AddWatch(c, fd, e)
            \/ \E c \in Coroutine, fd \in Fd : Close(c, fd)
            \/ \E c \in Coroutine, d \in Coroutine : Spawn(c, d)
            \/ \E c \in Coroutine : Sleep(c)
            \/ \E c \in Coroutine : Finish(c)
  BY <1>10, <1>u, AddWatchEffect, CloseEffect, SpawnEffect, SleepEffect, FinishEffect
<1> QED
  BY <1>0, <1>1, <1>2, <1>3, <1>4, <1>5, <1>6, <1>7, <1>8, <1>9, <1>10, NextCases, Zenon

LEMMA FlagsStep ==
  ASSUME IInv, Next
  PROVE  Flags'
<1>0. TypeOK /\ ShapeInv /\ StateInv /\ TimerInv /\ Flags
  BY TypeParts DEF IInv
<1>t. \A when \in BOOLEAN : Tickled(when) \in BOOLEAN
  BY <1>0, FlagsKeep
<1>u. ASSUME tickled' = tickled, pipe' = pipe, ready' = ready
      PROVE  Flags'
  BY <1>0, <1>u DEF Flags
<1>p. ASSUME NEW when \in BOOLEAN, tickled' = tickled, pipe' = Tickled(when),
             ready' \in [Fd -> SUBSET event]
      PROVE  Flags'
  BY <1>0, <1>t, <1>p DEF Flags
<1>a. ASSUME NEW t, AddTimer(t), ready' = ready
      PROVE  Flags'
  <2>1. PICK i \in 1 .. Len(timers) + 1 :
          tickled' = (tickled \/ i = 1) /\ pipe' = Tickled(i = 1 /\ ~tickled)
    BY <1>a DEF AddTimer
  <2> QED
    BY <1>0, <1>t, <1>a, <2>1 DEF Flags
<1>1. CASE \E c \in Coroutine : MainAdds(c)
  <2>1. PICK c \in Coroutine : MainAdds(c)
    BY <1>1
  <2>2. tickled' = tickled /\ ready' = ready
        /\ pipe' = Tickled(tasks = <<>> /\ <<Resume(c)>> # <<>>)
    BY <2>1, MainAddsEffect
  <2> QED
    BY <1>0, <1>t, <2>2 DEF Flags
<1>2. CASE MainAddsTimer
  BY <1>2, <1>a, MainAddsTimerEffect
<1>3. CASE Stop
  <2>1. tickled' = tickled /\ ready' = ready /\ pipe' = Tickled(TRUE)
    BY <1>3, StopEffect DEF Stop, timerVars, netVars
  <2> QED
    BY <1>0, <1>t, <2>1 DEF Flags
<1>4. CASE Joined \/ NoTask \/ EnterIdle
  BY <1>4, <1>u, JoinedEffect, NoTaskEffect, EnterIdleEffect
<1>5. CASE \E fd \in Fd : HangUp(fd)
  BY <1>0, <1>5, HangUpEffect DEF Flags
<1>6. CASE \E fd \in Fd, e \in event : Arrive(fd, e)
  BY <1>0, <1>6, ArriveEffect DEF Flags
<1>7. CASE Take
  <2>1. tickled' = tickled /\ ready' = ready /\ pipe' = Tickled(tasks' # <<>>)
    BY <1>7, TakeEffect
  <2> QED
    BY <1>0, <1>t, <2>1 DEF Flags
<1>8. CASE CallStop \/ GetNextDuration \/ CheckStopping
  BY <1>0, <1>8, CallStopEffect, GetNextDurationEffect, CheckStoppingEffect DEF Flags
<1>9. CASE \E n \in 0 .. Len(timers) : Pass(n)
  <2>1. PICK n \in 0 .. Len(timers) : Pass(n)
    BY <1>9
  <2>2. tickled' = tickled /\ ready' = ready
    BY <2>1, PassEffect
  <2>3. PICK order \in Orders :
          LET tickles == tasks = <<>> /\ Batch(SubSeq(timers, 1, n), order) # <<>>
          IN  pipe' \in IF pipe THEN {FALSE} \cup {tickles /\ n = 0} ELSE {tickles}
    BY <2>1 DEF Pass
  <2>4. pipe' \in BOOLEAN
    BY <2>3
  <2> QED
    BY <1>0, <2>2, <2>4 DEF Flags
<1>10. CASE Callback
  BY <1>0, <1>10, CallbackCases
<1>11. CASE \E c \in Coroutine : Returns(c)
  BY <1>11, ReturnsEffect
<1>12. CASE \E c \in Coroutine : \E fd \in Fd, e \in event, call \in {"io", "connect"} :
             Blocking(c, call, fd, e)
  BY <1>12, BlockingEffect
<1>13. CASE \E c \in Coroutine, fd \in Fd, e \in event : AddWatch(c, fd, e)
  BY <1>13, <1>u, AddWatchEffect
<1>14. CASE \E c \in Coroutine, fd \in Fd : Close(c, fd)
  <2>1. PICK c \in Coroutine, fd \in Fd : Close(c, fd)
    BY <1>14
  <2>2. /\ tickled' = tickled /\ ready' = [ready EXCEPT ![fd] = {}]
        /\ pipe' = Tickled(tasks = <<>> /\ Woken(fd, Registered(fd)) # <<>>)
    BY <2>1, CloseEffect
  <2> QED
    BY <1>0, <1>t, <2>2 DEF Flags
<1>15. CASE \E c \in Coroutine, d \in Coroutine : Spawn(c, d)
  <2>1. PICK c \in Coroutine, d \in Coroutine : Spawn(c, d)
    BY <1>15
  <2>2. tickled' = tickled /\ ready' = ready
        /\ pipe' = Tickled(tasks = <<>> /\ <<Resume(d)>> # <<>>)
    BY <2>1, SpawnEffect
  <2> QED
    BY <1>0, <1>t, <2>2 DEF Flags
<1>16. CASE \E c \in Coroutine : Sleep(c)
  BY <1>16, <1>a, SleepEffect
<1>17. CASE \E c \in Coroutine : Finish(c)
  BY <1>17, <1>u, FinishEffect
<1> QED
  BY <1>0, <1>1, <1>2, <1>3, <1>4, <1>5, <1>6, <1>7, <1>8, <1>9, <1>10, <1>11, <1>12, <1>13,
     <1>14, <1>15, <1>16, <1>17, NextCases, Zenon

LEMMA WorkerStep ==
  ASSUME IInv, Next
  PROVE  WorkerOk' /\ Runs'
<1>0. /\ TypeOK /\ ShapeInv /\ StateInv /\ StopInv /\ TimerInv /\ OneWaker /\ WorkerOk /\ Runs
      /\ timers \in Seq(TaskType)
  BY TypeParts DEF IInv, ShapeInv, Runs
<1>u. ASSUME pc' = pc, cur' = cur, seen' = seen, idleOver' = idleOver, active' = active, idle' = idle
      PROVE  WorkerOk' /\ Runs'
  BY <1>0, <1>u DEF WorkerOk, Runs, WellFormed
\* What ran gives the worker back.
<1>y. ASSUME pc \in {"run", "callback"}, pc' = "take", cur' = Nil, seen' = seen,
             idleOver' = idleOver, active' = active - 1, idle' = idle
      PROVE  WorkerOk' /\ Runs'
  BY <1>0, <1>y DEF WorkerOk, Runs, Pcs
<1>1. CASE \E c \in Coroutine : MainAdds(c)
  BY <1>1, <1>u, MainAddsEffect
<1>2. CASE MainAddsTimer \/ CallStop \/ Joined
  BY <1>2, <1>u, MainAddsTimerEffect, CallStopEffect, JoinedEffect
<1>3. CASE Stop
  <2>1. asWorker => pc = "off"
    BY <1>0, <1>3, StopEffect DEF StopInv
  <2>2. /\ pc' = IF asWorker THEN "take" ELSE pc
        /\ cur' = cur /\ seen' = seen /\ idleOver' = idleOver /\ active' = active /\ idle' = idle
    BY <1>3, StopEffect
  <2>3. CASE asWorker
    BY <1>0, <2>1, <2>2, <2>3 DEF WorkerOk, Runs, Pcs
  <2>4. CASE ~asWorker
    BY <1>u, <2>2, <2>4
  <2> QED
    BY <2>3, <2>4
<1>4. CASE (\E fd \in Fd : HangUp(fd)) \/ \E fd \in Fd, e \in event : Arrive(fd, e)
  BY <1>4, <1>u, HangUpEffect, ArriveEffect
<1>5. CASE NoTask
  BY <1>0, <1>5, NoTaskEffect DEF WorkerOk, Runs, Pcs
<1>6. CASE EnterIdle
  BY <1>0, <1>6, EnterIdleEffect DEF WorkerOk, Runs, Pcs
<1>16. CASE GetNextDuration
  <2>1. timers # <<>> => Head(timers) \in TaskType
    BY <1>0, HeadTailFacts
  <2>2. seen' \in TaskType \cup {Nil}
    BY <1>16, <2>1, GetNextDurationEffect
  <2> QED
    BY <1>0, <1>16, <2>2, GetNextDurationEffect DEF WorkerOk, Runs, Pcs
<1>7. CASE CheckStopping
  <2>1. IF Stopping THEN idleOver' = TRUE /\ pc' = "take" /\ idle' = idle - 1
                    ELSE pc' = "wait" /\ idleOver' = idleOver /\ idle' = idle
    BY <1>7 DEF CheckStopping
  <2>2. idleOver' \in BOOLEAN /\ pc' \in {"take", "wait"} /\ idle' = IF pc' = "wait" THEN 1 ELSE 0
    <3>1. idleOver \in BOOLEAN /\ idle = 1
      BY <1>0, <1>7, CheckStoppingEffect DEF WorkerOk
    <3>2. CASE Stopping
      BY <2>1, <3>1, <3>2
    <3>3. CASE ~Stopping
      BY <2>1, <3>1, <3>3
    <3> QED
      BY <3>2, <3>3
  <2> QED
    BY <1>0, <1>7, <2>2, CheckStoppingEffect DEF WorkerOk, Runs, Pcs
<1>8. CASE Take
  <2> DEFINE t == Head(tasks)
  <2>1. /\ WellFormed(t) /\ cur' = t /\ active' = active + 1 /\ pc = "take"
        /\ \/ t.kind = "resume" /\ pc' = "run"
           \/ t.kind # "resume" /\ pc' = "callback"
        /\ seen' = seen /\ idleOver' = idleOver /\ idle' = idle
    BY <1>0, <1>8, TakeCases, TakeEffect
  <2>2. t \in TaskType
    BY <2>1 DEF WellFormed
  <2> HIDE DEF t
  <2>3. WorkerOk'
    BY <1>0, <2>1, <2>2 DEF WorkerOk, Pcs
  <2>4. Runs'
    BY <2>1 DEF Runs, WellFormed
  <2> QED
    BY <2>3, <2>4
<1>9. CASE \E n \in 0 .. Len(timers) : Pass(n)
  BY <1>0, <1>9, PassEffect DEF WorkerOk, Runs, Pcs
<1>10. CASE Callback
  BY <1>10, <1>y, CallbackEffect
<1>11. CASE \E c \in Coroutine : Returns(c)
  BY <1>11, <1>u, ReturnsEffect
<1>12. CASE \E c \in Coroutine : \E fd \in Fd, e \in event, call \in {"io", "connect"} :
             Blocking(c, call, fd, e)
  BY <1>12, <1>y, BlockingEffect DEF Running
<1>13. CASE \/ \E c \in Coroutine, fd \in Fd, e \in event : AddWatch(c, fd, e)
            \/ \E c \in Coroutine, fd \in Fd : Close(c, fd)
            \/ \E c \in Coroutine, d \in Coroutine : Spawn(c, d)
  BY <1>13, <1>u, AddWatchEffect, CloseEffect, SpawnEffect
<1>14. CASE \E c \in Coroutine : Sleep(c)
  BY <1>14, <1>y, SleepEffect DEF Calls, Free, Running
<1>15. CASE \E c \in Coroutine : Finish(c)
  BY <1>15, <1>y, FinishEffect DEF Free, Running
<1> QED
  BY <1>0, <1>1, <1>2, <1>3, <1>4, <1>5, <1>6, <1>7, <1>8, <1>9, <1>10, <1>11, <1>12, <1>13,
     <1>14, <1>15, <1>16, NextCases, Zenon

LEMMA CallsStep ==
  ASSUME IInv, Next
  PROVE  CallsOk'
<1>0. /\ TypeOK /\ ShapeInv /\ StateInv /\ TimerInv /\ OneWaker /\ CallsOk
  BY TypeParts DEF IInv
<1>k. NoCall \in [call : {"none", "io", "connect", "sleep"}, fd : Fd \cup {Nil}, ev : event \cup {Nil}]
  BY DEF NoCall
<1>u. ASSUME state' = state, wait' = wait, cancelled' = cancelled, gone' = gone, open' = open
      PROVE  CallsOk'
  BY <1>0, <1>u DEF CallsOk
<1>s. ASSUME NEW c \in Coroutine, NEW s \in {"READY", "RUNNING", "TERM"},
             state' = [state EXCEPT ![c] = s], wait' = wait, cancelled' = cancelled,
             gone' = gone, open' = open
      PROVE  CallsOk'
  BY <1>0, <1>s DEF CallsOk
<1>w. ASSUME NEW c \in Coroutine, state' = [state EXCEPT ![c] = "READY"],
             NEW call \in {"io", "connect", "sleep"}, NEW fd \in Fd \cup {Nil},
             NEW e \in event \cup {Nil},
             wait' = [wait EXCEPT ![c] = [call |-> call, fd |-> fd, ev |-> e]],
             cancelled' = cancelled, gone' = gone, open' = open
      PROVE  CallsOk'
  BY <1>0, <1>w DEF CallsOk
<1>1. CASE \E c \in Coroutine : MainAdds(c)
  BY <1>1, <1>s, MainAddsEffect
<1>2. CASE MainAddsTimer \/ CallStop \/ Stop \/ Joined
  BY <1>2, <1>u, MainAddsTimerEffect, CallStopEffect, StopEffect, JoinedEffect
<1>3. CASE \E fd \in Fd : HangUp(fd)
  BY <1>0, <1>3, HangUpEffect DEF CallsOk
<1>4. CASE \E fd \in Fd, e \in event : Arrive(fd, e)
  BY <1>4, <1>u, ArriveEffect
<1>5. CASE NoTask \/ EnterIdle \/ GetNextDuration \/ CheckStopping
  BY <1>5, <1>u, NoTaskEffect, EnterIdleEffect, GetNextDurationEffect,
     CheckStoppingEffect
<1>6. CASE Take
  <2> DEFINE t == Head(tasks)
  <2>1. /\ t.kind = "resume" => t.co \in Coroutine /\ state' = [state EXCEPT ![t.co] = "RUNNING"]
        /\ t.kind # "resume" => state' = state
        /\ wait' = wait /\ cancelled' = cancelled /\ gone' = gone /\ open' = open
    BY <1>0, <1>6, TakeCases, TakeEffect
  <2> HIDE DEF t
  <2> QED
    BY <1>u, <1>s, <2>1
<1>7. CASE \E n \in 0 .. Len(timers) : Pass(n)
  BY <1>7, <1>u, PassEffect
<1>8. CASE Callback
  <2>1. /\ state' = state /\ wait' = wait /\ gone' = gone /\ open' = open
        /\ WellFormed(cur)
        /\ \/ cancelled' = cancelled
           \/ cur.kind = "timeout" /\ cancelled' = [cancelled EXCEPT ![cur.co] = TRUE]
    BY <1>0, <1>8, CallbackEffect, CallbackCases
  <2>2. cancelled' \in [Coroutine -> BOOLEAN]
    BY <1>0, <2>1 DEF CallsOk
  <2> QED
    BY <1>0, <2>1, <2>2 DEF CallsOk
<1>9. CASE \E c \in Coroutine : Returns(c)
  <2>1. PICK c \in Coroutine : Returns(c)
    BY <1>9
  <2>2. /\ wait' = [wait EXCEPT ![c] = NoCall] /\ cancelled' = [cancelled EXCEPT ![c] = FALSE]
        /\ state' = state /\ gone' = gone /\ open' = open
    BY <2>1, ReturnsEffect
  <2> HIDE DEF NoCall
  <2> QED
    BY <1>0, <1>k, <2>2 DEF CallsOk
<1>10. CASE \E c \in Coroutine : \E fd \in Fd, e \in event, call \in {"io", "connect"} :
             Blocking(c, call, fd, e)
  BY <1>10, <1>w, BlockingEffect
<1>11. CASE \E c \in Coroutine, fd \in Fd, e \in event : AddWatch(c, fd, e)
  BY <1>11, <1>u, AddWatchEffect
<1>12. CASE \E c \in Coroutine, fd \in Fd : Close(c, fd)
  BY <1>0, <1>12, CloseEffect DEF CallsOk
<1>13. CASE \E c \in Coroutine, d \in Coroutine : Spawn(c, d)
  BY <1>13, <1>s, SpawnEffect
<1>14. CASE \E c \in Coroutine : Sleep(c)
  BY <1>14, <1>w, SleepEffect
<1>15. CASE \E c \in Coroutine : Finish(c)
  BY <1>15, <1>s, FinishEffect
<1> QED
  BY <1>0, <1>1, <1>2, <1>3, <1>4, <1>5, <1>6, <1>7, <1>8, <1>9, <1>10, <1>11, <1>12, <1>13,
     <1>14, <1>15, NextCases, Zenon

LEMMA TypeStep ==
  ASSUME IInv, Next
  PROVE  TypeOK'
<1>1. WorkerOk' /\ MainOk' /\ CallsOk' /\ Flags' /\ UsedOk' /\ waiting' \in Waits /\ PendingCounted'
  BY WorkerStep, MainStep, CallsStep, FlagsStep, UsedStep, EventsStep
<1>2. tasks' \in Seq(TaskType) /\ timers' \in Seq(TaskType)
  BY TasksStep, TimersStep DEF TasksOk, TimersOk
<1>3. pending' \in Nat
  <2>1. Registrations' \in SUBSET (Fd \X event)
    BY DEF Registrations
  <2> QED
    BY <1>1, <2>1, FinitePairs DEF PendingCounted
<1> QED
  BY <1>1, <1>2, <1>3, Zenon
     DEF TypeOK, WorkerOk, MainOk, CallsOk, Flags, UsedOk, Waits, Pcs

LEMMA ShapeStep ==
  ASSUME IInv, Next
  PROVE  ShapeInv' /\ TimerInv' /\ PastCalls'
<1>1. TasksOk' /\ TimersOk'
  BY TasksStep, TimersStep
<1>2. Runs'
  BY WorkerStep
<1>3. /\ \A i \in DOMAIN tasks' : WellFormed(tasks'[i])
      /\ \A i \in DOMAIN timers' : WellFormed(timers'[i]) /\ timers'[i].kind # "resume"
  BY <1>1 DEF TasksOk, TimersOk, TaskOk, TimerOk, WellFormed
<1>4. ShapeInv'
  BY <1>2, <1>3 DEF ShapeInv, WellFormed, Runs
<1>5. TimerInv' /\ PastCalls'
  BY <1>1 DEF TasksOk, TimersOk, TaskOk, TimerOk, TimerInv, PastCalls
<1> QED
  BY <1>4, <1>5

-----------------------------------------------------------------------------
\* The steps keep what the worker relies on while it is idle.

LEMMA IdleStep ==
  ASSUME IInv, Next
  PROVE  IdleQueue'
<1>0. /\ TypeOK /\ StateInv /\ TimerInv /\ IdleQueue /\ tasks \in Seq(TaskType)
      /\ \A c \in Coroutine : state[c] = "none" => wait[c] = NoCall
  BY DEF IInv, TypeOK, StateInv
<1>u. ASSUME pc' \in {"idle", "check", "decide", "wait"} => pc \in {"idle", "check", "decide", "wait"},
             tasks' = tasks, wait' = wait
      PROVE  IdleQueue'
  BY <1>0, <1>u DEF IdleQueue
<1>v. ASSUME pc' \notin {"idle", "check", "decide", "wait"}
      PROVE  IdleQueue'
  BY <1>v DEF IdleQueue
<1>1. CASE \E c \in Coroutine : MainAdds(c)
  <2>1. PICK c \in Coroutine : MainAdds(c)
    BY <1>1
  <2>2. tasks' = tasks \o <<Resume(c)>> /\ pc' = pc /\ wait' = wait /\ wait[c] = NoCall
    BY <1>0, <2>1, MainAddsEffect
  <2> DEFINE t == Resume(c)
             one == <<t>>
             u == tasks \o one
  <2>3. t \in TaskType /\ t.kind = "resume" /\ t.co = c
    BY TaskForms DEF WellFormed
  <2> HIDE DEF t
  <2>4. one \in Seq(TaskType) /\ DOMAIN one = {1} /\ one[1] = t
    BY <2>3, OneTaskFacts
  <2> HIDE DEF one
  <2>5. /\ \A i \in DOMAIN tasks : u[i] = tasks[i]
        /\ \A i \in DOMAIN one : u[Len(tasks) + i] = one[i]
        /\ \A i \in DOMAIN u : i \in DOMAIN tasks \/ \E j \in DOMAIN one : i = Len(tasks) + j
    BY <1>0, <2>4, ConcatFacts
  <2>6. tasks' = u
    BY <2>2 DEF u, one, t
  <2> HIDE DEF u
  <2>7. ASSUME pc' \in {"idle", "check", "decide", "wait"}, NEW i \in DOMAIN u
        PROVE  u[i].kind = "resume" /\ wait[u[i].co] = NoCall
    <3>1. CASE i \in DOMAIN tasks
      BY <1>0, <2>2, <2>5, <2>7, <3>1 DEF IdleQueue
    <3>2. CASE i \notin DOMAIN tasks
      BY <2>2, <2>3, <2>4, <2>5, <3>2
    <3> QED
      BY <3>1, <3>2
  <2> QED
    BY <2>2, <2>6, <2>7 DEF IdleQueue
<1>2. CASE MainAddsTimer \/ CallStop \/ Joined
  BY <1>2, <1>u, MainAddsTimerEffect, CallStopEffect, JoinedEffect
<1>3. CASE Stop
  BY <1>3, <1>u, StopEffect
<1>4. CASE (\E fd \in Fd : HangUp(fd)) \/ \E fd \in Fd, e \in event : Arrive(fd, e)
  BY <1>4, <1>u, HangUpEffect, ArriveEffect
<1>5. CASE NoTask
  <2>1. tasks' = <<>>
    BY <1>5, NoTaskEffect
  <2> QED
    BY <2>1, EmptyTasks DEF IdleQueue
<1>6. CASE EnterIdle \/ GetNextDuration \/ CheckStopping
  BY <1>6, <1>u, EnterIdleEffect, GetNextDurationEffect,
     CheckStoppingEffect
<1>7. CASE Take
  <2>1. pc' \notin {"idle", "check", "decide", "wait"}
    BY <1>7, TakeEffect DEF Take
  <2> QED
    BY <1>v, <2>1
<1>8. CASE \E n \in 0 .. Len(timers) : Pass(n)
  BY <1>8, <1>v, PassEffect
<1>9. CASE Callback
  BY <1>9, <1>v, CallbackEffect
<1>10. CASE \E c \in Coroutine : Returns(c)
  BY <1>10, <1>v, ReturnsEffect DEF Running
<1>11. CASE \E c \in Coroutine : \E fd \in Fd, e \in event, call \in {"io", "connect"} :
             Blocking(c, call, fd, e)
  BY <1>11, <1>v, BlockingEffect
<1>12. CASE \/ \E c \in Coroutine, fd \in Fd, e \in event : AddWatch(c, fd, e)
            \/ \E c \in Coroutine, fd \in Fd : Close(c, fd)
            \/ \E c \in Coroutine, d \in Coroutine : Spawn(c, d)
  BY <1>12, <1>v, AddWatchEffect, CloseEffect, SpawnEffect DEF Calls, Free, Running
<1>13. CASE \E c \in Coroutine : Sleep(c) \/ Finish(c)
  BY <1>13, <1>v, SleepEffect, FinishEffect
<1> QED
  BY <1>0, <1>1, <1>2, <1>3, <1>4, <1>5, <1>6, <1>7, <1>8, <1>9, <1>10, <1>11, <1>12, <1>13,
     NextCases, Zenon

LEMMA TickleStep ==
  ASSUME IInv, Next
  PROVE  TickledPipe' /\ NoMissedTimer'
<1>0. /\ TypeOK /\ StateInv /\ StopInv /\ TimerInv /\ TickledPipe /\ NoMissedTimer
      /\ timers \in Seq(TaskType) /\ pipe \in BOOLEAN /\ tickled \in BOOLEAN
      /\ made \in Nat /\ (pc \in {"decide", "wait"} => idle = 1)
  BY CoroutinesAssumption DEF IInv, TypeOK
<1>v. ASSUME pc' \notin {"decide", "wait"}
      PROVE  TickledPipe' /\ NoMissedTimer'
  BY <1>v DEF TickledPipe, NoMissedTimer
<1>u. ASSUME pc' = pc, timers' = timers, tickled' = tickled, seen' = seen, pipe => pipe'
      PROVE  TickledPipe' /\ NoMissedTimer'
  BY <1>0, <1>u DEF TickledPipe, NoMissedTimer
<1>1. CASE \E c \in Coroutine : MainAdds(c)
  BY <1>1, <1>u, MainAddsEffect DEF Tickled
<1>2. CASE MainAddsTimer
  <2>1. AddTimer(Tick(made)) /\ pc' = pc /\ seen' = seen
    BY <1>2, MainAddsTimerEffect
  <2>2. PICK i \in 1 .. Len(timers) + 1 :
          /\ timers' = InsertAt(timers, i, Tick(made))
          /\ tickled' = (tickled \/ i = 1)
          /\ pipe' = Tickled(i = 1 /\ ~tickled)
    BY <2>1 DEF AddTimer
  <2>3. pc \in {"decide", "wait"} => pipe' = (pipe \/ (i = 1 /\ ~tickled))
    BY <1>0, <2>2 DEF Tickled
  <2>4. CASE i = 1
    <3>1. pc \in {"decide", "wait"} => pipe'
      BY <1>0, <2>3, <2>4 DEF TickledPipe
    <3> QED
      BY <2>1, <3>1 DEF TickledPipe, NoMissedTimer
  <2>5. CASE i # 1
    <3>1. Tick(made) \in TaskType
      BY <1>0, TaskForms DEF WellFormed
    <3>2. 1 \in 1 .. i - 1 /\ Len(timers) # 0
      BY <1>0, <2>5, TaskSeqFacts
    <3>3. InsertAt(timers, i, Tick(made))[1] = timers[1]
      <4>1. \A j \in 1 .. i - 1 : InsertAt(timers, i, Tick(made))[j] = timers[j]
        BY <1>0, <3>1, InsertFacts, Zenon
      <4> QED
        BY <3>2, <4>1, Zenon
    <3>4. InsertAt(timers, i, Tick(made)) \in Seq(TaskType)
      BY <1>0, <3>1, InsertFacts
    <3>5. timers # <<>>
      BY <3>2, EmptySeq
    <3>6. timers' # <<>> => Head(timers') = Head(timers)
      BY <1>0, <2>2, <3>3, <3>4, <3>5, HeadTailFacts
    <3>7. pipe' = Tickled(FALSE) /\ tickled' = tickled
      BY <2>2, <2>5, <1>0
    <3> QED
      BY <1>0, <2>1, <3>5, <3>6, <3>7 DEF TickledPipe, NoMissedTimer, Tickled
  <2> QED
    BY <2>4, <2>5
<1>3. CASE Stop
  <2>1. /\ pipe' = Tickled(TRUE) /\ pc' = IF asWorker THEN "take" ELSE pc
    BY <1>3, StopEffect
  <2>2. pc' \in {"decide", "wait"} => idle = 1
    BY <1>0, <2>1
  <2>3. ASSUME idle = 1 PROVE pipe'
    <3>1. idle > 0
      BY <2>3
    <3>2. Tickled(TRUE)
      BY <3>1 DEF Tickled
    <3> QED
      BY <2>1, <3>2
  <2> QED
    BY <2>2, <2>3 DEF TickledPipe, NoMissedTimer
<1>4. CASE Joined \/ NoTask \/ EnterIdle \/ Callback
  BY <1>4, <1>v, JoinedEffect, NoTaskEffect, EnterIdleEffect, CallbackEffect
<1>5. CASE (\E fd \in Fd : HangUp(fd)) \/ \E fd \in Fd, e \in event : Arrive(fd, e)
  BY <1>5, <1>u, HangUpEffect, ArriveEffect
<1>6. CASE CheckStopping
  <2>1. pc' \in {"take", "wait"}
    BY <1>6 DEF CheckStopping
  <2> QED
    BY <1>0, <1>6, <2>1, CheckStoppingEffect DEF TickledPipe, NoMissedTimer
<1>13. CASE CallStop
  BY <1>0, <1>13, CallStopEffect DEF TickledPipe, NoMissedTimer
<1>14. CASE GetNextDuration
  BY <1>14, GetNextDurationEffect DEF TickledPipe, NoMissedTimer
<1>7. CASE Take
  <2>1. pc' \notin {"decide", "wait"}
    BY <1>7, TakeEffect DEF Take
  <2> QED
    BY <1>v, <2>1
<1>8. CASE \E n \in 0 .. Len(timers) : Pass(n)
  BY <1>8, <1>v, PassEffect
<1>9. CASE \E c \in Coroutine : Returns(c)
  BY <1>9, <1>v, ReturnsEffect DEF Running
<1>10. CASE \E c \in Coroutine : \E fd \in Fd, e \in event, call \in {"io", "connect"} :
             Blocking(c, call, fd, e)
  BY <1>10, <1>v, BlockingEffect
<1>11. CASE \/ \E c \in Coroutine, fd \in Fd, e \in event : AddWatch(c, fd, e)
            \/ \E c \in Coroutine, fd \in Fd : Close(c, fd)
            \/ \E c \in Coroutine, d \in Coroutine : Spawn(c, d)
  BY <1>11, <1>v, AddWatchEffect, CloseEffect, SpawnEffect DEF Calls, Free, Running
<1>12. CASE \E c \in Coroutine : Sleep(c) \/ Finish(c)
  BY <1>12, <1>v, SleepEffect, FinishEffect
<1> QED
  BY <1>0, <1>1, <1>2, <1>3, <1>4, <1>5, <1>6, <1>7, <1>8, <1>9, <1>10, <1>11, <1>12, <1>13, <1>14,
     NextCases, Zenon

-----------------------------------------------------------------------------
\* A time-out that has become too late stays so; one that is not runs before its waiter.

StillLive(t) == wait'[t.co].call \in {"io", "connect"} /\ used'[t.co] = t.call

LEMMA LiveShrinks ==
  ASSUME IInv, Next, NEW t, TaskOk(t), t.kind = "timeout", StillLive(t)
  PROVE  Live(t)
<1>0. /\ TypeOK /\ StateInv /\ TimerInv
      /\ wait \in [Coroutine -> [call : {"none", "io", "connect", "sleep"},
                                 fd : Fd \cup {Nil}, ev : event \cup {Nil}]]
      /\ used \in [Coroutine -> Nat]
  BY DEF IInv, TypeOK
<1>t. t.co \in Coroutine /\ t.call \in Nat /\ used[t.co] \in Nat /\ t.call <= used[t.co]
  BY <1>0 DEF TaskOk, WellFormed, TaskType
<1>n. NoCall.call = "none"
  BY DEF NoCall
<1>u. ASSUME wait' = wait, used' = used
      PROVE  Live(t)
  BY <1>u DEF StillLive, Live
\* The call after it.
<1>i. ASSUME NEW c \in Coroutine, used' = [used EXCEPT ![c] = used[c] + 1]
      PROVE  t.co # c /\ used'[t.co] = used[t.co]
  <2>1. used'[t.co] = IF t.co = c THEN used[t.co] + 1 ELSE used[t.co]
    BY <1>0, <1>t, <1>i
  <2>2. used'[t.co] = t.call
    BY DEF StillLive
  <2> QED
    BY <1>t, <2>1, <2>2
<1>c. ASSUME NEW c \in Coroutine, used' = [used EXCEPT ![c] = used[c] + 1], wait' = wait
      PROVE  Live(t)
  BY <1>i, <1>c DEF StillLive, Live
\* The call it is of goes on, or another one of another coroutine does.
<1>s. ASSUME NEW c \in Coroutine, Spends(c), NEW w, wait' = [wait EXCEPT ![c] = w],
             w.call \in {"io", "connect"} /\ wait[c] # NoCall => wait[c].call = "io"
      PROVE  Live(t)
  <2>1. wait'[t.co] = IF t.co = c THEN w ELSE wait[t.co]
    BY <1>0, <1>t, <1>s
  <2>2. used'[t.co] = used[t.co] /\ (t.co = c => wait[c] # NoCall)
    BY <1>i, <1>s DEF Spends
  <2> QED
    BY <1>s, <2>1, <2>2 DEF StillLive, Live
<1>1. CASE \E c \in Coroutine : MainAdds(c)
  BY <1>1, <1>u, MainAddsEffect
<1>2. CASE MainAddsTimer \/ CallStop \/ Stop \/ Joined
  BY <1>2, <1>u, MainAddsTimerEffect, CallStopEffect, StopEffect, JoinedEffect
<1>3. CASE (\E fd \in Fd : HangUp(fd)) \/ \E fd \in Fd, e \in event : Arrive(fd, e)
  BY <1>3, <1>u, HangUpEffect, ArriveEffect
<1>4. CASE Take \/ NoTask \/ EnterIdle \/ GetNextDuration \/ CheckStopping \/ Callback
  BY <1>4, <1>u, TakeEffect, NoTaskEffect, EnterIdleEffect, GetNextDurationEffect,
     CheckStoppingEffect, CallbackEffect
<1>5. CASE \E n \in 0 .. Len(timers) : Pass(n)
  BY <1>5, <1>u, PassEffect
<1>6. CASE \E c \in Coroutine : Returns(c)
  <2>1. PICK c \in Coroutine : Returns(c)
    BY <1>6
  <2>2. Spends(c) /\ wait' = [wait EXCEPT ![c] = NoCall]
    BY <2>1, ReturnsEffect
  <2> HIDE DEF NoCall
  <2> QED
    BY <1>s, <1>n, <2>2
<1>7. CASE \E c \in Coroutine : \E fd \in Fd, e \in event, call \in {"io", "connect"} :
             Blocking(c, call, fd, e)
  <2>1. PICK c \in Coroutine, fd \in Fd, e \in event, call \in {"io", "connect"} :
               Blocking(c, call, fd, e)
    BY <1>7
  <2> DEFINE w == [call |-> call, fd |-> fd, ev |-> e]
  <2>2. Spends(c) /\ wait' = [wait EXCEPT ![c] = w] /\ (wait[c] # NoCall => wait[c].call = "io")
    BY <2>1, BlockingEffect
  <2> HIDE DEF w, NoCall
  <2> QED
    BY <1>s, <2>2
<1>8. CASE \/ \E c \in Coroutine, fd \in Fd, e \in event : AddWatch(c, fd, e)
           \/ \E c \in Coroutine, fd \in Fd : Close(c, fd)
           \/ \E c \in Coroutine, d \in Coroutine : Spawn(c, d)
  BY <1>8, <1>c, AddWatchEffect, CloseEffect, SpawnEffect
<1>9. CASE \E c \in Coroutine : Sleep(c)
  <2>1. PICK c \in Coroutine : Sleep(c)
    BY <1>9
  <2> DEFINE w == [call |-> "sleep", fd |-> Nil, ev |-> Nil]
  <2>2. Spends(c) /\ wait' = [wait EXCEPT ![c] = w]
    BY <2>1, SleepEffect DEF Calls, Free, Spends
  <2>3. w.call = "sleep"
    OBVIOUS
  <2> HIDE DEF w, NoCall
  <2> QED
    BY <1>s, <2>2, <2>3
<1>10. CASE \E c \in Coroutine : Finish(c)
  BY <1>10, <1>u, FinishEffect
<1> QED
  BY <1>0, <1>1, <1>2, <1>3, <1>4, <1>5, <1>6, <1>7, <1>8, <1>9, <1>10, NextCases, Zenon

\* OrderInv and OwnTimeout of the next state, of the time-outs one by one.
NextOrder == \A i \in DOMAIN tasks' :
  tasks'[i].kind = "timeout" /\ StillLive(tasks'[i]) =>
    /\ state'[tasks'[i].co] # "RUNNING"
    /\ \A j \in DOMAIN tasks' : Resumes(tasks'[j], tasks'[i].co) => j > i
    /\ \A j \in DOMAIN timers' : timers'[j].co # tasks'[i].co

LEMMA OrderStep ==
  ASSUME IInv, Next
  PROVE  NextOrder
<1>0. /\ TypeOK /\ ShapeInv /\ StateInv /\ TimerInv /\ OneWaker /\ OrderInv /\ OwnTimeout
      /\ IdleQueue /\ PendingCounted /\ waiting \in Waits
      /\ state \in [Coroutine -> {"none", "READY", "RUNNING", "TERM"}]
      /\ tasks \in Seq(TaskType) /\ timers \in Seq(TaskType) /\ Distinct(timers)
      /\ made \in Nat /\ Nil \notin Coroutine
      /\ \A i \in DOMAIN tasks : TaskOk(tasks[i])
  BY TasksAreOk, CoroutinesAssumption DEF IInv, TypeOK, Waits, TimerInv, TasksOk
<1>p. \A i \in DOMAIN tasks : tasks[i].kind = "timeout" => tasks[i].co \in Coroutine
  BY <1>0 DEF ShapeInv, WellFormed
<1>l. ASSUME NEW i \in DOMAIN tasks, tasks[i].kind = "timeout", StillLive(tasks[i])
      PROVE  /\ Live(tasks[i]) /\ state[tasks[i].co] # "RUNNING"
             /\ \A j \in DOMAIN tasks : Resumes(tasks[j], tasks[i].co) => j > i
             /\ \A j \in DOMAIN timers : timers[j].co # tasks[i].co
  <2>1. Live(tasks[i])
    BY <1>0, <1>l, LiveShrinks
  <2> QED
    BY <1>0, <1>l, <2>1 DEF OrderInv, OwnTimeout
<1>d. DOMAIN tasks = 1 .. Len(tasks) /\ Len(tasks) \in Nat
  BY <1>0, TaskSeqFacts
\* Nobody starts to run, the queued time-outs stay where they are, what is new in the queue is
\* behind them, and what is new among the timers belongs to nobody or to who was running.
<1>k. ASSUME \A c \in Coroutine : state'[c] = "RUNNING" => state[c] = "RUNNING",
             \A j \in DOMAIN tasks' : \/ j \in DOMAIN tasks /\ tasks'[j] = tasks[j]
                                      \/ j > Len(tasks) /\ j \notin DOMAIN tasks
                                           /\ tasks'[j].kind \in {"resume", "watch"},
             \A j \in DOMAIN timers' : \/ \E k \in DOMAIN timers : timers'[j] = timers[k]
                                       \/ timers'[j].co = Nil
                                       \/ timers'[j].co \in Coroutine
                                            /\ state[timers'[j].co] = "RUNNING"
      PROVE  NextOrder
  <2> SUFFICES ASSUME NEW i \in DOMAIN tasks', tasks'[i].kind = "timeout", StillLive(tasks'[i])
               PROVE  /\ state'[tasks'[i].co] # "RUNNING"
                      /\ \A j \in DOMAIN tasks' : Resumes(tasks'[j], tasks'[i].co) => j > i
                      /\ \A j \in DOMAIN timers' : timers'[j].co # tasks'[i].co
    BY DEF NextOrder
  <2>1. i \in DOMAIN tasks /\ tasks'[i] = tasks[i]
    BY <1>k
  <2>2. PICK t : t = tasks[i]
    OBVIOUS
  <2>3. t.kind = "timeout" /\ StillLive(t) /\ tasks'[i] = t
    BY <2>1, <2>2
  <2>4. /\ t.co \in Coroutine /\ state[t.co] # "RUNNING"
        /\ \A j \in DOMAIN tasks : Resumes(tasks[j], t.co) => j > i
        /\ \A j \in DOMAIN timers : timers[j].co # t.co
    BY <1>l, <1>p, <2>1, <2>2, <2>3
  <2>5. state'[t.co] # "RUNNING"
    BY <1>k, <2>4
  <2>6. ASSUME NEW j \in DOMAIN tasks', Resumes(tasks'[j], t.co)
        PROVE  j > i
    <3>1. CASE j \in DOMAIN tasks /\ tasks'[j] = tasks[j]
      BY <2>4, <2>6, <3>1
    <3>2. CASE j > Len(tasks) /\ j \notin DOMAIN tasks
      <4>1. i \in 1 .. Len(tasks) /\ j > Len(tasks)
        BY <1>d, <2>1, <3>2
      <4>2. j \in Int
        <5>1. DOMAIN tasks' = 1 .. Len(tasks')
          BY TasksStep, TaskSeqFacts DEF TasksOk, TaskType
        <5> QED
          BY <5>1
      <4> QED
        BY <1>d, <4>1, <4>2
    <3> QED
      BY <1>k, <3>1, <3>2
  <2>7. ASSUME NEW j \in DOMAIN timers'
        PROVE  timers'[j].co # t.co
    BY <1>0, <1>k, <2>4
  <2> QED
    BY <2>3, <2>5, <2>6, <2>7
\* The timers stay, or some of them go.
<1>t. timers' = timers => \A j \in DOMAIN timers' : \E k \in DOMAIN timers : timers'[j] = timers[k]
  OBVIOUS
<1>a. ASSUME NEW t \in TaskType, NEW s \in Seq(TaskType), Parts(s, timers),
             t.co = Nil \/ (t.co \in Coroutine /\ state[t.co] = "RUNNING"),
             NEW i \in 1 .. Len(s) + 1, timers' = InsertAt(s, i, t), Distinct(s),
             t.co # Nil => \A j \in DOMAIN s : s[j].co # t.co
      PROVE  \A j \in DOMAIN timers' : \/ \E k \in DOMAIN timers : timers'[j] = timers[k]
                                       \/ timers'[j].co = Nil
                                       \/ timers'[j].co \in Coroutine
                                            /\ state[timers'[j].co] = "RUNNING"
  <2> DEFINE u == InsertAt(s, i, t)
  <2>1. \A j \in DOMAIN u : u[j] = t \/ \E k \in DOMAIN s : u[j] = s[k]
    BY <1>a, InsertDistinct, Zenon
  <2>2. timers' = u
    BY <1>a
  <2> HIDE DEF u
  <2> QED
    BY <1>a, <2>1, <2>2 DEF Parts
<1>r. ASSUME NEW d \in Coroutine, tasks' = tasks \o <<Resume(d)>>
      PROVE  \A j \in DOMAIN tasks' : \/ j \in DOMAIN tasks /\ tasks'[j] = tasks[j]
                                      \/ j > Len(tasks) /\ j \notin DOMAIN tasks
                                           /\ tasks'[j].kind \in {"resume", "watch"}
  <2> DEFINE t == Resume(d)
             one == <<t>>
             u == tasks \o one
  <2>1. t \in TaskType /\ t.kind = "resume"
    BY TaskForms DEF WellFormed
  <2> HIDE DEF t
  <2>2. one \in Seq(TaskType) /\ DOMAIN one = {1} /\ one[1] = t
    BY <2>1, OneTaskFacts
  <2> HIDE DEF one
  <2>3. /\ \A j \in DOMAIN tasks : u[j] = tasks[j]
        /\ \A j \in DOMAIN one : u[Len(tasks) + j] = one[j]
        /\ \A j \in DOMAIN u : j \in DOMAIN tasks \/ \E k \in DOMAIN one : j = Len(tasks) + k
    BY <1>0, <2>2, ConcatFacts
  <2>4. tasks' = u
    BY <1>r DEF u, one, t
  <2> HIDE DEF u
  <2>5. Len(tasks) + 1 > Len(tasks) /\ Len(tasks) + 1 \notin DOMAIN tasks
    BY <1>d
  <2> QED
    BY <2>1, <2>2, <2>3, <2>4, <2>5
<1>m. ASSUME Moves(tasks)
      PROVE  \A j \in DOMAIN tasks' : \/ j \in DOMAIN tasks /\ tasks'[j] = tasks[j]
                                      \/ j > Len(tasks) /\ j \notin DOMAIN tasks
                                           /\ tasks'[j].kind \in {"resume", "watch"}
  <2>1. /\ \A j \in DOMAIN tasks : tasks'[j] = tasks[j]
        /\ \A j \in DOMAIN tasks' : j \notin DOMAIN tasks =>
             j > Len(tasks) /\ WellFormed(tasks'[j]) /\ tasks'[j].kind \in {"resume", "watch"}
    BY <1>0, <1>m, MovesFacts
  <2> QED
    BY <2>1
<1>x. ASSUME NEW c \in Coroutine, NEW s \in {"READY", "TERM"}, state' = [state EXCEPT ![c] = s]
      PROVE  \A d \in Coroutine : state'[d] = "RUNNING" => state[d] = "RUNNING"
  BY <1>0, <1>x
<1>c. \A c \in Coroutine : Running(c) => state[c] = "RUNNING"
  BY <1>0 DEF StateInv
<1>u. ASSUME tasks' = tasks, timers' = timers, state' = state
      PROVE  NextOrder
  BY <1>k, <1>t, <1>u
<1>1. CASE \E c \in Coroutine : MainAdds(c)
  <2>1. PICK c \in Coroutine : MainAdds(c)
    BY <1>1
  <2>2. tasks' = tasks \o <<Resume(c)>> /\ timers' = timers /\ state' = [state EXCEPT ![c] = "READY"]
    BY <2>1, MainAddsEffect
  <2> QED
    BY <1>k, <1>t, <1>r, <1>x, <2>2
<1>2. CASE MainAddsTimer
  <2>1. PICK i \in 1 .. Len(timers) + 1 : timers' = InsertAt(timers, i, Tick(made))
    BY <1>2, MainAddsTimerEffect DEF AddTimer
  <2>2. tasks' = tasks /\ state' = state
    BY <1>2, MainAddsTimerEffect
  <2> DEFINE t == Tick(made)
  <2>3. t \in TaskType /\ t.co = Nil
    BY <1>0, TaskForms DEF WellFormed
  <2> HIDE DEF t
  <2>4. timers' = InsertAt(timers, i, t) /\ Parts(timers, timers)
    BY <2>1 DEF t, Parts
  <2> QED
    BY <1>0, <1>k, <1>a, <2>2, <2>3, <2>4
<1>3. CASE CallStop \/ Stop \/ Joined
  BY <1>3, <1>u, CallStopEffect, StopEffect, JoinedEffect
<1>4. CASE (\E fd \in Fd : HangUp(fd)) \/ \E fd \in Fd, e \in event : Arrive(fd, e)
  BY <1>4, <1>u, HangUpEffect, ArriveEffect
<1>5. CASE NoTask \/ EnterIdle \/ GetNextDuration \/ CheckStopping
  BY <1>5, <1>u, NoTaskEffect, EnterIdleEffect, GetNextDurationEffect,
     CheckStoppingEffect
<1>6. CASE Callback
  <2>1. timers' = timers /\ state' = state /\ pc = "callback"
    BY <1>6, CallbackEffect
  <2>2. /\ WellFormed(cur)
        /\ \/ cur.kind = "wake" /\ tasks' = tasks \o <<Resume(cur.co)>>
           \/ Moves(tasks)
           \/ tasks' = tasks
    BY <1>0, <1>6, CallbackCases DEF Quiet
  <2>3. cur.kind = "wake" => cur.co \in Coroutine
    BY <2>2 DEF WellFormed
  <2>4. CASE cur.kind = "wake" /\ tasks' = tasks \o <<Resume(cur.co)>>
    <3>1. PICK d \in Coroutine : tasks' = tasks \o <<Resume(d)>>
      BY <2>3, <2>4
    <3> QED
      BY <1>k, <1>t, <1>r, <2>1, <3>1
  <2>5. CASE Moves(tasks)
    BY <1>k, <1>t, <1>m, <2>1, <2>5
  <2> QED
    BY <1>u, <2>1, <2>2, <2>4, <2>5
<1>7. CASE \E c \in Coroutine : Returns(c)
  <2>1. PICK c \in Coroutine : Returns(c)
    BY <1>7
  <2>2. tasks' = tasks /\ state' = state /\ timers' = TimersWithout(c)
    BY <2>1, ReturnsEffect
  <2>3. Parts(TimersWithout(c), timers)
    BY <1>0, WithoutFacts
  <2>4. \A j \in DOMAIN timers' : \E k \in DOMAIN timers : timers'[j] = timers[k]
    BY <2>2, <2>3 DEF Parts
  <2> QED
    BY <1>k, <2>2, <2>4
<1>8. CASE \E c \in Coroutine : \E fd \in Fd, e \in event, call \in {"io", "connect"} :
             Blocking(c, call, fd, e)
  <2>1. PICK c \in Coroutine, fd \in Fd, e \in event, call \in {"io", "connect"} :
               Blocking(c, call, fd, e)
    BY <1>8
  <2> DEFINE s == TimersWithout(c)
             t == Timeout(c, fd, e, used'[c])
  <2>2. /\ Running(c) /\ tasks' = tasks
        /\ timers' = s \/ \E i \in 1 .. Len(s) + 1 : timers' = InsertAt(s, i, t)
        /\ state' = [state EXCEPT ![c] = "READY"]
    BY <2>1, BlockingEffect
  <2>3. /\ s \in Seq(TaskType) /\ Parts(s, timers) /\ Distinct(s)
        /\ \A j \in DOMAIN s : s[j].co # c
    BY <1>0, WithoutFacts
  <2>4. used'[c] \in Nat
    BY UsedStep DEF UsedOk
  <2>5. t \in TaskType /\ t.co = c /\ state[c] = "RUNNING"
    BY <1>c, <2>2, <2>4, TaskForms DEF WellFormed
  <2> HIDE DEF s, t
  <2>6. \A j \in DOMAIN timers' : \/ \E k \in DOMAIN timers : timers'[j] = timers[k]
                                  \/ timers'[j].co = Nil
                                  \/ timers'[j].co \in Coroutine
                                       /\ state[timers'[j].co] = "RUNNING"
    <3>1. CASE timers' = s
      BY <2>3, <3>1 DEF Parts
    <3>2. CASE \E i \in 1 .. Len(s) + 1 : timers' = InsertAt(s, i, t)
      BY <1>a, <2>3, <2>5, <3>2
    <3> QED
      BY <2>2, <3>1, <3>2
  <2>7. \A d \in Coroutine : state'[d] = "RUNNING" => state[d] = "RUNNING"
    BY <1>x, <2>2
  <2> QED
    BY <1>k, <2>2, <2>6, <2>7
<1>9. CASE \E c \in Coroutine, fd \in Fd, e \in event : AddWatch(c, fd, e)
  BY <1>9, <1>u, AddWatchEffect
<1>10. CASE \E c \in Coroutine, fd \in Fd : Close(c, fd)
  <2>1. timers' = timers /\ state' = state
    BY <1>10, CloseEffect
  <2>2. Moves(tasks)
    BY <1>0, <1>10, CloseMoves
  <2> QED
    BY <1>k, <1>t, <1>m, <2>1, <2>2
<1>11. CASE \E c \in Coroutine, d \in Coroutine : Spawn(c, d)
  <2>1. PICK c \in Coroutine, d \in Coroutine : Spawn(c, d)
    BY <1>11
  <2>2. tasks' = tasks \o <<Resume(d)>> /\ timers' = timers /\ state' = [state EXCEPT ![d] = "READY"]
    BY <2>1, SpawnEffect
  <2> QED
    BY <1>k, <1>t, <1>r, <1>x, <2>2
<1>12. CASE \E c \in Coroutine : Sleep(c)
  <2>1. PICK c \in Coroutine : Sleep(c)
    BY <1>12
  <2>2. PICK i \in 1 .. Len(timers) + 1 : timers' = InsertAt(timers, i, Awake(c))
    BY <2>1, SleepEffect DEF AddTimer
  <2>3. /\ Running(c) /\ tasks' = tasks /\ state' = [state EXCEPT ![c] = "READY"]
        /\ wait[c] = NoCall
    BY <2>1, SleepEffect DEF Calls, Free
  <2> DEFINE t == Awake(c)
  <2>4. t \in TaskType /\ t.co = c /\ state[c] = "RUNNING"
    BY <1>c, <2>3, TaskForms DEF WellFormed
  <2>5. \A j \in DOMAIN timers : timers[j].co # c
    BY <1>0, <2>3, FreeTimers
  <2> HIDE DEF t
  <2>6. timers' = InsertAt(timers, i, t) /\ Parts(timers, timers)
    BY <2>2 DEF t, Parts
  <2>7. \A j \in DOMAIN timers' : \/ \E k \in DOMAIN timers : timers'[j] = timers[k]
                                  \/ timers'[j].co = Nil
                                  \/ timers'[j].co \in Coroutine
                                       /\ state[timers'[j].co] = "RUNNING"
    BY <1>0, <1>a, <2>4, <2>5, <2>6
  <2>8. \A d \in Coroutine : state'[d] = "RUNNING" => state[d] = "RUNNING"
    BY <1>x, <2>3
  <2> QED
    BY <1>k, <2>3, <2>7, <2>8
<1>13. CASE \E c \in Coroutine : Finish(c)
  <2>1. PICK c \in Coroutine : Finish(c)
    BY <1>13
  <2>2. tasks' = tasks /\ timers' = timers /\ state' = [state EXCEPT ![c] = "TERM"]
    BY <2>1, FinishEffect
  <2> QED
    BY <1>k, <1>t, <1>x, <2>2
<1>14. CASE Take
  <2> DEFINE h == Head(tasks)
             s == Tail(tasks)
  <2>1. tasks # <<>> /\ tasks' = s /\ timers' = timers
    BY <1>14, TakeEffect
  <2>2. \/ /\ h.kind = "resume" /\ h.co \in Coroutine /\ state' = [state EXCEPT ![h.co] = "RUNNING"]
        \/ h.kind # "resume" /\ state' = state
    BY <1>0, <1>14, TakeCases
  <2>3. /\ h = tasks[1] /\ 1 \in DOMAIN tasks
        /\ DOMAIN s = 1 .. Len(tasks) - 1
        /\ \A i \in DOMAIN s : i + 1 \in DOMAIN tasks /\ s[i] = tasks[i + 1]
    BY <1>0, <2>1, HeadTailFacts
  <2>4. \A c \in Coroutine : state'[c] = "RUNNING" =>
          state[c] = "RUNNING" \/ (h.kind = "resume" /\ h.co = c)
    BY <1>0, <2>2
  <2> HIDE DEF h, s
  <2> SUFFICES ASSUME NEW i \in DOMAIN s, s[i].kind = "timeout", StillLive(s[i])
               PROVE  /\ state'[s[i].co] # "RUNNING"
                      /\ \A j \in DOMAIN s : Resumes(s[j], s[i].co) => j > i
                      /\ \A j \in DOMAIN timers' : timers'[j].co # s[i].co
    BY <2>1 DEF NextOrder
  <2>5. PICK k \in DOMAIN tasks : k = i + 1 /\ tasks[k] = s[i]
    BY <2>3
  <2>6. PICK t : t = s[i]
    OBVIOUS
  <2>7. t.kind = "timeout" /\ StillLive(t) /\ tasks[k] = t
    BY <2>5, <2>6
  <2>8. /\ t.co \in Coroutine /\ state[t.co] # "RUNNING"
        /\ \A j \in DOMAIN tasks : Resumes(tasks[j], t.co) => j > k
        /\ \A j \in DOMAIN timers : timers[j].co # t.co
    BY <1>l, <1>p, <2>7
  <2>9. i \in Nat /\ i >= 1
    BY <1>d, <2>3
  <2>10. state'[t.co] # "RUNNING"
    <3>1. ~(1 > k)
      BY <2>5, <2>9
    <3>2. ~Resumes(h, t.co)
      BY <2>3, <2>8, <3>1
    <3> QED
      BY <2>4, <2>8, <3>2 DEF Resumes
  <2>11. ASSUME NEW j \in DOMAIN s, Resumes(s[j], t.co)
         PROVE  j > i
    <3>1. j + 1 > i + 1
      BY <2>3, <2>5, <2>8, <2>11
    <3>2. j \in Nat
      BY <1>d, <2>3
    <3> QED
      BY <2>9, <3>1, <3>2
  <2> QED
    BY <2>1, <2>6, <2>8, <2>10, <2>11
<1>15. CASE \E n \in 0 .. Len(timers) : Pass(n)
  <2>1. PICK n \in 0 .. Len(timers) : Pass(n)
    BY <1>15
  <2> DEFINE x == SubSeq(timers, 1, n)
             r == SubSeq(timers, n + 1, Len(timers))
             base == Expired(n)
  <2>2. timers' = r /\ pc = "wait" /\ state' = state /\ wait' = wait
    BY <2>1, PassEffect
  <2>3. Moves(base) /\ base \in Seq(TaskType)
    BY <1>0, <2>1, PassMoves
  <2>4. /\ x \in Seq(TaskType) /\ Parts(x, timers)
        /\ \A i \in DOMAIN x, j \in DOMAIN r : x[i].co # Nil => r[j].co # x[i].co
    BY <1>0, SplitFacts, RestDistinct
  <2>5. \A i, j \in DOMAIN x : x[i].co = x[j].co /\ x[i].co # Nil => i = j
    <3>1. DOMAIN x = 1 .. n /\ \A i \in 1 .. n : x[i] = timers[i]
      BY <1>0, SplitFacts
    <3>2. \A i \in 1 .. n : i \in DOMAIN timers
      BY <1>0, TaskSeqFacts
    <3> QED
      BY <1>0, <3>1, <3>2 DEF Distinct
  <2>6. base = tasks \o x
    BY DEF Expired
  <2> HIDE DEF x, r, base
  <2>7. /\ \A i \in DOMAIN tasks : base[i] = tasks[i]
        /\ \A i \in DOMAIN x : base[Len(tasks) + i] = x[i]
        /\ \A i \in DOMAIN base : i \in DOMAIN tasks \/ \E j \in DOMAIN x : i = Len(tasks) + j
        /\ DOMAIN base = 1 .. Len(base) /\ Len(base) \in Nat
    BY <1>0, <2>3, <2>4, <2>6, ConcatFacts, TaskSeqFacts
  <2>8. /\ tasks' \in Seq(TaskType)
        /\ \A i \in DOMAIN base : i \in DOMAIN tasks' /\ tasks'[i] = base[i]
        /\ \A i \in DOMAIN tasks' : i \notin DOMAIN base =>
             i > Len(base) /\ tasks'[i].kind \in {"resume", "watch"}
    BY <1>0, <2>3, MovesFacts
  <2>9. \A i \in DOMAIN tasks : tasks[i].kind = "resume" /\ wait[tasks[i].co] = NoCall
    BY <1>0, <2>2 DEF IdleQueue
  <2> SUFFICES ASSUME NEW i \in DOMAIN tasks', tasks'[i].kind = "timeout", StillLive(tasks'[i])
               PROVE  /\ state'[tasks'[i].co] # "RUNNING"
                      /\ \A j \in DOMAIN tasks' : Resumes(tasks'[j], tasks'[i].co) => j > i
                      /\ \A j \in DOMAIN timers' : timers'[j].co # tasks'[i].co
    BY DEF NextOrder
  <2>10. i \in DOMAIN base /\ i \notin DOMAIN tasks
    BY <2>7, <2>8, <2>9
  <2>11. PICK m \in DOMAIN x : i = Len(tasks) + m /\ tasks'[i] = x[m]
    BY <2>7, <2>8, <2>10
  <2>12. PICK t : t = x[m]
    OBVIOUS
  <2>13. t.kind = "timeout" /\ wait[t.co].call \in {"io", "connect"} /\ tasks'[i] = t
    BY <2>2, <2>11, <2>12 DEF StillLive
  <2>14. t.co \in Coroutine /\ t.co # Nil
    <3>1. WellFormed(t)
      BY <1>0, <2>4, <2>12 DEF ShapeInv, Parts
    <3> QED
      BY <1>0, <2>13, <3>1 DEF WellFormed
  <2>15. state'[t.co] # "RUNNING"
    BY <1>0, <2>2, <2>14 DEF StateInv, Running
  <2>16. \A j \in DOMAIN timers' : timers'[j].co # t.co
    BY <2>2, <2>4, <2>12, <2>14
  <2>17. ASSUME NEW j \in DOMAIN tasks', Resumes(tasks'[j], t.co)
         PROVE  j > i
    <3>1. CASE j \in DOMAIN base /\ j \in DOMAIN tasks
      <4>1. tasks'[j] = tasks[j]
        BY <2>7, <2>8, <3>1
      <4>2. wait[t.co] = NoCall
        BY <2>9, <2>17, <3>1, <4>1 DEF Resumes
      <4> QED
        BY <2>13, <4>2 DEF NoCall
    <3>2. CASE j \in DOMAIN base /\ j \notin DOMAIN tasks
      <4>1. PICK l \in DOMAIN x : j = Len(tasks) + l /\ tasks'[j] = x[l]
        BY <2>7, <2>8, <3>2
      <4>2. x[l].co = t.co /\ x[l].kind # "timeout"
        BY <2>17, <4>1 DEF Resumes
      <4>3. l = m
        BY <2>5, <2>12, <2>14, <4>2
      <4> QED
        BY <2>12, <2>13, <4>2, <4>3
    <3>3. CASE j \notin DOMAIN base
      <4>1. j > Len(base) /\ i \in 1 .. Len(base)
        BY <2>7, <2>8, <2>10, <3>3
      <4>2. DOMAIN tasks' = 1 .. Len(tasks')
        BY <2>8, TaskSeqFacts
      <4> QED
        BY <2>7, <4>1, <4>2
    <3> QED
      BY <3>1, <3>2, <3>3
  <2> QED
    BY <2>13, <2>15, <2>16, <2>17
<1> QED
  BY <1>0, <1>1, <1>2, <1>3, <1>4, <1>5, <1>6, <1>7, <1>8, <1>9, <1>10, <1>11, <1>12, <1>13,
     <1>14, <1>15, NextCases, Zenon

-----------------------------------------------------------------------------
\* The invariant.

LEMMA InitInv == Init => IInv
<1> SUFFICES ASSUME Init PROVE IInv
  OBVIOUS
<1>1. /\ tasks = <<>> /\ timers = <<>> /\ cur = Nil /\ seen = Nil
      /\ pc = IF asWorker THEN "off" ELSE "take"
      /\ active = 0 /\ idle = 0 /\ pending = 0 /\ main = "free" /\ made = 0
      /\ asWorker \in BOOLEAN /\ timed \in SUBSET Fd
      /\ idleOver = FALSE /\ stopped = FALSE /\ tickled = FALSE /\ pipe = FALSE
  BY DEF Init
<1>2. /\ waiting = [fd \in Fd |-> [e \in event |-> Nil]]
      /\ ready = [fd \in Fd |-> {}] /\ gone = {} /\ open = Fd
      /\ state = [c \in Coroutine |-> "none"] /\ wait = [c \in Coroutine |-> NoCall]
      /\ cancelled = [c \in Coroutine |-> FALSE] /\ used = [c \in Coroutine |-> 0]
  BY DEF Init
<1>3. <<>> \in Seq(TaskType) /\ DOMAIN <<>> = {}
  BY EmptyTasks
<1>4. NoCall \in [call : {"none", "io", "connect", "sleep"}, fd : Fd \cup {Nil}, ev : event \cup {Nil}]
      /\ NoCall.call = "none"
  BY DEF NoCall
<1>5. MaxTimers \in Nat /\ \A c \in Coroutine : MaxOps[c] \in Nat
  BY CoroutinesAssumption
<1>6. TypeOK
  <2>1. WorkerOk /\ MainOk
    <3>1. pc = "off" \/ pc = "take"
      BY <1>1
    <3>2. WorkerOk
      BY <1>1, <3>1 DEF WorkerOk, Pcs
    <3>3. made \in 0 .. MaxTimers /\ timed \subseteq Fd /\ stopped \in BOOLEAN
          /\ main \in {"free", "stop", "stopping", "joined"}
      <4>1. 0 \in 0 .. MaxTimers
        BY <1>5
      <4> QED
        BY <1>1, <4>1, Zenon
    <3>4. MainOk
      BY <1>1, <3>3, Zenon DEF MainOk
    <3> QED
      BY <3>2, <3>4
  <2>2. CallsOk
    <3> HIDE DEF NoCall
    <3> QED
      BY <1>2, <1>4 DEF CallsOk
  <2>3. Flags
    BY <1>1, <1>2 DEF Flags
  <2>4. UsedOk
    BY <1>2, <1>5 DEF UsedOk
  <2>5. waiting \in Waits
    BY <1>2 DEF Waits
  <2> QED
    BY <1>1, <1>3, <2>1, <2>2, <2>3, <2>4, <2>5, TypeParts
<1>7. ShapeInv /\ StopInv /\ TimerInv /\ PastCalls /\ OrderInv /\ OwnTimeout /\ IdleQueue
      /\ TickledPipe /\ NoMissedTimer
  BY <1>1, <1>3 DEF ShapeInv, StopInv, TimerInv, Distinct, PastCalls, OrderInv, OwnTimeout,
     IdleQueue, TickledPipe, NoMissedTimer
<1>8. StateInv
  <2> HIDE DEF NoCall
  <2> QED
    BY <1>1, <1>2, <1>4 DEF StateInv, Running
<1>9. Registrations = {} /\ \A c \in Coroutine : RegistrationsOf(c) = {}
  <2>1. \A p \in Fd \X event : waiting[p[1]][p[2]] = Nil
    BY <1>2
  <2>2. Nil \notin Coroutine
    BY CoroutinesAssumption
  <2> QED
    BY <2>1, <2>2 DEF Registrations, RegistrationsOf
<1>10. PendingCounted
  BY <1>1, <1>9, FS_EmptySet DEF PendingCounted
<1>11. OneWaker
  <2>1. \A c \in Coroutine : Queued(c) = 0 /\ Armed(c) = 0
    BY <1>1, CountEmpty DEF Queued, Armed
  <2>2. \A c \in Coroutine : Enrolled(c) = 0
    BY <1>9, FS_EmptySet DEF Enrolled
  <2>3. \A c \in Coroutine : Held(c) = 0 /\ Due(c) = 0
    BY <1>1, <1>2 DEF Held, Due
  <2> QED
    BY <2>1, <2>2, <2>3, Places
<1> QED
  BY <1>6, <1>7, <1>8, <1>10, <1>11 DEF IInv

LEMMA StepInv == IInv /\ Next => IInv'
<1> SUFFICES ASSUME IInv, Next PROVE IInv'
  OBVIOUS
<1>1. TypeOK' /\ ShapeInv' /\ StateInv' /\ StopInv' /\ TimerInv' /\ PastCalls'
  BY TypeStep, ShapeStep, StateStep, StopStep
<1>2. PendingCounted' /\ IdleQueue' /\ TickledPipe' /\ NoMissedTimer'
  BY EventsStep, IdleStep, TickleStep
<1>3. OneWaker'
  <2>1. \A c \in Coroutine : Queued(c)' + Armed(c)' + Enrolled(c)' + Held(c)' = Due(c)'
    BY WakersStep
  <2> QED
    BY <2>1 DEF OneWaker, Wakers, Queued, Armed, Enrolled, Held, Due
<1>4. OrderInv' /\ OwnTimeout'
  BY OrderStep DEF NextOrder, OrderInv, OwnTimeout, Live, StillLive, Resumes
<1> QED
  BY <1>1, <1>2, <1>3, <1>4 DEF IInv

LEMMA StutterInv == IInv /\ UNCHANGED vars => IInv'
<1> SUFFICES ASSUME IInv, UNCHANGED vars PROVE IInv'
  OBVIOUS
<1>1. /\ asWorker' = asWorker /\ timed' = timed /\ main' = main /\ made' = made /\ pc' = pc
      /\ cur' = cur /\ idleOver' = idleOver /\ seen' = seen /\ tasks' = tasks
      /\ active' = active /\ idle' = idle /\ stopped' = stopped /\ timers' = timers
      /\ tickled' = tickled /\ pipe' = pipe /\ waiting' = waiting /\ pending' = pending
      /\ ready' = ready /\ gone' = gone /\ open' = open /\ state' = state /\ wait' = wait
      /\ cancelled' = cancelled /\ used' = used
  BY DEF vars, fixed, workerVars, schedVars, timerVars, eventVars, netVars, coVars
<1>5. TypeOK'
  BY <1>1 DEF IInv, TypeOK, TaskType
<1>6. StateInv' /\ StopInv'
  BY <1>1 DEF IInv, StateInv, Running, StopInv, MainsTimers
<1>7. ShapeInv' /\ TimerInv'
  BY <1>1 DEF IInv, ShapeInv, WellFormed, TimerInv, Distinct
<1>3. PastCalls' /\ OneWaker' /\ PendingCounted' /\ OrderInv' /\ OwnTimeout'
  BY <1>1, Zenon DEF IInv, PastCalls, OneWaker, Wakers, Count, Resumes, RegistrationsOf,
     PendingCounted, Registrations, OrderInv, OwnTimeout, Live
<1>4. IdleQueue' /\ TickledPipe' /\ NoMissedTimer'
  BY <1>1, Zenon DEF IInv, IdleQueue, TickledPipe, NoMissedTimer
<1> QED
  BY <1>3, <1>4, <1>5, <1>6, <1>7 DEF IInv

\* Every reachable state of the library satisfies the inductive invariant.
THEOREM CoroutineInvariant == Spec => []IInv
<1>1. IInv /\ [Next]_vars => IInv'
  BY StepInv, StutterInv
<1> QED
  BY InitInv, <1>1, PTL DEF Spec

\* What a worker that has ended leaves behind: the idle coroutine ends only when nothing is
\* queued or registered and no timer was armed when it read them (ioman.cpp:451, :453), so
\* nothing is left that could resume a coroutine that has yielded.
LEMMA EndOfInv == IInv => EndIsDrained
<1> SUFFICES ASSUME IInv, pc = "end"
             PROVE  /\ tasks = <<>> /\ seen = Nil
                    /\ \A fd \in Fd : Registered(fd) = {}
                    /\ \A c \in Coroutine : state[c] \in {"none", "TERM"}
                    /\ MainsTimers
  BY DEF EndIsDrained, MainsTimers
<1>1. /\ tasks = <<>> /\ seen = Nil /\ MainsTimers /\ pending = 0
      /\ StateInv /\ OneWaker /\ PendingCounted /\ timers \in Seq(TaskType)
      /\ state \in [Coroutine -> {"none", "READY", "RUNNING", "TERM"}]
  BY DEF IInv, StopInv, TypeOK
<1>2. Registrations = {}
  <2>1. Registrations \in SUBSET (Fd \X event)
    BY DEF Registrations
  <2>2. IsFiniteSet(Registrations) /\ Cardinality(Registrations) = 0
    BY <1>1, <2>1, FinitePairs DEF PendingCounted
  <2> QED
    BY <2>2, FS_EmptySet
<1>3. \A fd \in Fd : Registered(fd) = {}
  <2> SUFFICES ASSUME NEW fd \in Fd, NEW e \in event, waiting[fd][e] # Nil
               PROVE  FALSE
    BY DEF Registered
  <2>1. <<fd, e>> \in Registrations
    BY DEF Registrations
  <2> QED
    BY <1>2, <2>1
<1>4. ASSUME NEW c \in Coroutine
      PROVE  state[c] \in {"none", "TERM"}
  <2>1. RegistrationsOf(c) = {}
    <3>1. RegistrationsOf(c) \subseteq Registrations
      BY CoroutinesAssumption DEF RegistrationsOf, Registrations
    <3> QED
      BY <1>2, <3>1
  <2>2. Enrolled(c) = 0
    BY <2>1, FS_EmptySet DEF Enrolled
  <2>3. Queued(c) = 0 /\ Armed(c) = 0
    <3>1. \A i \in DOMAIN timers : ~Resumes(timers[i], c)
      BY <1>1 DEF MainsTimers, Resumes
    <3> QED
      BY <1>1, <3>1, CountEmpty, CountNone DEF Queued, Armed
  <2>4. Held(c) = 0
    BY DEF Held
  <2>5. Due(c) = 0
    BY <1>1, <2>2, <2>3, <2>4, Places
  <2>6. state[c] # "READY" /\ state[c] # "RUNNING"
    BY <1>1, <2>5 DEF Due, StateInv, Running
  <2> QED
    BY <1>1, <2>6
<1> QED
  BY <1>1, <1>3, <1>4

\* The variables keep their types and the counters of active and idle threads stay within the
\* one worker (scheduler.cpp, ioman.cpp).
THEOREM TypeIsOK == Spec => []TypeOK
<1>1. IInv => TypeOK
  BY DEF IInv
<1> QED
  BY CoroutineInvariant, <1>1, PTL

\* A coroutine that has yielded is resumed by exactly one place, and one that runs or has
\* ended by none: resume() never finds it in another state than READY (coroutine.cpp:87,
\* :325), and no wake-up is lost between the queue, the timers and the events.
THEOREM OneWakerHolds == Spec => []OneWaker
<1>1. IInv => OneWaker
  BY DEF IInv
<1> QED
  BY CoroutineInvariant, <1>1, PTL

\* _M_pendingCountor is the number of registered events after every addEvent, cancelEvent,
\* cancelAll and pass of the worker (ioman.cpp:128, :184, :226, :266, :417).
THEOREM PendingIsCounted == Spec => []PendingCounted
<1>1. IInv => PendingCounted
  BY DEF IInv
<1> QED
  BY CoroutineInvariant, <1>1, PTL

\* The worker never sleeps past a new front timer without a byte in the pipe, although the
\* byte is only written for the first of several (timer.cpp:140).
THEOREM NoTimerIsMissed == Spec => []NoMissedTimer
<1>1. IInv => NoMissedTimer
  BY DEF IInv
<1> QED
  BY CoroutineInvariant, <1>1, PTL

\* The callback of a time-out that is still live cancels the wait it was armed for: its
\* coroutine has armed no other (ioman.cpp:351, :367).
THEOREM TimeoutsAreOwn == Spec => []OwnTimeout
<1>1. IInv => OwnTimeout
  BY DEF IInv
<1> QED
  BY CoroutineInvariant, <1>1, PTL

\* A worker that has ended has run every coroutine to its end and left nothing registered;
\* the only thing it may leave is a timer main has added between its last look at the timers
\* and stop(), and nothing at all where main is the worker (ioman.cpp:451, :453).
THEOREM EndLeavesNoCoroutine == Spec => []EndIsDrained
BY CoroutineInvariant, EndOfInv, PTL
=============================================================================
