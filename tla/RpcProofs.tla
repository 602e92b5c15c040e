------------------------------ MODULE RpcProofs ------------------------------
(***************************************************************************)
(* Proof that the peer runs no call twice, for every number of callers,    *)
(* threads and crashes and every sharing of the channels.                  *)
(***************************************************************************)
EXTENDS RpcProperties, TLAPS, SequenceTheorems

-----------------------------------------------------------------------------
\* Sequences with elements of no particular type.

LEMMA SeqIsSeq ==
  ASSUME NEW S, NEW s \in Seq(S)
  PROVE  IsSeq(s)
<1>1. /\ Len(s) \in Nat /\ DOMAIN s = 1 .. Len(s) /\ s \in [1 .. Len(s) -> S]
  BY LenProperties
<1>2. \A n \in 1 .. Len(s) : s[n] \in Range(s)
  BY <1>1 DEF Range
<1>3. s \in [1 .. Len(s) -> Range(s)]
  BY <1>1, <1>2
<1> QED
  BY <1>1, <1>3, SeqDef DEF IsSeq

LEMMA IsSeqFacts ==
  ASSUME NEW s, IsSeq(s)
  PROVE  /\ Len(s) \in Nat /\ DOMAIN s = 1 .. Len(s)
         /\ \A n \in DOMAIN s : s[n] \in Range(s)
BY LenProperties DEF IsSeq, Range

LEMMA EmptyIsSeq == IsSeq(<<>>) /\ DOMAIN (<<>>) = {}
<1>1. <<>> \in Seq({}) /\ Len(<<>>) = 0
  BY EmptySeq
<1>2. IsSeq(<<>>)
  BY <1>1, SeqIsSeq
<1> QED
  BY <1>1, <1>2, IsSeqFacts

LEMMA AppendFacts ==
  ASSUME NEW s, IsSeq(s), NEW x
  PROVE  /\ IsSeq(Append(s, x))
         /\ DOMAIN Append(s, x) = 1 .. Len(s) + 1
         /\ \A n \in 1 .. Len(s) : Append(s, x)[n] = s[n]
         /\ Append(s, x)[Len(s) + 1] = x
<1> DEFINE T == Range(s) \cup {x}
<1>1. s \in Seq(T) /\ x \in T
  BY SeqMonotonic DEF IsSeq
<1> HIDE DEF T
<1>2. /\ Append(s, x) \in Seq(T) /\ Len(Append(s, x)) = Len(s) + 1
      /\ \A n \in 1 .. Len(s) : Append(s, x)[n] = s[n]
      /\ Append(s, x)[Len(s) + 1] = x
  BY <1>1, AppendProperties
<1>3. IsSeq(Append(s, x)) /\ DOMAIN Append(s, x) = 1 .. Len(Append(s, x))
  BY <1>2, SeqIsSeq, IsSeqFacts
<1> QED
  BY <1>2, <1>3

\* What is left of s behind its first m elements.
LEMMA RestFacts ==
  ASSUME NEW s, IsSeq(s), NEW m \in 1 .. Len(s)
  PROVE  /\ IsSeq(SubSeq(s, m + 1, Len(s)))
         /\ DOMAIN SubSeq(s, m + 1, Len(s)) = 1 .. Len(s) - m
         /\ \A n \in 1 .. Len(s) - m : SubSeq(s, m + 1, Len(s))[n] = s[n + m]
<1> DEFINE r == SubSeq(s, m + 1, Len(s))
<1>1. Len(s) \in Nat /\ m \in Nat /\ m <= Len(s) /\ m >= 1
  BY IsSeqFacts
<1>2. \A n \in m + 1 .. Len(s) : s[n] \in Range(s)
  <2>1. \A n \in m + 1 .. Len(s) : n \in 1 .. Len(s)
    BY <1>1
  <2> QED
    BY <2>1, IsSeqFacts
<1>3. /\ r \in Seq(Range(s))
      /\ Len(r) = IF m + 1 <= Len(s) THEN Len(s) - (m + 1) + 1 ELSE 0
      /\ \A n \in 1 .. Len(s) - (m + 1) + 1 : r[n] = s[m + 1 + n - 1]
  <2> DEFINE S == Range(s)
             a == m + 1
             b == Len(s)
  <2>1. a \in Int /\ b \in Int /\ \A n \in a .. b : s[n] \in S
    BY <1>1, <1>2
  <2> HIDE DEF S, a, b
  <2>2. /\ SubSeq(s, a, b) \in Seq(S)
        /\ Len(SubSeq(s, a, b)) = IF a <= b THEN b - a + 1 ELSE 0
        /\ \A n \in 1 .. b - a + 1 : SubSeq(s, a, b)[n] = s[a + n - 1]
    BY <2>1, SubSeqProperties
  <2> QED
    BY <2>2 DEF S, a, b
<1> HIDE DEF r
<1>4. Len(r) = Len(s) - m
  BY <1>1, <1>3
<1>5. \A n \in 1 .. Len(s) - m : r[n] = s[n + m]
  <2>1. ASSUME NEW n \in 1 .. Len(s) - m PROVE r[n] = s[n + m]
    <3>1. n \in 1 .. Len(s) - (m + 1) + 1 /\ m + 1 + n - 1 = n + m
      BY <1>1
    <3> QED
      BY <1>3, <3>1
  <2> QED
    BY <2>1
<1>6. IsSeq(r) /\ DOMAIN r = 1 .. Len(r)
  BY <1>3, SeqIsSeq, IsSeqFacts
<1> QED
  BY <1>4, <1>5, <1>6 DEF r

LEMMA TailFacts ==
  ASSUME NEW s, IsSeq(s), s # <<>>
  PROVE  /\ 1 \in DOMAIN s /\ Head(s) = s[1]
         /\ IsSeq(Tail(s)) /\ DOMAIN Tail(s) = 1 .. Len(s) - 1
         /\ \A n \in 1 .. Len(s) - 1 : Tail(s)[n] = s[n + 1]
<1>1. /\ Tail(s) \in Seq(Range(s)) /\ Len(Tail(s)) = Len(s) - 1
      /\ \A n \in 1 .. Len(Tail(s)) : Tail(s)[n] = s[n + 1]
  BY HeadTailProperties DEF IsSeq
<1>2. Len(s) \in Nat \ {0} /\ DOMAIN s = 1 .. Len(s)
  BY EmptySeq, IsSeqFacts DEF IsSeq
<1>3. IsSeq(Tail(s)) /\ DOMAIN Tail(s) = 1 .. Len(Tail(s))
  BY <1>1, SeqIsSeq, IsSeqFacts
<1> QED
  BY <1>1, <1>2, <1>3

-----------------------------------------------------------------------------
\* The places of a request, one kind at a time.

OnConnection(p, c) ==
  \E k \in Conn : \E n \in DOMAIN requests[k] :
    p = <<"request", k, n>> /\ requests[k][n].of = c
InIoThread(p, c) ==
  \E i \in IoThread : p = <<"busy", i, 0>> /\ Unrun(busy[i]) /\ busy[i].of = c
InPool(p, c) ==
  \E n \in DOMAIN tasks : p = <<"task", 0, n>> /\ tasks[n].of = c
InWorker(p, c) ==
  \E w \in Worker :
    p = <<"working", w, 0>> /\ Unrun(working[w]) /\ working[w].of = c

LEMMA InPlaces ==
  ASSUME NEW p, NEW c
  PROVE  p \in Places(c) <=> \/ OnConnection(p, c) \/ InIoThread(p, c)
                             \/ InPool(p, c) \/ InWorker(p, c)
<1> DEFINE connections ==
             UNION {{<<"request", k, n>> :
                       n \in {m \in DOMAIN requests[k] : requests[k][m].of = c}} :
                    k \in Conn}
           ios == {<<"busy", i, 0>> :
                     i \in {j \in IoThread : Unrun(busy[j]) /\ busy[j].of = c}}
           pool == {<<"task", 0, n>> : n \in {m \in DOMAIN tasks : tasks[m].of = c}}
           workers == {<<"working", w, 0>> :
                         w \in {v \in Worker : Unrun(working[v]) /\ working[v].of = c}}
<1>1. p \in connections <=> OnConnection(p, c)
  BY DEF OnConnection
<1>2. p \in ios <=> InIoThread(p, c)
  BY DEF InIoThread
<1>3. p \in pool <=> InPool(p, c)
  BY DEF InPool
<1>4. p \in workers <=> InWorker(p, c)
  BY DEF InWorker
<1>5. Places(c) = connections \cup ios \cup pool \cup workers
  BY DEF Places
<1> HIDE DEF connections, ios, pool, workers
<1> QED
  BY <1>1, <1>2, <1>3, <1>4, <1>5

LEMMA InPlacesNext ==
  ASSUME NEW p, NEW c
  PROVE  (p \in Places(c) <=> \/ OnConnection(p, c) \/ InIoThread(p, c)
                              \/ InPool(p, c) \/ InWorker(p, c))'
<1>1. p \in Places(c) <=> \/ OnConnection(p, c) \/ InIoThread(p, c)
                          \/ InPool(p, c) \/ InWorker(p, c)
  BY InPlaces
<1> QED
  BY <1>1, PTL

LEMMA CallFacts ==
  ASSUME NEW c \in Call
  PROVE  c[1] \in Caller /\ c[2] \in Nat \ {0} /\ c = <<c[1], c[2]>>
BY RpcAssumption DEF Call

LEMMA SentOnceDef ==
  ASSUME NEW c
  PROVE  SentOnce(c) <=> /\ \A p, q \in Places(c) : p = q
                         /\ Places(c) # {} => Sent(c) /\ ran[c] = 0
                         /\ ran[c] # 0 => Sent(c)
BY DEF SentOnce

-----------------------------------------------------------------------------
\* Steps that bring no request anywhere.

handling == <<requests, busy, tasks, working, ran>>

LEMMA PlacesFrame ==
  ASSUME NEW c, UNCHANGED <<requests, busy, tasks, working>>
  PROVE  Places(c)' = Places(c)
BY DEF Places, Unrun

LEMMA TypesFrame ==
  ASSUME RequestsTypes, UNCHANGED <<handling, io>>,
         pc' \in [Caller -> {"idle", "socket", "connect", "send", "recv", "wait"}],
         calls' \in [Caller -> Nat]
  PROVE  RequestsTypes'
BY DEF RequestsTypes, handling, Unrun

LEMMA OnceFrame ==
  ASSUME NEW c, SentOnce(c), UNCHANGED handling, Sent(c) => Sent(c)'
  PROVE  SentOnce(c)'
<1>1. Places(c)' = Places(c) /\ ran' = ran
  BY PlacesFrame DEF handling
<1> QED
  BY <1>1, SentOnceDef DEF SentOnce

LEMMA InitRequests == Init => RequestsInv
<1> SUFFICES ASSUME Init PROVE RequestsInv
  OBVIOUS
<1>1. /\ requests = [k \in Conn |-> <<>>] /\ busy = [i \in IoThread |-> Nil]
      /\ tasks = <<>> /\ working = [w \in Worker |-> Nil] /\ ran = [c \in Call |-> 0]
      /\ pc = [t \in Caller |-> "idle"] /\ calls = [t \in Caller |-> 0]
      /\ io \in [Conn -> IoThread]
  BY DEF Init
<1>2. RequestsTypes
  BY <1>1, EmptyIsSeq DEF RequestsTypes, Unrun, Range
<1>3. \A c : Places(c) = {}
  BY <1>1, EmptyIsSeq, InPlaces DEF OnConnection, InIoThread, InPool, InWorker, Unrun
<1>4. \A c \in Call : SentOnce(c)
  BY <1>1, <1>3, SentOnceDef
<1> QED
  BY <1>2, <1>4 DEF RequestsInv

\* Where a caller goes: pc and calls keep their types and nobody takes a sent call back.
LEMMA CallerGoesOn ==
  ASSUME RequestsTypes, NEW t \in Caller, Begin(t) \/ CallerStep(t)
  PROVE  /\ pc' \in [Caller -> {"idle", "socket", "connect", "send", "recv", "wait"}]
         /\ calls' \in [Caller -> Nat]
         /\ \A c \in Call : Sent(c) => Sent(c)'
         /\ UNCHANGED peer
         /\ UNCHANGED requests \/ Send(t)
<1> DEFINE States == {"idle", "socket", "connect", "send", "recv", "wait"}
<1> USE CallFacts DEF RequestsTypes
<1>1. CASE Begin(t)
  <2>1. /\ pc[t] = "idle" /\ calls' = [calls EXCEPT ![t] = calls[t] + 1]
        /\ \E s \in {"socket", "send"} : pc' = [pc EXCEPT ![t] = s]
        /\ UNCHANGED <<requests, peer>>
    BY <1>1 DEF Begin, net
  <2>2. pc' \in [Caller -> States] /\ calls' \in [Caller -> Nat]
    BY <2>1
  <2>3. ASSUME NEW c \in Call, Sent(c) PROVE Sent(c)'
    BY <2>1, <2>3 DEF Sent
  <2> QED
    BY <2>1, <2>2, <2>3
<1>2. ASSUME NEW s \in States, pc' = [pc EXCEPT ![t] = s], UNCHANGED calls,
             pc[t] \in {"socket", "connect", "send"} \/ s \in {"idle", "recv", "wait"}
      PROVE  /\ pc' \in [Caller -> States] /\ calls' \in [Caller -> Nat]
             /\ \A c \in Call : Sent(c) => Sent(c)'
  <2>1. ASSUME NEW c \in Call, Sent(c) PROVE Sent(c)'
    BY <1>2, <2>1 DEF Sent
  <2> QED
    BY <1>2, <2>1
<1>3. ASSUME CallerStep(t)
      PROVE  /\ \E s \in States :
                  /\ pc' = [pc EXCEPT ![t] = s]
                  /\ pc[t] \in {"socket", "connect", "send"}
                       \/ s \in {"idle", "recv", "wait"}
             /\ UNCHANGED <<calls, peer>>
             /\ UNCHANGED requests \/ Send(t)
  <2>1. CASE OpenSocket(t)
    BY <2>1 DEF OpenSocket
  <2>2. CASE Connect(t)
    BY <2>2 DEF Connect, Fail, Return
  <2>3. CASE Send(t)
    BY <2>3 DEF Send
  <2>4. CASE SendFails(t)
    BY <2>4 DEF SendFails
  <2>5. CASE CallRecv(t)
    BY <2>5 DEF CallRecv, net
  <2>6. CASE Receive(t)
    BY <2>6 DEF Receive, Return
  <2>7. CASE ReceiveEof(t)
    BY <2>7 DEF ReceiveEof, Return, net
  <2>8. CASE ReceiveFails(t)
    BY <2>8 DEF ReceiveFails, Fail, Return
  <2> QED
    BY <1>3, <2>1, <2>2, <2>3, <2>4, <2>5, <2>6, <2>7, <2>8 DEF CallerStep
<1>4. CASE CallerStep(t)
  <2>1. PICK s \in States :
          /\ pc' = [pc EXCEPT ![t] = s]
          /\ pc[t] \in {"socket", "connect", "send"} \/ s \in {"idle", "recv", "wait"}
    BY <1>3, <1>4
  <2>2. UNCHANGED <<calls, peer>> /\ (UNCHANGED requests \/ Send(t))
    BY <1>3, <1>4
  <2> QED
    BY <1>2, <2>1, <2>2
<1> QED
  BY <1>1, <1>4

-----------------------------------------------------------------------------
\* How a step may change the places of one call.

LEMMA FewerPlaces ==
  ASSUME NEW c, SentOnce(c), Places(c)' \subseteq Places(c), ran'[c] = ran[c],
         Sent(c) => Sent(c)'
  PROVE  SentOnce(c)'
BY DEF SentOnce

LEMMA FirstPlace ==
  ASSUME NEW c, SentOnce(c), ~ Sent(c), Sent(c)', ran'[c] = ran[c],
         NEW p, Places(c)' \subseteq {p}
  PROVE  SentOnce(c)'
BY DEF SentOnce

LEMMA LastPlace ==
  ASSUME NEW c, Sent(c)', Places(c)' = {}
  PROVE  SentOnce(c)'
BY DEF SentOnce

-----------------------------------------------------------------------------
\* send: the request of a call that was not sent is on the connection.

LEMMA SendTypes ==
  ASSUME RequestsTypes, NEW t \in Caller, Send(t)
  PROVE  RequestsTypes'
<1> DEFINE k == Fd(t)
<1>1. /\ pc' \in [Caller -> {"idle", "socket", "connect", "send", "recv", "wait"}]
      /\ UNCHANGED <<calls, io, busy, tasks, working, ran>>
  BY CallerGoesOn DEF CallerStep, Send, peer
<1>2. \/ UNCHANGED requests
      \/ requests' = [requests EXCEPT ![k] = Append(requests[k], Request(t))]
  BY DEF Send
<1> HIDE DEF k
<1>3. /\ requests' \in [Conn -> {requests'[h] : h \in Conn}]
      /\ \A h \in Conn : IsSeq(requests'[h])
  <2>1. requests \in [Conn -> {requests[h] : h \in Conn}] /\ \A h \in Conn : IsSeq(requests[h])
    BY DEF RequestsTypes
  <2>2. CASE UNCHANGED requests
    BY <2>1, <2>2
  <2>3. CASE requests' = [requests EXCEPT ![k] = Append(requests[k], Request(t))]
    <3>1. requests' \in [Conn -> {requests'[h] : h \in Conn}]
      BY <2>1, <2>3
    <3>2. ASSUME NEW h \in Conn PROVE IsSeq(requests'[h])
      <4>1. requests'[h] \in {requests[h], Append(requests[h], Request(t))}
        BY <2>1, <2>3
      <4>2. IsSeq(requests[h]) /\ IsSeq(Append(requests[h], Request(t)))
        BY <2>1, AppendFacts
      <4> QED
        BY <4>1, <4>2
    <3> QED
      BY <3>1, <3>2
  <2> QED
    BY <1>2, <2>2, <2>3
<1> QED
  BY <1>1, <1>3 DEF RequestsTypes, Unrun

LEMMA SendPlaces ==
  ASSUME RequestsTypes, NEW t \in Caller, Send(t), NEW c \in Call
  PROVE  Places(c)' \subseteq
           Places(c) \cup (IF c = <<t, calls[t]>>
                           THEN {<<"request", Fd(t), Len(requests[Fd(t)]) + 1>>} ELSE {})
<1> DEFINE k == Fd(t)
<1>1. /\ UNCHANGED <<busy, tasks, working>>
      /\ \/ UNCHANGED requests
         \/ requests' = [requests EXCEPT ![k] = Append(requests[k], Request(t))]
  BY DEF Send, peer
<1>2. Request(t).of = <<t, calls[t]>>
  BY DEF Request
<1> HIDE DEF k
<1> SUFFICES ASSUME NEW p \in Places(c)', p \notin Places(c)
             PROVE  c = <<t, calls[t]>> /\ p = <<"request", k, Len(requests[k]) + 1>>
  BY DEF k
<1>3. OnConnection(p, c)'
  <2>1. \/ OnConnection(p, c)' \/ InIoThread(p, c)' \/ InPool(p, c)' \/ InWorker(p, c)'
    BY InPlacesNext
  <2>2. ~ InIoThread(p, c) /\ ~ InPool(p, c) /\ ~ InWorker(p, c)
    BY InPlaces
  <2> QED
    BY <1>1, <2>1, <2>2 DEF InIoThread, InPool, InWorker, Unrun
<1>4. PICK h \in Conn : \E n \in DOMAIN requests'[h] :
        p = <<"request", h, n>> /\ requests'[h][n].of = c
  BY <1>3 DEF OnConnection
<1>5. PICK n \in DOMAIN requests'[h] : p = <<"request", h, n>> /\ requests'[h][n].of = c
  BY <1>4
<1>6. ~ (n \in DOMAIN requests[h] /\ requests[h][n].of = c)
  BY <1>5, InPlaces DEF OnConnection
<1>7. h = k /\ requests'[h] = Append(requests[k], Request(t))
  BY <1>1, <1>5, <1>6 DEF RequestsTypes
<1>8. IsSeq(requests[k])
  BY <1>7 DEF RequestsTypes
<1>9. n = Len(requests[k]) + 1
  <2>1. /\ n \in 1 .. Len(requests[k]) + 1 /\ Len(requests[k]) \in Nat
        /\ DOMAIN requests[k] = 1 .. Len(requests[k])
        /\ \A m \in 1 .. Len(requests[k]) : Append(requests[k], Request(t))[m] = requests[k][m]
    BY <1>5, <1>7, <1>8, AppendFacts, IsSeqFacts
  <2> QED
    BY <1>5, <1>6, <1>7, <2>1
<1>10. requests'[h][n] = Request(t)
  BY <1>7, <1>8, <1>9, AppendFacts
<1>11. c = <<t, calls[t]>>
  BY <1>2, <1>5, <1>10
<1> QED
  BY <1>5, <1>7, <1>9, <1>11

LEMMA SendKeeps ==
  ASSUME RequestsInv, NEW t \in Caller, Send(t)
  PROVE  RequestsInv'
<1>1. RequestsTypes' /\ RequestsTypes
  BY SendTypes DEF RequestsInv
<1>2. ASSUME NEW c \in Call PROVE SentOnce(c)'
  <2>1. SentOnce(c) /\ ran' = ran /\ (Sent(c) => Sent(c)')
    BY CallerGoesOn, <1>1 DEF RequestsInv, CallerStep, Send, peer
  <2>2. CASE c = <<t, calls[t]>>
    <3>1. /\ pc[t] = "send" /\ pc' = [pc EXCEPT ![t] = "recv"] /\ calls' = calls
          /\ pc \in [Caller -> {"idle", "socket", "connect", "send", "recv", "wait"}]
          /\ calls[t] \in Nat
      BY <1>1 DEF Send, RequestsTypes
    <3>2. ~ Sent(c) /\ Sent(c)'
      BY <2>2, <3>1 DEF Sent
    <3>3. Places(c) = {}
      BY <2>1, <3>2, SentOnceDef
    <3>4. Places(c)' \subseteq {<<"request", Fd(t), Len(requests[Fd(t)]) + 1>>}
      BY <1>1, <2>2, <3>3, SendPlaces
    <3> QED
      BY <2>1, <3>2, <3>4, FirstPlace
  <2>3. CASE c # <<t, calls[t]>>
    <3>1. Places(c)' \subseteq Places(c)
      BY <1>1, <2>3, SendPlaces
    <3> QED
      BY <2>1, <3>1, FewerPlaces
  <2> QED
    BY <2>2, <2>3
<1> QED
  BY <1>1, <1>2 DEF RequestsInv

-----------------------------------------------------------------------------
\* The peer takes what a connection holds; the first request goes to a thread.

LEMMA PeerFrame ==
  ASSUME NEW c, UNCHANGED client
  PROVE  Sent(c)' = Sent(c)
BY DEF Sent, client

LEMMA OnMessageTakes ==
  ASSUME RequestsTypes, NEW k \in Conn, OnMessage(k)
  PROVE  /\ \E m \in 1 .. Len(requests[k]) :
              requests' = [requests EXCEPT ![k] = SubSeq(requests[k], m + 1, Len(requests[k]))]
         /\ \E method :
              LET job == [conn |-> k, method |-> method, of |-> requests[k][1].of,
                          reply |-> Nil]
              IN  \/ tasks' = Append(tasks, job) /\ UNCHANGED busy
                  \/ busy' = [busy EXCEPT ![io[k]] = job] /\ UNCHANGED tasks
         /\ busy[io[k]] = Nil
         /\ UNCHANGED <<client, io, working, ran>>
<1>1. PICK m \in 1 .. Len(requests[k]) :
        requests' = [requests EXCEPT ![k] = SubSeq(requests[k], m + 1, Len(requests[k]))]
  BY DEF OnMessage
<1>2. IsSeq(requests[k])
  BY DEF RequestsTypes
<1>3. Head(requests[k]) = requests[k][1]
  <2>1. requests[k] # <<>>
    BY <1>1, EmptyIsSeq, EmptySeq
  <2> QED
    BY <1>2, <2>1, TailFacts
<1>4. \E method :
        LET job == [conn |-> k, method |-> method, of |-> Head(requests[k]).of,
                    reply |-> Nil]
        IN  \/ tasks' = Append(tasks, job) /\ UNCHANGED busy
            \/ busy' = [busy EXCEPT ![io[k]] = job] /\ UNCHANGED tasks
  <2> DEFINE r == Head(requests[k])
             method == ParseFlat(RpcHeaderFields, r.header).method_name
             job == [conn |-> k, method |-> method, of |-> r.of, reply |-> Nil]
  <2>1. \/ tasks' = Append(tasks, job) /\ UNCHANGED busy
        \/ busy' = [busy EXCEPT ![io[k]] = job] /\ UNCHANGED tasks
    BY Zenon DEF OnMessage
  <2> QED
    BY <2>1, Zenon
<1>5. busy[io[k]] = Nil /\ UNCHANGED <<client, io, working, ran>>
  BY DEF OnMessage
<1> QED
  BY <1>1, <1>3, <1>4, <1>5, Zenon

LEMMA OnMessageTypes ==
  ASSUME RequestsTypes, NEW k \in Conn, OnMessage(k)
  PROVE  RequestsTypes'
<1>1. PICK m \in 1 .. Len(requests[k]) :
        requests' = [requests EXCEPT ![k] = SubSeq(requests[k], m + 1, Len(requests[k]))]
  BY OnMessageTakes
<1>2. PICK method :
        LET job == [conn |-> k, method |-> method, of |-> requests[k][1].of, reply |-> Nil]
        IN  \/ tasks' = Append(tasks, job) /\ UNCHANGED busy
            \/ busy' = [busy EXCEPT ![io[k]] = job] /\ UNCHANGED tasks
  BY OnMessageTakes
<1> DEFINE job == [conn |-> k, method |-> method, of |-> requests[k][1].of, reply |-> Nil]
<1>3. UNCHANGED <<pc, calls, io, working, ran>>
  BY OnMessageTakes DEF client
<1>4. IsWhole(job)
  BY DEF IsWhole
<1>5. \/ tasks' = Append(tasks, job) /\ UNCHANGED busy
      \/ busy' = [busy EXCEPT ![io[k]] = job] /\ UNCHANGED tasks
  BY <1>2
<1> HIDE DEF job
<1>6. /\ requests' \in [Conn -> {requests'[h] : h \in Conn}]
      /\ \A h \in Conn : IsSeq(requests'[h])
  <2>1. requests \in [Conn -> {requests[h] : h \in Conn}] /\ \A h \in Conn : IsSeq(requests[h])
    BY DEF RequestsTypes
  <2>2. requests' \in [Conn -> {requests'[h] : h \in Conn}]
    BY <1>1, <2>1
  <2>3. IsSeq(SubSeq(requests[k], m + 1, Len(requests[k])))
    BY <2>1, RestFacts
  <2>4. \A h \in Conn : requests'[h] = IF h = k THEN SubSeq(requests[k], m + 1, Len(requests[k]))
                                                ELSE requests[h]
    BY <1>1, <2>1
  <2> QED
    BY <2>1, <2>2, <2>3, <2>4
<1>7. IsSeq(tasks') /\ \A j \in Range(tasks') : IsWhole(j)
  <2>1. IsSeq(tasks) /\ \A j \in Range(tasks) : IsWhole(j)
    BY DEF RequestsTypes
  <2>2. CASE tasks' = Append(tasks, job)
    <3>1. /\ IsSeq(tasks') /\ DOMAIN tasks' = 1 .. Len(tasks) + 1 /\ Len(tasks) \in Nat
          /\ \A n \in 1 .. Len(tasks) : tasks'[n] = tasks[n] /\ tasks[n] \in Range(tasks)
          /\ tasks'[Len(tasks) + 1] = job
      BY <2>1, <2>2, AppendFacts, IsSeqFacts
    <3>2. \A n \in DOMAIN tasks' : IsWhole(tasks'[n])
      <4>1. ASSUME NEW n \in DOMAIN tasks' PROVE IsWhole(tasks'[n])
        <5>1. n \in 1 .. Len(tasks) \/ n = Len(tasks) + 1
          BY <3>1
        <5> QED
          BY <1>4, <2>1, <3>1, <5>1
      <4> QED
        BY <4>1
    <3> QED
      BY <3>1, <3>2 DEF Range
  <2> QED
    BY <1>5, <2>1, <2>2
<1>8. /\ busy' \in [IoThread -> {busy'[i] : i \in IoThread}]
      /\ \A i \in IoThread : Unrun(busy'[i]) => IsWhole(busy'[i])
  <2>1. /\ busy \in [IoThread -> {busy[i] : i \in IoThread}]
        /\ \A i \in IoThread : Unrun(busy[i]) => IsWhole(busy[i])
    BY DEF RequestsTypes
  <2> QED
    BY <1>4, <1>5, <2>1
<1> QED
  BY <1>3, <1>6, <1>7, <1>8 DEF RequestsTypes, Unrun, IsWhole

\* The place that a request at p had before m requests were read from connection k and
\* the first of them went to new.
CameFrom(p, q, k, m, new) ==
  \/ p = new /\ q = <<"request", k, 1>>
  \/ \E n \in Nat \ {0} : p = <<"request", k, n>> /\ q = <<"request", k, n + m>>
  \/ p # new /\ ~ (p[1] = "request" /\ p[2] = k) /\ q = p

LEMMA CameFromOne ==
  ASSUME NEW k, NEW m \in Nat \ {0}, NEW new, new[1] # "request",
         NEW p, NEW o, NEW q, CameFrom(p, q, k, m, new), CameFrom(o, q, k, m, new)
  PROVE  p = o
<1>1. CASE p = new /\ q = <<"request", k, 1>>
  BY <1>1 DEF CameFrom
<1>2. CASE \E n \in Nat \ {0} : p = <<"request", k, n>> /\ q = <<"request", k, n + m>>
  <2>1. PICK n \in Nat \ {0} : p = <<"request", k, n>> /\ q = <<"request", k, n + m>>
    BY <1>2
  <2>2. \E j \in Nat \ {0} : o = <<"request", k, j>> /\ q = <<"request", k, j + m>>
    BY <2>1 DEF CameFrom
  <2> QED
    BY <2>1, <2>2
<1>3. CASE p # new /\ ~ (p[1] = "request" /\ p[2] = k) /\ q = p
  BY <1>3 DEF CameFrom
<1> QED
  BY <1>1, <1>2, <1>3 DEF CameFrom

LEMMA OnMessageMoves ==
  ASSUME RequestsTypes, NEW k \in Conn, OnMessage(k), NEW c
  PROVE  \E new : \E m \in Nat \ {0} :
           /\ new[1] # "request"
           /\ \A p \in Places(c)' : \E q \in Places(c) : CameFrom(p, q, k, m, new)
<1>1. PICK m \in 1 .. Len(requests[k]) :
        requests' = [requests EXCEPT ![k] = SubSeq(requests[k], m + 1, Len(requests[k]))]
  BY OnMessageTakes
<1>2. PICK method :
        LET job == [conn |-> k, method |-> method, of |-> requests[k][1].of, reply |-> Nil]
        IN  \/ tasks' = Append(tasks, job) /\ UNCHANGED busy
            \/ busy' = [busy EXCEPT ![io[k]] = job] /\ UNCHANGED tasks
  BY OnMessageTakes
<1> DEFINE job == [conn |-> k, method |-> method, of |-> requests[k][1].of, reply |-> Nil]
           new == IF busy' = busy THEN <<"task", 0, Len(tasks) + 1>> ELSE <<"busy", io[k], 0>>
<1>3. UNCHANGED working
  BY OnMessageTakes
<1>4. job.of = requests[k][1].of
  OBVIOUS
<1>5. \/ tasks' = Append(tasks, job) /\ busy' = busy
      \/ busy' = [busy EXCEPT ![io[k]] = job] /\ tasks' = tasks
  BY <1>2
<1> HIDE DEF job
<1>6. new[1] # "request" /\ new \in {<<"task", 0, Len(tasks) + 1>>, <<"busy", io[k], 0>>}
  OBVIOUS
<1>7. /\ IsSeq(requests[k]) /\ Len(requests[k]) \in Nat /\ m \in Nat \ {0} /\ m <= Len(requests[k])
      /\ DOMAIN requests[k] = 1 .. Len(requests[k])
  <2>1. IsSeq(requests[k])
    BY DEF RequestsTypes
  <2> QED
    BY <2>1, IsSeqFacts
<1>8. ASSUME NEW p \in Places(c)' PROVE \E q \in Places(c) : CameFrom(p, q, k, m, new)
  <2>1. CASE OnConnection(p, c)'
    <3>1. PICK h \in Conn : \E n \in DOMAIN requests'[h] :
            p = <<"request", h, n>> /\ requests'[h][n].of = c
      BY <2>1 DEF OnConnection
    <3>2. PICK n \in DOMAIN requests'[h] : p = <<"request", h, n>> /\ requests'[h][n].of = c
      BY <3>1
    <3>3. CASE h = k
      <4>1. requests'[h] = SubSeq(requests[k], m + 1, Len(requests[k]))
        BY <1>1, <3>3 DEF RequestsTypes
      <4>2. n \in 1 .. Len(requests[k]) - m /\ requests[k][n + m].of = c
        BY <1>7, <3>2, <4>1, RestFacts
      <4>3. n \in Nat \ {0} /\ n + m \in DOMAIN requests[k]
        BY <1>7, <4>2
      <4>4. OnConnection(<<"request", k, n + m>>, c)
        BY <4>2, <4>3 DEF OnConnection
      <4>5. CameFrom(p, <<"request", k, n + m>>, k, m, new)
        BY <3>2, <3>3, <4>3, Zenon DEF CameFrom
      <4> QED
        BY <4>4, <4>5, InPlaces
    <3>4. CASE h # k
      <4>1. requests'[h] = requests[h]
        BY <1>1, <3>4 DEF RequestsTypes
      <4>2. OnConnection(p, c)
        BY <3>2, <4>1 DEF OnConnection
      <4>3. p # new /\ ~ (p[1] = "request" /\ p[2] = k)
        BY <1>6, <3>2, <3>4
      <4>4. CameFrom(p, p, k, m, new)
        BY <4>3, Zenon DEF CameFrom
      <4> QED
        BY <4>2, <4>4, InPlaces
    <3> QED
      BY <3>3, <3>4
  <2>2. CASE p = new /\ requests[k][1].of = c
    <3>1. OnConnection(<<"request", k, 1>>, c)
      BY <1>7, <2>2 DEF OnConnection
    <3>2. CameFrom(p, <<"request", k, 1>>, k, m, new)
      BY <2>2, Zenon DEF CameFrom
    <3> QED
      BY <3>1, <3>2, InPlaces
  <2>3. CASE p # new /\ p[1] # "request" /\ p \in Places(c)
    <3>1. CameFrom(p, p, k, m, new)
      BY <2>3, Zenon DEF CameFrom
    <3> QED
      BY <2>3, <3>1
  <2>4. CASE InIoThread(p, c)'
    <3>1. PICK i \in IoThread : p = <<"busy", i, 0>> /\ Unrun(busy'[i]) /\ busy'[i].of = c
      BY <2>4 DEF InIoThread, Unrun
    <3>2. CASE busy'[i] = busy[i]
      <4>1. InIoThread(p, c)
        BY <3>1, <3>2 DEF InIoThread, Unrun
      <4>2. p # new \/ requests[k][1].of = c
        <5>1. CASE busy' # busy /\ i = io[k]
          <6>1. busy'[i] = job
            BY <1>5, <3>1, <5>1 DEF RequestsTypes
          <6> QED
            BY <1>4, <3>1, <6>1
        <5> QED
          BY <3>1, <5>1
      <4> QED
        BY <2>2, <2>3, <3>1, <4>1, <4>2, InPlaces
    <3>3. CASE busy'[i] # busy[i]
      <4>1. i = io[k] /\ busy'[i] = job /\ busy' # busy
        BY <1>5, <3>1, <3>3 DEF RequestsTypes
      <4> QED
        BY <1>4, <2>2, <3>1, <4>1
    <3> QED
      BY <3>2, <3>3
  <2>5. CASE InPool(p, c)'
    <3>1. PICK n \in DOMAIN tasks' : p = <<"task", 0, n>> /\ tasks'[n].of = c
      BY <2>5 DEF InPool
    <3>2. IsSeq(tasks) /\ Len(tasks) \in Nat /\ DOMAIN tasks = 1 .. Len(tasks)
      <4>1. IsSeq(tasks)
        BY DEF RequestsTypes
      <4> QED
        BY <4>1, IsSeqFacts
    <3>3. CASE tasks' = tasks
      <4>1. InPool(p, c)
        BY <3>1, <3>3 DEF InPool
      <4>2. p # new
        BY <3>1, <3>2, <3>3
      <4> QED
        BY <2>3, <3>1, <4>1, <4>2, InPlaces
    <3>4. CASE tasks' = Append(tasks, job) /\ busy' = busy
      <4>1. /\ n \in 1 .. Len(tasks) + 1
            /\ \A j \in 1 .. Len(tasks) : tasks'[j] = tasks[j]
            /\ tasks'[Len(tasks) + 1] = job
        BY <3>1, <3>2, <3>4, AppendFacts
      <4>2. CASE n = Len(tasks) + 1
        <5>1. p = new
          BY <3>1, <3>4, <4>2
        <5>2. requests[k][1].of = c
          BY <1>4, <3>1, <4>1, <4>2
        <5> QED
          BY <2>2, <5>1, <5>2
      <4>3. CASE n # Len(tasks) + 1
        <5>1. n \in DOMAIN tasks /\ tasks[n].of = c
          BY <3>1, <3>2, <4>1, <4>3
        <5>2. InPool(p, c)
          BY <3>1, <5>1 DEF InPool
        <5>3. p # new
          BY <3>1, <3>4, <4>3
        <5> QED
          BY <2>3, <3>1, <5>2, <5>3, InPlaces
      <4> QED
        BY <4>2, <4>3
    <3> QED
      BY <1>5, <3>3, <3>4
  <2>6. CASE InWorker(p, c)'
    <3>1. InWorker(p, c)
      BY <1>3, <2>6 DEF InWorker, Unrun
    <3>2. p # new /\ p[1] # "request"
      BY <1>6, <3>1 DEF InWorker
    <3> QED
      BY <2>3, <3>1, <3>2, InPlaces
  <2> HIDE DEF new
  <2> QED
    BY <2>1, <2>4, <2>5, <2>6, InPlacesNext
<1> QED
  BY <1>6, <1>7, <1>8

LEMMA OnMessageKeeps ==
  ASSUME RequestsInv, NEW k \in Conn, OnMessage(k)
  PROVE  RequestsInv'
<1>1. RequestsTypes /\ RequestsTypes'
  BY OnMessageTypes DEF RequestsInv
<1>2. ASSUME NEW c \in Call PROVE SentOnce(c)'
  <2>1. SentOnce(c) /\ ran' = ran /\ Sent(c)' = Sent(c)
    BY <1>1, OnMessageTakes, PeerFrame DEF RequestsInv
  <2>0. PICK new : \E m \in Nat \ {0} :
          /\ new[1] # "request"
          /\ \A p \in Places(c)' : \E q \in Places(c) : CameFrom(p, q, k, m, new)
    BY <1>1, OnMessageMoves
  <2>2. PICK m \in Nat \ {0} :
          /\ new[1] # "request"
          /\ \A p \in Places(c)' : \E q \in Places(c) : CameFrom(p, q, k, m, new)
    BY <2>0
  <2>3. ASSUME NEW p \in Places(c)', NEW o \in Places(c)' PROVE p = o
    <3>1. PICK q \in Places(c) : CameFrom(p, q, k, m, new)
      BY <2>2
    <3>2. PICK r \in Places(c) : CameFrom(o, r, k, m, new)
      BY <2>2
    <3>3. q = r
      BY <2>1, SentOnceDef
    <3> QED
      BY <2>2, <3>1, <3>2, <3>3, CameFromOne
  <2>4. Places(c)' # {} => Places(c) # {}
    BY <2>2
  <2> QED
    BY <2>1, <2>3, <2>4 DEF SentOnce
<1> QED
  BY <1>1, <1>2 DEF RequestsInv

-----------------------------------------------------------------------------
\* Jobs are run, answered and lost.

\* The call of a job that runs leaves its only place.
LEMMA RunKeeps ==
  ASSUME RequestsInv, NEW c0, NEW spot \in Places(c0), UNCHANGED client,
         ran' = [ran EXCEPT ![c0] = ran[c0] + 1],
         \A c \in Call : Places(c)' \subseteq Places(c) \ {spot}
  PROVE  /\ ran' \in [Call -> {0, 1}]
         /\ \A c \in Call : SentOnce(c)'
<1>1. ran \in [Call -> {0, 1}] /\ \A c \in Call : SentOnce(c)
  BY DEF RequestsInv, RequestsTypes
<1>2. c0 \in Call => ran[c0] = 0 /\ Sent(c0) /\ Places(c0)' = {}
  BY <1>1, SentOnceDef
<1>3. ran' \in [Call -> {0, 1}]
  <2>1. CASE c0 \in Call
    <3>1. ran[c0] + 1 = 1
      BY <1>2, <2>1
    <3>2. ran' = [ran EXCEPT ![c0] = 1]
      BY <3>1
    <3> QED
      BY <1>1, <3>2
  <2>2. CASE c0 \notin Call
    BY <1>1, <2>2
  <2> QED
    BY <2>1, <2>2
<1>4. ASSUME NEW c \in Call PROVE SentOnce(c)'
  <2>1. SentOnce(c) /\ Sent(c)' = Sent(c) /\ Places(c)' \subseteq Places(c)
    BY <1>1, PeerFrame
  <2>2. CASE c = c0
    BY <1>2, <2>1, <2>2, LastPlace
  <2>3. CASE c # c0
    <3>1. ran'[c] = ran[c]
      BY <1>1, <2>3
    <3> QED
      BY <2>1, <3>1, FewerPlaces
  <2> QED
    BY <2>2, <2>3
<1> QED
  BY <1>3, <1>4

LEMMA ReplyIsSome == ASSUME NEW m \in Method, NEW r \in Replies(m) PROVE r # Nil
BY NilAssumption

LEMMA HandleRunKeeps ==
  ASSUME RequestsInv, NEW i \in IoThread, HandleRun(i)
  PROVE  RequestsInv'
<1>1. PICK r \in UNION {Replies(m) : m \in Method} :
        /\ Run(busy[i], r)
        /\ busy' = [busy EXCEPT ![i].reply = r]
        /\ UNCHANGED <<client, net, up, crashes, io, tasks, working, got>>
  BY DEF HandleRun
<1> DEFINE job == busy[i]
<1>2. r # Nil
  BY ReplyIsSome
<1>3. /\ Unrun(job) /\ IsWhole(job) /\ ran' = [ran EXCEPT ![job.of] = ran[job.of] + 1]
      /\ UNCHANGED <<client, requests, pc, calls, io, tasks, working>>
  BY <1>1 DEF Run, Unrun, RequestsInv, RequestsTypes, net, client
<1>4. /\ busy' \in [IoThread -> {busy'[j] : j \in IoThread}]
      /\ ~ Unrun(busy'[i]) /\ \A j \in IoThread \ {i} : busy'[j] = busy[j]
  <2>1. busy \in [IoThread -> {busy[j] : j \in IoThread}]
    BY DEF RequestsInv, RequestsTypes
  <2>2. busy' = [busy EXCEPT ![i] = [busy[i] EXCEPT !.reply = r]]
    BY <1>1
  <2>3. [busy[i] EXCEPT !.reply = r].reply = r
    BY <1>3 DEF IsWhole
  <2> QED
    BY <1>2, <2>1, <2>2, <2>3 DEF Unrun
<1>5. <<"busy", i, 0>> \in Places(job.of)
  BY <1>3, InPlaces DEF InIoThread
<1>6. ASSUME NEW c \in Call
      PROVE  Places(c)' \subseteq Places(c) \ {<<"busy", i, 0>>}
  <2>1. ASSUME NEW p \in Places(c)' PROVE p \in Places(c) /\ p # <<"busy", i, 0>>
    <3>1. CASE InIoThread(p, c)'
      <4>1. PICK j \in IoThread : p = <<"busy", j, 0>> /\ Unrun(busy'[j]) /\ busy'[j].of = c
        BY <3>1 DEF InIoThread, Unrun
      <4>2. j # i /\ busy'[j] = busy[j]
        BY <1>4, <4>1
      <4>3. InIoThread(p, c)
        BY <4>1, <4>2 DEF InIoThread
      <4> QED
        BY <4>1, <4>2, <4>3, InPlaces
    <3>2. CASE OnConnection(p, c)' \/ InPool(p, c)' \/ InWorker(p, c)'
      <4>1. OnConnection(p, c) \/ InPool(p, c) \/ InWorker(p, c)
        BY <1>3, <3>2 DEF OnConnection, InPool, InWorker, Unrun
      <4>2. p[1] # "busy"
        BY <4>1 DEF OnConnection, InPool, InWorker
      <4> QED
        BY <4>1, <4>2, InPlaces
    <3> QED
      BY <3>1, <3>2, InPlacesNext
  <2> QED
    BY <2>1
<1>7. ran' \in [Call -> {0, 1}] /\ \A c \in Call : SentOnce(c)'
  <2> DEFINE c0 == job.of
  <2>1. /\ <<"busy", i, 0>> \in Places(c0) /\ UNCHANGED client
        /\ ran' = [ran EXCEPT ![c0] = ran[c0] + 1]
    BY <1>3, <1>5
  <2> HIDE DEF c0
  <2> QED
    BY <1>6, <2>1, RunKeeps
<1>8. RequestsTypes'
  BY <1>3, <1>4, <1>7 DEF RequestsInv, RequestsTypes, Unrun
<1> QED
  BY <1>7, <1>8 DEF RequestsInv

\* The pool's thread that misses a key forgets the job.
LEMMA TaskRunKeeps ==
  ASSUME RequestsInv, NEW w \in Worker, TaskRun(w)
  PROVE  RequestsInv'
<1>1. PICK r \in Replies("get") :
        /\ Run(working[w], r)
        /\ working' = IF r.err = "OK" THEN [working EXCEPT ![w].reply = r]
                                     ELSE [working EXCEPT ![w] = Nil]
        /\ UNCHANGED <<client, net, up, crashes, io, busy, tasks, got>>
  BY DEF TaskRun
<1> DEFINE job == working[w]
<1>2. r # Nil
  <2>1. "get" \in Method
    BY DEF Method, kvServerBaseMethods
  <2> QED
    BY <2>1, ReplyIsSome
<1>3. /\ Unrun(job) /\ IsWhole(job) /\ ran' = [ran EXCEPT ![job.of] = ran[job.of] + 1]
      /\ UNCHANGED <<client, requests, pc, calls, io, busy, tasks>>
  BY <1>1 DEF Run, Unrun, RequestsInv, RequestsTypes, net, client
<1>4. /\ working' \in [Worker -> {working'[v] : v \in Worker}]
      /\ ~ Unrun(working'[w]) /\ \A v \in Worker \ {w} : working'[v] = working[v]
  <2>1. working \in [Worker -> {working[v] : v \in Worker}]
    BY DEF RequestsInv, RequestsTypes
  <2>2. \/ working' = [working EXCEPT ![w] = [working[w] EXCEPT !.reply = r]]
        \/ working' = [working EXCEPT ![w] = Nil]
    BY <1>1
  <2>3. [working[w] EXCEPT !.reply = r].reply = r
    BY <1>3 DEF IsWhole
  <2> QED
    BY <1>2, <2>1, <2>2, <2>3 DEF Unrun
<1>5. <<"working", w, 0>> \in Places(job.of)
  BY <1>3, InPlaces DEF InWorker
<1>6. ASSUME NEW c \in Call
      PROVE  Places(c)' \subseteq Places(c) \ {<<"working", w, 0>>}
  <2>1. ASSUME NEW p \in Places(c)' PROVE p \in Places(c) /\ p # <<"working", w, 0>>
    <3>1. CASE InWorker(p, c)'
      <4>1. PICK v \in Worker : p = <<"working", v, 0>> /\ Unrun(working'[v]) /\ working'[v].of = c
        BY <3>1 DEF InWorker, Unrun
      <4>2. v # w /\ working'[v] = working[v]
        BY <1>4, <4>1
      <4>3. InWorker(p, c)
        BY <4>1, <4>2 DEF InWorker
      <4> QED
        BY <4>1, <4>2, <4>3, InPlaces
    <3>2. CASE OnConnection(p, c)' \/ InPool(p, c)' \/ InIoThread(p, c)'
      <4>1. OnConnection(p, c) \/ InPool(p, c) \/ InIoThread(p, c)
        BY <1>3, <3>2 DEF OnConnection, InPool, InIoThread, Unrun
      <4>2. p[1] # "working"
        BY <4>1 DEF OnConnection, InPool, InIoThread
      <4> QED
        BY <4>1, <4>2, InPlaces
    <3> QED
      BY <3>1, <3>2, InPlacesNext
  <2> QED
    BY <2>1
<1>7. ran' \in [Call -> {0, 1}] /\ \A c \in Call : SentOnce(c)'
  <2> DEFINE c0 == job.of
  <2>1. /\ <<"working", w, 0>> \in Places(c0) /\ UNCHANGED client
        /\ ran' = [ran EXCEPT ![c0] = ran[c0] + 1]
    BY <1>3, <1>5
  <2> HIDE DEF c0
  <2> QED
    BY <1>6, <2>1, RunKeeps
<1>8. RequestsTypes'
  BY <1>3, <1>4, <1>7 DEF RequestsInv, RequestsTypes, Unrun
<1> QED
  BY <1>7, <1>8 DEF RequestsInv

\* A job whose reply is sent was in no place.
LEMMA SendResponseKeeps ==
  ASSUME RequestsInv,
         \/ \E i \in IoThread : HandleSend(i)
         \/ \E w \in Worker : TaskSend(w)
  PROVE  RequestsInv'
<1>1. /\ \/ UNCHANGED busy
         \/ \E i \in IoThread : ~ Unrun(busy[i]) /\ busy' = [busy EXCEPT ![i] = Nil]
      /\ \/ UNCHANGED working
         \/ \E w \in Worker : ~ Unrun(working[w]) /\ working' = [working EXCEPT ![w] = Nil]
      /\ UNCHANGED <<client, requests, io, tasks, ran>>
  BY DEF HandleSend, TaskSend, SendResponse, Unrun
<1>2. RequestsTypes /\ UNCHANGED <<pc, calls>>
  BY <1>1 DEF RequestsInv, client
<1>3. /\ busy' \in [IoThread -> {busy'[i] : i \in IoThread}]
      /\ \A i \in IoThread : Unrun(busy'[i]) => Unrun(busy[i]) /\ busy'[i] = busy[i]
  BY <1>1, <1>2 DEF RequestsTypes, Unrun
<1>4. /\ working' \in [Worker -> {working'[w] : w \in Worker}]
      /\ \A w \in Worker : Unrun(working'[w]) => Unrun(working[w]) /\ working'[w] = working[w]
  BY <1>1, <1>2 DEF RequestsTypes, Unrun
<1>5. RequestsTypes'
  BY <1>1, <1>2, <1>3, <1>4 DEF RequestsTypes, Unrun
<1>6. ASSUME NEW c \in Call PROVE SentOnce(c)'
  <2>1. ASSUME NEW p \in Places(c)' PROVE p \in Places(c)
    <3>1. OnConnection(p, c)' => OnConnection(p, c)
      BY <1>1 DEF OnConnection
    <3>2. InPool(p, c)' => InPool(p, c)
      BY <1>1 DEF InPool
    <3>3. InIoThread(p, c)' => InIoThread(p, c)
      BY <1>3 DEF InIoThread, Unrun
    <3>4. InWorker(p, c)' => InWorker(p, c)
      BY <1>4 DEF InWorker, Unrun
    <3> QED
      BY <3>1, <3>2, <3>3, <3>4, InPlaces, InPlacesNext
  <2>2. SentOnce(c) /\ ran' = ran /\ Sent(c)' = Sent(c)
    BY <1>1, PeerFrame DEF RequestsInv
  <2> QED
    BY <2>1, <2>2, FewerPlaces
<1> QED
  BY <1>5, <1>6 DEF RequestsInv

\* The place that a request at p had before a thread of the pool took the first task.
WasQueued(p, q, w) ==
  \/ p = <<"working", w, 0>> /\ q = <<"task", 0, 1>>
  \/ \E n \in Nat \ {0} : p = <<"task", 0, n>> /\ q = <<"task", 0, n + 1>>
  \/ p # <<"working", w, 0>> /\ p[1] # "task" /\ q = p

LEMMA WasQueuedOne ==
  ASSUME NEW w, NEW p, NEW o, NEW q, WasQueued(p, q, w), WasQueued(o, q, w)
  PROVE  p = o
<1>1. CASE p = <<"working", w, 0>> /\ q = <<"task", 0, 1>>
  BY <1>1 DEF WasQueued
<1>2. CASE \E n \in Nat \ {0} : p = <<"task", 0, n>> /\ q = <<"task", 0, n + 1>>
  <2>1. PICK n \in Nat \ {0} : p = <<"task", 0, n>> /\ q = <<"task", 0, n + 1>>
    BY <1>2
  <2>2. \E j \in Nat \ {0} : o = <<"task", 0, j>> /\ q = <<"task", 0, j + 1>>
    BY <2>1 DEF WasQueued
  <2> QED
    BY <2>1, <2>2
<1>3. CASE p # <<"working", w, 0>> /\ p[1] # "task" /\ q = p
  BY <1>3 DEF WasQueued
<1> QED
  BY <1>1, <1>2, <1>3 DEF WasQueued

LEMMA TakeTaskKeeps ==
  ASSUME RequestsInv, NEW w \in Worker, TakeTask(w)
  PROVE  RequestsInv'
<1>1. /\ working' = [working EXCEPT ![w] = Head(tasks)]
      /\ tasks # <<>> /\ tasks' = Tail(tasks)
      /\ UNCHANGED <<client, requests, io, busy, ran>>
  BY DEF TakeTask, net
<1>2. RequestsTypes /\ UNCHANGED <<pc, calls>>
  BY <1>1 DEF RequestsInv, client
<1>3. /\ 1 \in DOMAIN tasks /\ Head(tasks) = tasks[1] /\ IsSeq(tasks')
      /\ DOMAIN tasks' = 1 .. Len(tasks) - 1
      /\ \A n \in 1 .. Len(tasks) - 1 : tasks'[n] = tasks[n + 1]
  BY <1>1, <1>2, TailFacts DEF RequestsTypes
<1>4. /\ Len(tasks) \in Nat /\ DOMAIN tasks = 1 .. Len(tasks)
      /\ \A n \in DOMAIN tasks : IsWhole(tasks[n])
  BY <1>2, IsSeqFacts DEF RequestsTypes
<1>5. \A n \in DOMAIN tasks' : n + 1 \in DOMAIN tasks /\ tasks'[n] = tasks[n + 1] /\ n \in Nat \ {0}
  BY <1>3, <1>4
<1>6. /\ working' \in [Worker -> {working'[v] : v \in Worker}]
      /\ working'[w] = tasks[1] /\ \A v \in Worker \ {w} : working'[v] = working[v]
  BY <1>1, <1>2, <1>3 DEF RequestsTypes
<1>7. RequestsTypes'
  <2>1. \A j \in Range(tasks') : IsWhole(j)
    BY <1>4, <1>5 DEF Range
  <2>2. \A v \in Worker : Unrun(working'[v]) => IsWhole(working'[v])
    BY <1>2, <1>3, <1>4, <1>6 DEF RequestsTypes
  <2> QED
    BY <1>1, <1>2, <1>3, <1>6, <2>1, <2>2 DEF RequestsTypes, Unrun, IsWhole
<1>8. ASSUME NEW c \in Call, NEW p \in Places(c)'
      PROVE  \E q \in Places(c) : WasQueued(p, q, w)
  <2>1. CASE OnConnection(p, c)' \/ InIoThread(p, c)'
    <3>1. OnConnection(p, c) \/ InIoThread(p, c)
      BY <1>1, <2>1 DEF OnConnection, InIoThread, Unrun
    <3>2. p # <<"working", w, 0>> /\ p[1] # "task"
      BY <3>1 DEF OnConnection, InIoThread
    <3>3. WasQueued(p, p, w)
      BY <3>2, Zenon DEF WasQueued
    <3> QED
      BY <3>1, <3>3, InPlaces
  <2>2. CASE InPool(p, c)'
    <3>1. PICK n \in DOMAIN tasks' : p = <<"task", 0, n>> /\ tasks'[n].of = c
      BY <2>2 DEF InPool
    <3>2. InPool(<<"task", 0, n + 1>>, c)
      BY <1>5, <3>1 DEF InPool
    <3>3. WasQueued(p, <<"task", 0, n + 1>>, w)
      BY <1>5, <3>1, Zenon DEF WasQueued
    <3> QED
      BY <3>2, <3>3, InPlaces
  <2>3. CASE InWorker(p, c)'
    <3>1. PICK v \in Worker : p = <<"working", v, 0>> /\ Unrun(working'[v]) /\ working'[v].of = c
      BY <2>3 DEF InWorker, Unrun
    <3>2. CASE v = w
      <4>1. InPool(<<"task", 0, 1>>, c)
        BY <1>3, <1>6, <3>1, <3>2 DEF InPool
      <4>2. WasQueued(p, <<"task", 0, 1>>, w)
        BY <3>1, <3>2, Zenon DEF WasQueued
      <4> QED
        BY <4>1, <4>2, InPlaces
    <3>3. CASE v # w
      <4>1. InWorker(p, c)
        BY <1>6, <3>1, <3>3 DEF InWorker
      <4>2. p # <<"working", w, 0>> /\ p[1] # "task"
        BY <3>1, <3>3
      <4>3. WasQueued(p, p, w)
        BY <4>2, Zenon DEF WasQueued
      <4> QED
        BY <4>1, <4>3, InPlaces
    <3> QED
      BY <3>2, <3>3
  <2> QED
    BY <2>1, <2>2, <2>3, InPlacesNext
<1>9. ASSUME NEW c \in Call PROVE SentOnce(c)'
  <2>1. SentOnce(c) /\ ran' = ran /\ Sent(c)' = Sent(c)
    BY <1>1, PeerFrame DEF RequestsInv
  <2>2. ASSUME NEW p \in Places(c)', NEW o \in Places(c)' PROVE p = o
    <3>1. PICK q \in Places(c) : WasQueued(p, q, w)
      BY <1>8
    <3>2. PICK r \in Places(c) : WasQueued(o, r, w)
      BY <1>8
    <3>3. q = r
      BY <2>1, SentOnceDef
    <3> QED
      BY <3>1, <3>2, <3>3, WasQueuedOne
  <2>3. Places(c)' # {} => Places(c) # {}
    BY <1>8
  <2> QED
    BY <2>1, <2>2, <2>3 DEF SentOnce
<1> QED
  BY <1>7, <1>9 DEF RequestsInv

LEMMA CrashKeeps ==
  ASSUME RequestsInv, Crash
  PROVE  RequestsInv'
<1>1. /\ requests' = [k \in Conn |-> <<>>] /\ busy' = [i \in IoThread |-> Nil]
      /\ tasks' = <<>> /\ working' = [w \in Worker |-> Nil]
      /\ UNCHANGED <<client, io, ran>>
  BY DEF Crash
<1>2. RequestsTypes /\ UNCHANGED <<pc, calls>>
  BY <1>1 DEF RequestsInv, client
<1>3. RequestsTypes'
  BY <1>1, <1>2, EmptyIsSeq DEF RequestsTypes, Unrun, Range
<1>4. ASSUME NEW c \in Call PROVE SentOnce(c)'
  <2>1. Places(c)' \subseteq Places(c)
    <3>1. ASSUME NEW p \in Places(c)' PROVE FALSE
      BY <1>1, EmptyIsSeq, InPlacesNext
         DEF OnConnection, InIoThread, InPool, InWorker, Unrun
    <3> QED
      BY <3>1
  <2>2. SentOnce(c) /\ ran' = ran /\ Sent(c)' = Sent(c)
    BY <1>1, PeerFrame DEF RequestsInv
  <2> QED
    BY <2>1, <2>2, FewerPlaces
<1> QED
  BY <1>3, <1>4 DEF RequestsInv

-----------------------------------------------------------------------------
\* Every step.

LEMMA StepKeeps ==
  ASSUME RequestsInv, [Next]_vars
  PROVE  RequestsInv'
<1>1. RequestsTypes /\ \A c \in Call : SentOnce(c)
  BY DEF RequestsInv
<1>2. ASSUME UNCHANGED <<handling, io>>,
             pc' \in [Caller -> {"idle", "socket", "connect", "send", "recv", "wait"}],
             calls' \in [Caller -> Nat],
             \A c \in Call : Sent(c) => Sent(c)'
      PROVE  RequestsInv'
  <2>1. RequestsTypes'
    BY <1>1, <1>2, TypesFrame
  <2>2. ASSUME NEW c \in Call PROVE SentOnce(c)'
    BY <1>1, <1>2, OnceFrame
  <2> QED
    BY <2>1, <2>2 DEF RequestsInv
<1>3. ASSUME NEW t \in Caller, Begin(t) \/ CallerStep(t)
      PROVE  RequestsInv'
  <2>1. CASE Send(t)
    BY <2>1, SendKeeps
  <2>2. CASE ~ Send(t)
    <3>1. UNCHANGED <<handling, io>>
      BY <1>1, <1>3, <2>2, CallerGoesOn DEF handling, peer
    <3>2. /\ pc' \in [Caller -> {"idle", "socket", "connect", "send", "recv", "wait"}]
          /\ calls' \in [Caller -> Nat] /\ \A c \in Call : Sent(c) => Sent(c)'
      BY <1>1, <1>3, CallerGoesOn
    <3> QED
      BY <1>2, <3>1, <3>2
  <2> QED
    BY <2>1, <2>2
<1>4. CASE UNCHANGED <<client, handling, io>>
  <2>1. /\ pc' \in [Caller -> {"idle", "socket", "connect", "send", "recv", "wait"}]
        /\ calls' \in [Caller -> Nat]
    BY <1>1, <1>4 DEF RequestsTypes, client
  <2>2. \A c \in Call : Sent(c) => Sent(c)'
    BY <1>4, PeerFrame
  <2> QED
    BY <1>2, <1>4, <2>1, <2>2
<1>5. CASE Restart
  BY <1>4, <1>5 DEF Restart, net, handling
<1>6. CASE UNCHANGED vars
  BY <1>4, <1>6 DEF vars, net, peer, handling
<1>7. CASE PeerStep
  <2>1. \/ \E k \in Conn : OnMessage(k)
        \/ \E i \in IoThread : HandleRun(i)
        \/ \E w \in Worker : TakeTask(w)
        \/ \E w \in Worker : TaskRun(w)
        \/ (\E i \in IoThread : HandleSend(i)) \/ (\E w \in Worker : TaskSend(w))
    BY <1>7, Zenon DEF PeerStep
  <2> QED
    BY <2>1, OnMessageKeeps, HandleRunKeeps, TakeTaskKeeps, TaskRunKeeps, SendResponseKeeps
<1>8. \/ \E t \in Caller : Begin(t) \/ CallerStep(t)
      \/ PeerStep \/ Crash \/ Restart \/ UNCHANGED vars
  BY Zenon DEF Next
<1> QED
  BY <1>3, <1>5, <1>6, <1>7, <1>8, CrashKeeps

-----------------------------------------------------------------------------
\* The request of a call is in one place of the peer or of a connection at a time, from its
\* send to its run, whoever shares a channel and however often the peer crashes
\* (mprpcChannel.cpp:84, rpcProvider.cpp:94-156).
THEOREM RequestsKept == Spec => []RequestsInv
<1>1. Init => RequestsInv
  BY InitRequests
<1>2. RequestsInv /\ [Next]_vars => RequestsInv'
  BY StepKeeps
<1> QED
  BY <1>1, <1>2, PTL DEF Spec

\* The loop around send never makes the peer run a call twice: a request is sent anew only
\* when nothing of it was taken, and what is taken is in one place until it runs
\* (mprpcChannel.cpp:84).
THEOREM RunsAtMostOnce == Spec => []NothingTwice
<1>1. RequestsInv => NothingTwice
  BY DEF RequestsInv, RequestsTypes, NothingTwice
<1> QED
  BY <1>1, RequestsKept, PTL
=============================================================================
