---------------------------- MODULE KvInvariants ----------------------------
(***************************************************************************)
(* The inductive invariants behind TypeOK, WaitersHaveTheirOwnQueue,       *)
(* AckedIsExecuted and PutsTakeEffectOnce (ServerInv), behind              *)
(* TableIsReplay (ReplayInv) and behind ReadYourWrites (SessionInv).       *)
(* KvProofs proves them for every number of servers and clients; TLC       *)
(* checks the first two in a run.                                          *)
(***************************************************************************)
EXTENDS KvProperties

\* What the core of i hands up, and what its loop works on, is committed.
HandsUpCommitted(i) ==
  /\ applied[i] <= commit[i] /\ shot[i] <= commit[i]
  /\ commit[i] <= Len(committed)
  /\ \A k \in Elements(batch[i]) : k <= Len(committed)
  /\ \A m \in Elements(queue[i]) : m[2] <= Len(committed)
  /\ loop[i].step # "idle" => loop[i].index \in 1..Len(committed)

IndexesInv ==
  /\ Len(committed) <= MaxIndex
  /\ \A k \in 1..Len(committed) : <<k, committed[k]>> \in proposals
  /\ \A p \in proposals : p[1] > 0
  /\ \A i \in Node : HandsUpCommitted(i)
  /\ \A p \in pushers : p[2] <= Len(committed)

-----------------------------------------------------------------------------

\* The put of h has an index in the log of its server.
Logs(h) == h.step \in {"logged", "waiting", "gave up"}

\* A leader logs at indexes its log has not reached, so no two handlers of a server
\* ever have the same.
WaitersInv ==
  /\ \A h \in calls : Logs(h) => h.index \in 1..last[h.node]
  /\ \A g, h \in calls :
       Logs(g) /\ Logs(h) /\ g.node = h.node /\ g.index = h.index => g = h
  /\ \A h \in calls :
       h.step \in {"waiting", "gave up"} => appliedChan[h.node][h.index] # None

-----------------------------------------------------------------------------

\* The clerk waits for this put.
AwaitedPut(op) == call[op[1]].kind = "put" /\ call[op[1]].req = op[2]

\* Whoever handles a put or has logged it does so for a clerk that waits, or the put
\* is committed already.
Pending(op) == AwaitedPut(op) \/ op \in Elements(committed)

\* A clerk makes one call at a time, its latest.
ClerkInv(c) ==
  /\ call[c].kind = "none" => call[c] = NoCall
  /\ call[c].kind # "none" => call[c].req > 0 /\ call[c].req = requestId[c]
  /\ call[c].attempt <= failures

\* Nobody knows a request that was not made.
Known(op) == op[2] <= requestId[op[1]]

HandlerInv(h) ==
  /\ Known(Op(h))
  /\ call[h.client].req = h.req => call[h.client].kind = h.kind
  /\ h.kind = "put" => Pending(Op(h))
  /\ h.step = "reading" => h.kind = "get"
  /\ Logs(h) => h.kind = "put"

RequestsInv ==
  /\ \A c \in Client : ClerkInv(c)
  /\ \A h \in calls : HandlerInv(h)
  /\ \A p \in proposals : Known(p[2]) /\ Pending(p[2])
  /\ \A i \in Node, c \in Client : Known(<<c, lastRequestId[i][c]>>)

-----------------------------------------------------------------------------

\* If its clerk still waits, op has been executed on i.
Served(i, op) == AwaitedPut(op) => op \in Elements(writes[i])

\* What makes a server answer OK (the command at the index, the latest request of the
\* client) is there only once the put is in its table.
QueuesServed(i) ==
  \A k \in 1..MaxIndex : appliedChan[i][k] # None =>
    \A op \in Elements(appliedChan[i][k]) : Served(i, op) /\ op \in Elements(committed)

LoopServed(i) ==
  loop[i].step = "executed" \/ (loop[i].step = "checked" /\ loop[i].duplicate)
    => Served(i, committed[loop[i].index])

AnswersInv ==
  /\ \A i \in Node, c \in Client : Served(i, <<c, lastRequestId[i][c]>>)
  /\ \A i \in Node :
       LoopServed(i) /\ QueuesServed(i) /\ Elements(writes[i]) \subseteq Elements(committed)
  /\ AckedIsExecuted

\* Puts of one server wait apart from each other and are answered OK only when they
\* are executed, whichever way the answer takes.
ServerInv ==
  /\ IndexesInv
  /\ WaitersInv
  /\ RequestsInv
  /\ AnswersInv

-----------------------------------------------------------------------------
(* What it takes for a table to be a replay, as long as nobody gets.       *)

\* A client's puts enter the log for the first time in the order of its requests.
InRequestOrder ==
  \A m, n \in 1..Len(committed) :
    m < n /\ committed[m][1] = committed[n][1] /\ committed[n][2] <= committed[m][2]
      => \E k \in 1..(n - 1) : committed[k] = committed[n]

\* The table knows the latest request of c among the commands up to index k.
Latest(i, c, k) ==
  /\ lastRequestId[i][c] # 0 => \E n \in 1..k : committed[n] = <<c, lastRequestId[i][c]>>
  /\ \A n \in 1..k : committed[n][1] = c => committed[n][2] <= lastRequestId[i][c]

UpToDate(i) ==
  /\ writes[i] = FirstOccurrences(SubSeq(committed, 1, InTable(i)))
  /\ \A c \in Client : Latest(i, c, InTable(i))
  /\ loop[i].step = "checked" =>
       (loop[i].duplicate <=> DuplicateRequest(i, committed[loop[i].index]))

\* _L_executeCommand, _L_duplicateRequest: commands are handed up in order, so that a request
\* is in a table exactly if it is not above the client's latest one.
ReplayInv ==
  /\ HandedInOrder
  /\ InRequestOrder
  /\ \A i \in Node : Up(i) /\ ~Behind(i) => UpToDate(i)

-----------------------------------------------------------------------------
(* What it takes for a client to read its own puts, as long as no          *)
(* connection fails and nobody takes snapshots.                            *)

NoSnapshots == \A i \in Node : Up(i) /\ shot[i] = 0 /\ ~Behind(i)

\* A clerk has one handler, the one it waits for, and a get is at the server that answered
\* the clerk's last call.
HandlersAreAwaited ==
  /\ \A h \in calls : Awaited(h) /\ (h.kind = "get" => h.node = leaderId[h.client])
  /\ \A g, h \in calls : g.client = h.client => g = h

\* A clerk makes its next call only when the one before was answered.
Logged == {p[2] : p \in proposals}
EarlierAcked == \A op \in Logged : AwaitedPut(op) \/ op \in acked

\* In the log, a put is behind the earlier puts of its client.
EarlierFirst ==
  \A m \in 1..Len(committed), op \in Logged :
    op[1] = committed[m][1] /\ op[2] < committed[m][2]
      => \E k \in 1..(m - 1) : committed[k] = op

\* A table has exactly what its loop has passed, and the latest request it has noted of a
\* client, be it a get, hides no put that is missing.
Complete(i) ==
  /\ Elements(writes[i]) = {committed[k] : k \in 1..InTable(i)}
  /\ loop[i].step = "checked" /\ loop[i].duplicate
       => committed[loop[i].index] \in Elements(writes[i])
  /\ \A op \in Logged : op[2] <= lastRequestId[i][op[1]] => op \in Elements(writes[i])

\* The server that answered a client last has all puts that returned to the client.
AckedAtLeader == \A a \in acked : a \in Elements(writes[leaderId[a[1]]])

Session ==
  /\ HandlersAreAwaited /\ EarlierAcked /\ EarlierFirst /\ AckedAtLeader
  /\ \A i \in Node : Complete(i)
  /\ unseen = {}

\* _L_get, clerk::get: a get is answered from a table with all its client has put.
SessionInv == NoSnapshots /\ (failures = 0 => Session)
=============================================================================
