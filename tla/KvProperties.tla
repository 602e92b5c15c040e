---------------------------- MODULE KvProperties ----------------------------
(***************************************************************************)
(* What the key-value servers and their clerks keep, whatever the order of *)
(* their threads, and what comments of the source claim of them and the    *)
(* code does not keep.                                                     *)
(***************************************************************************)
EXTENDS KvServer, SequencesExt

\* The commands of seq without the repetitions of earlier ones: the n-th is the one
\* with n - 1 others before it.
FirstOccurrences(seq) ==
  LET firsts == {k \in 1..Len(seq) : \A m \in 1..(k - 1) : seq[m] # seq[k]}
      Ranked(n) == {k \in firsts : Cardinality({m \in firsts : m <= k}) = n}
  IN  [n \in 1..Cardinality(firsts) |-> seq[CHOOSE k \in Ranked(n) : TRUE]]

Ops == Client \X (1..MaxCalls)
Steps == {"arrived", "logged", "waiting", "gave up", "reading"}
Indexes == 0..MaxIndex

CoreTypes ==
  /\ proposals \subseteq Indexes \X Ops /\ committed \in Seq(Ops)
  /\ leading \in [Node -> BOOLEAN] /\ elections \in 0..MaxElections
  /\ {last, commit, applied, shot} \subseteq [Node -> Indexes]
  /\ batch \in [Node -> Seq(1..MaxIndex)]
  /\ pushers \subseteq Node \X (1..MaxIndex)
  /\ fault \in [Node -> BOOLEAN]

LoopTypes ==
  /\ queue \in [Node -> Seq({"command", "snapshot"} \X (1..MaxIndex))]
  /\ loop \in [Node -> [step : {"idle", "checked", "executed"}, index : Indexes,
                        duplicate : BOOLEAN]]
  /\ writes \in [Node -> Seq(Ops)]
  /\ lastRequestId \in [Node -> [Client -> 0..MaxCalls]]
  /\ appliedChan \in [Node -> [1..MaxIndex -> Seq(Ops) \cup {None}]]
  /\ executed \in [Node -> Indexes]

CallTypes ==
  /\ calls \subseteq [client : Client, kind : Kinds, req : 1..MaxCalls,
                      attempt : 0..MaxFailures, node : Node, step : Steps,
                      index : Indexes]
  /\ timeouts \in 0..MaxTimeouts
  /\ call \in [Client -> [kind : Kinds \cup {"none"}, req : 0..MaxCalls, node : Node,
                      attempt : 0..MaxFailures]]
  /\ requestId \in [Client -> 0..MaxCalls]
  /\ leaderId \in [Client -> Node]
  /\ failures \in 0..MaxFailures
  /\ acked \cup unseen \subseteq Ops

\* Every field of the core as the servers see it, of the servers, of the handlers
\* and of the clerks has its type.
TypeOK == CoreTypes /\ LoopTypes /\ CallTypes

-----------------------------------------------------------------------------
(* The way of a command from the log to the table. *)

\* The index the loop took out last, and those on the way to it.
Taken(i) == IF loop[i].step = "idle" THEN executed[i] ELSE loop[i].index
Queued(i) == {queue[i][n][2] : n \in {m \in 1..Len(queue[i]) : queue[i][m][1] = "command"}}
OnTheWay(i) == Queued(i) \cup Elements(batch[i])
SnapshotAt(i, k) == <<i, k>> \in pushers \/ Contains(queue[i], <<"snapshot", k>>)

\* The table has seen executed[i], then come what the loop has taken out, the commands in
\* the queue and what the applier holds, each index above those before it.
InOrder(i) ==
  /\ loop[i].step # "idle" => executed[i] < Taken(i)
  /\ Taken(i) <= applied[i]
  /\ \A x \in OnTheWay(i) : Taken(i) < x /\ x <= applied[i]
  /\ \A m, n \in 1..Len(queue[i]) :
       m < n /\ queue[i][m][1] = "command" /\ queue[i][n][1] = "command"
         => queue[i][m][2] < queue[i][n][2]
  /\ \A x \in Queued(i), y \in Elements(batch[i]) : x < y
  /\ \A m, n \in 1..Len(batch[i]) : m < n => batch[i][m] < batch[i][n]

\* An index that the applier passed is taken, on the way, or a snapshot on its way stands
\* for it.
NoneLeftOut(i) ==
  \A x \in (executed[i] + 1)..applied[i] :
    x = Taken(i) \/ x \in OnTheWay(i) \/ \E k \in x..MaxIndex : SnapshotAt(i, k)

\* _M_getApplyMessages, _L_installSnapshot and _L_popMessageLoop: what the applier
\* takes under the lock and pushes without it reaches the table in the order of the log, each
\* command once and none left out, except those that a snapshot on its way stands for.
HandedInOrder == \A i \in Node : Up(i) => InOrder(i) /\ NoneLeftOut(i)

\* The last command whose effect is in the table of i.
InTable(i) == IF loop[i].step = "executed" THEN loop[i].index ELSE executed[i]

Behind(i) == \E k \in 1..MaxIndex : SnapshotAt(i, k)

\* _L_executeCommand: without gets, the table of every node that does not wait for a
\* snapshot is what the log says, a put that was logged again being executed the first
\* time only.
TableIsReplay ==
  \A i \in Node : Up(i) /\ ~Behind(i) =>
    writes[i] = FirstOccurrences(SubSeq(committed, 1, InTable(i)))

-----------------------------------------------------------------------------
(* Answers. *)

\* _L_put, clerk::put: a put that returned was executed by a server, though answers come
\* by timeout, after a change of leader, or for a copy logged by another node.
AckedIsExecuted == \A a \in acked : \E i \in Node : a \in Elements(writes[i])

\* _L_put: the queue a handler waits at is its own, so that nobody else takes its
\* answer or deletes the queue it waits at.
WaitersHaveTheirOwnQueue ==
  \A h \in calls : h.step \in {"waiting", "gave up"} =>
    /\ appliedChan[h.node][h.index] # None
    /\ \A g \in calls \ {h} :
         g.node = h.node /\ g.step \in {"logged", "waiting", "gave up"}
           => g.index # h.index

\* _L_get, clerk::get: as long as no connection fails and nobody takes snapshots, a client
\* reads a table with all its own puts in it.
ReadYourWrites == failures = 0 => unseen = {}

\* The cluster as a store that gives every put one effect.
Store == INSTANCE KvStore WITH
  Request <- 1..MaxCalls,
  pending <- [c \in Client |-> IF call[c].kind = "put" THEN call[c].req ELSE 0],
  order <- FirstOccurrences(committed)

\* _L_put, _L_duplicateRequest, clerk::put: puts that are refused, timed out, logged
\* several times and answered by another server still take effect exactly once, between their call
\* and their return.
PutsTakeEffectOnce == Store!Spec

\* clerk::put: a put returns to its caller, whatever server it went to first, if one node
\* leads.
PutsReturn == \A c \in Client : call[c].kind = "put" ~> call[c].kind # "put"

-----------------------------------------------------------------------------
(* A claim of the source that the code does not keep. *)

\* kvServer.cpp:295: a request that has not been executed is executed.
EveryPutIsExecuted ==
  \A i \in Node :
    Elements(SubSeq(committed, 1, InTable(i))) \subseteq Elements(writes[i])
=============================================================================
