------------------------------ MODULE KvServer ------------------------------
(***************************************************************************)
(* The key-value servers (class kvServer) and their clients (class clerk)  *)
(* on top of what the consensus core promises them: one committed sequence *)
(* of commands, handed up on every node in order, each once.               *)
(*                                                                         *)
(* On a node run, each with the server's mutex only where the code takes   *)
(* it: the handlers of put (muduo threads) and get (read threads), the     *)
(* applier that hands committed commands to the apply queue, and the loop  *)
(* that takes them out.  An action is what happens under one lock.         *)
(*                                                                         *)
(* One key is modelled, so a put is the pair <<client, request>> that      *)
(* stands for its value, and writes[i] is the sequence of values the key   *)
(* has had on node i: the table holds the last one.                        *)
(***************************************************************************)
EXTENDS Integers, Sequences, FiniteSets

CONSTANTS
  N,               \* number of nodes
  Client,
  None,            \* no queue registered, and no value
  TakesSnapshots,  \* FALSE: maxRaftStateSize is -1
  Kinds,           \* the calls clients make: "put", "get"
  MaxCalls,        \* bound: calls of one client
  MaxFailures,     \* bound: calls that fail on the way
  MaxTimeouts,     \* bound: puts that give up on a command not executed yet
  MaxElections,    \* bound: changes of leadership
  MaxIndex         \* bound: no command is logged beyond this index

ASSUME KvAssumption ==
  /\ N \in Nat \ {0} /\ IsFiniteSet(Client) /\ None \notin Client
  /\ TakesSnapshots \in BOOLEAN /\ Kinds \subseteq {"put", "get"}
  /\ MaxCalls \in Nat /\ MaxFailures \in Nat /\ MaxTimeouts \in Nat
  /\ MaxElections \in Nat /\ MaxIndex \in Nat

\* An index without a queue is told from one with an empty queue.
ASSUME NoneAssumption == None \notin Seq(Client \X Nat)

Node == 0..(N - 1)

VARIABLES
  \* the consensus core, as the servers see it
  proposals,     \* <<k, op>>: a leader logged op at index k
  committed,     \* the commands committed so far
  leading,       \* leading[i]: i takes itself for the leader
  elections,
  last,          \* the last log index of each node
  commit,        \* _M_commitIndex
  applied,       \* _M_appliedIndex
  batch,         \* what the applier took under the lock and has not pushed yet
  shot,          \* _M_lastSnapshotIndex
  pushers,       \* <<i, k>>: a detached thread of i that will push snapshot k
  \* the servers
  queue,         \* _M_applyChan
  loop,          \* where the loop over the queue stands
  writes,        \* _M_data, as the sequence of values of the key
  lastRequestId,
  appliedChan,   \* appliedChan[i][k]: the queue registered at index k, or None
  fault,         \* the process was ended by an exception
  calls,         \* the handlers that run
  timeouts,
  \* the clerks
  call,          \* what the clerk waits for
  requestId, leaderId, failures,
  \* History: read by properties only.
  executed,      \* the last command the loop has finished on each node
  acked,         \* puts that returned to their caller
  unseen         \* gets that did not see a put of their own clerk

raftVars   == <<proposals, committed, leading, elections, last, commit, shot>>
applyVars  == <<applied, batch, pushers, queue>>
serverVars == <<writes, lastRequestId>>
clerkVars  == <<call, requestId, leaderId, failures>>
history    == <<executed, acked, unseen>>
vars == <<raftVars, applyVars, loop, serverVars, appliedChan, fault, calls,
          timeouts, clerkVars, history>>

Larger(a, b) == IF a >= b THEN a ELSE b
Up(i) == ~fault[i]
Idle == [step |-> "idle", index |-> 0, duplicate |-> FALSE]
NoCall == [kind |-> "none", req |-> 0, node |-> 0, attempt |-> 0]
Elements(s) == {s[k] : k \in 1..Len(s)}

Init ==
  /\ proposals = {} /\ committed = <<>>
  /\ \E l \in Node : leading = [i \in Node |-> i = l]
  /\ elections = 0
  /\ last = [i \in Node |-> 0]
  /\ commit = [i \in Node |-> 0]
  /\ applied = [i \in Node |-> 0]
  /\ batch = [i \in Node |-> <<>>]
  /\ shot = [i \in Node |-> 0]
  /\ pushers = {}
  /\ queue = [i \in Node |-> <<>>]
  /\ loop = [i \in Node |-> Idle]
  /\ writes = [i \in Node |-> <<>>]
  /\ lastRequestId = [i \in Node |-> [c \in Client |-> 0]]
  /\ appliedChan = [i \in Node |-> [k \in 1..MaxIndex |-> None]]
  /\ fault = [i \in Node |-> FALSE]
  /\ calls = {}
  /\ timeouts = 0
  /\ call = [c \in Client |-> NoCall]
  /\ requestId = [c \in Client |-> 0]
  /\ leaderId = [c \in Client |-> 0]
  /\ failures = 0
  /\ executed = [i \in Node |-> 0]
  /\ acked = {} /\ unseen = {}

-----------------------------------------------------------------------------
(* The consensus core. *)

\* A command logged at the next index is committed.
Commit ==
  /\ \E p \in proposals : /\ p[1] = Len(committed) + 1
                          /\ committed' = Append(committed, p[2])
  /\ UNCHANGED <<proposals, leading, elections, last, commit, shot, applyVars,
                 loop, serverVars, appliedChan, fault, calls, timeouts,
                 clerkVars, history>>

\* Node i learns that more is committed, and has it in its log.
Learn(i) ==
  /\ Up(i)
  /\ \E k \in (commit[i] + 1)..Len(committed) :
       /\ commit' = [commit EXCEPT ![i] = k]
       /\ last' = [last EXCEPT ![i] = Larger(@, k)]
  /\ UNCHANGED <<proposals, committed, leading, elections, shot, applyVars, loop,
                 serverVars, appliedChan, fault, calls, timeouts, clerkVars, history>>

\* Node i wins an election; a deposed leader may not know yet.
Elected(i) ==
  /\ Up(i) /\ ~leading[i]
  /\ elections < MaxElections
  /\ elections' = elections + 1
  /\ leading' = [leading EXCEPT ![i] = TRUE]
  /\ UNCHANGED <<proposals, committed, last, commit, shot, applyVars, loop,
                 serverVars, appliedChan, fault, calls, timeouts, clerkVars, history>>

\* A deposed leader learns that another one was elected.
Deposed(i) ==
  /\ leading[i] /\ \E j \in Node \ {i} : leading[j]
  /\ leading' = [leading EXCEPT ![i] = FALSE]
  /\ UNCHANGED <<proposals, committed, elections, last, commit, shot, applyVars,
                 loop, serverVars, appliedChan, fault, calls, timeouts, clerkVars,
                 history>>

\* Mutant: the applied index stays where it was.
ApplierTickAgain(i) ==
  /\ Up(i)
  /\ batch[i] = <<>>
  /\ applied[i] < commit[i]
  /\ batch' = [batch EXCEPT ![i] = [k \in 1..(commit[i] - applied[i]) |-> applied[i] + k]]
  /\ UNCHANGED <<raftVars, applied, pushers, queue, loop, serverVars, appliedChan,
                 fault, calls, timeouts, clerkVars, history>>

\* The applier thread takes all that is committed, under the lock of the core.
ApplierTick(i) ==
  /\ Up(i)
  /\ batch[i] = <<>>
  /\ applied[i] < commit[i]
  /\ applied' = [applied EXCEPT ![i] = commit[i]]
  /\ batch' = [batch EXCEPT ![i] = [k \in 1..(commit[i] - applied[i]) |-> applied[i] + k]]
  /\ UNCHANGED <<raftVars, pushers, queue, loop, serverVars, appliedChan, fault,
                 calls, timeouts, clerkVars, history>>

\* Without the lock it pushes them to the server, one by one.
ApplierPush(i) ==
  /\ Up(i)
  /\ batch[i] # <<>>
  /\ batch' = [batch EXCEPT ![i] = Tail(@)]
  /\ queue' = [queue EXCEPT ![i] = Append(@, <<"command", Head(batch[i])>>)]
  /\ UNCHANGED <<raftVars, applied, pushers, loop, serverVars, appliedChan, fault,
                 calls, timeouts, clerkVars, history>>

\* A leader whose log starts behind what i needs sends its snapshot; the core of
\* i takes it over and leaves it to a thread to push it to the server.
InstallSnapshot(i, j) ==
  /\ Up(i) /\ Up(j) /\ leading[j] /\ i # j
  /\ shot[j] > shot[i]
  /\ shot' = [shot EXCEPT ![i] = shot[j]]
  /\ last' = [last EXCEPT ![i] = Larger(@, shot[j])]
  /\ commit' = [commit EXCEPT ![i] = Larger(@, shot[j])]
  /\ applied' = [applied EXCEPT ![i] = Larger(@, shot[j])]
  /\ pushers' = pushers \cup {<<i, shot[j]>>}
  /\ UNCHANGED <<proposals, committed, leading, elections, batch, queue, loop,
                 serverVars, appliedChan, fault, calls, timeouts, clerkVars, history>>

PushSnapshot(i, k) ==
  /\ Up(i)
  /\ pushers' = pushers \ {<<i, k>>}
  /\ queue' = [queue EXCEPT ![i] = Append(@, <<"snapshot", k>>)]
  /\ UNCHANGED <<raftVars, applied, batch, loop, serverVars, appliedChan, fault,
                 calls, timeouts, clerkVars, history>>

-----------------------------------------------------------------------------
(* The loop over the apply queue. *)

\* Mutant: a request is taken for new while it is the latest one.
OlderRequest(i, op) == op[2] < lastRequestId[i][op[1]]

\* _L_duplicateRequest; a client that is not in the table has no request.
DuplicateRequest(i, op) == op[2] <= lastRequestId[i][op[1]]

\* A command is taken out and looked up; its index is never below the one of a
\* snapshot installed before, because no snapshot is ever installed.
CheckCommand(i) ==
  LET k == Head(queue[i])[2] IN
  /\ Up(i)
  /\ loop[i] = Idle /\ queue[i] # <<>>
  /\ Head(queue[i])[1] = "command"
  /\ queue' = [queue EXCEPT ![i] = Tail(@)]
  /\ loop' = [loop EXCEPT ![i] =
       [step |-> "checked", index |-> k,
        duplicate |-> DuplicateRequest(i, committed[k])]]
  /\ UNCHANGED <<raftVars, applied, batch, pushers, serverVars, appliedChan,
                 fault, calls, timeouts, clerkVars, history>>

\* Under a lock of its own, it is executed unless it was a duplicate then.
ExecutePutOp(i) ==
  LET op == committed[loop[i].index] IN
  /\ Up(i)
  /\ loop[i].step = "checked"
  /\ loop' = [loop EXCEPT ![i].step = "executed"]
  /\ \/ /\ loop[i].duplicate
        /\ UNCHANGED serverVars
     \/ /\ ~loop[i].duplicate
        /\ writes' = [writes EXCEPT ![i] = Append(@, op)]
        /\ lastRequestId' = [lastRequestId EXCEPT ![i][op[1]] = op[2]]
  /\ UNCHANGED <<raftVars, applyVars, appliedChan, fault, calls, timeouts,
                 clerkVars, history>>

\* _L_maySnapshot: the state file may have grown beyond the limit, and the core
\* refuses an index it has discarded.
MaySnapshot(i, k) ==
  \/ UNCHANGED shot
  \/ /\ TakesSnapshots
     /\ shot[i] < k /\ k <= commit[i]
     /\ shot' = [shot EXCEPT ![i] = k]

\* Whoever waits at this index gets the command.
TryPush2Wait(i) ==
  LET k == loop[i].index IN
  /\ Up(i)
  /\ loop[i].step = "executed"
  /\ MaySnapshot(i, k)
  /\ appliedChan' = IF appliedChan[i][k] = None THEN appliedChan
                    ELSE [appliedChan EXCEPT ![i][k] = Append(@, committed[k])]
  /\ loop' = [loop EXCEPT ![i] = Idle]
  /\ executed' = [executed EXCEPT ![i] = k]
  /\ UNCHANGED <<proposals, committed, leading, elections, last, commit,
                 applyVars, serverVars, fault, calls, timeouts, clerkVars, acked,
                 unseen>>

\* loadSnapshot read the snapshot up to its first blank, so what the leader sent
\* is the first word of the archive; _M_load throws and the process ends.
LoadSnapshot(i) ==
  /\ Up(i)
  /\ loop[i] = Idle /\ queue[i] # <<>>
  /\ Head(queue[i])[1] = "snapshot"
  /\ queue' = [queue EXCEPT ![i] = Tail(@)]
  /\ fault' = [fault EXCEPT ![i] = TRUE]
  /\ leading' = [leading EXCEPT ![i] = FALSE]
  /\ calls' = {h \in calls : h.node # i}
  /\ UNCHANGED <<proposals, committed, elections, last, commit, shot, applied,
                 batch, pushers, loop, serverVars, appliedChan, timeouts,
                 clerkVars, history>>

-----------------------------------------------------------------------------
(* Clerks. *)

\* Mutant: the clerk insists on the server that refused.
SameServer(i) == i

\* Mutant: past the last server.
ServerBehind(i) == i + 1

NextServer(i) == (i + 1) % N

\* The handler that a call starts on its server; attempt tells the calls of one
\* request apart.
Handler(c, kind, req, attempt, i) ==
  [client |-> c, kind |-> kind, req |-> req, attempt |-> attempt, node |-> i,
   step |-> "arrived", index |-> 0]

Waits(c) == call[c] # NoCall

\* put and get of the clerk: a new request goes to the server that answered last.
Call(c, kind) ==
  /\ ~Waits(c)
  /\ requestId[c] < MaxCalls
  /\ requestId' = [requestId EXCEPT ![c] = @ + 1]
  /\ call' = [call EXCEPT ![c] =
       [kind |-> kind, req |-> requestId[c] + 1, node |-> leaderId[c], attempt |-> 0]]
  /\ calls' = calls \cup {Handler(c, kind, requestId[c] + 1, 0, leaderId[c])}
  /\ UNCHANGED <<raftVars, applyVars, loop, serverVars, appliedChan, fault,
                 timeouts, leaderId, failures, history>>

\* The connection fails while the clerk waits; the handler it reached, if any,
\* goes on without it.  The clerk asks the next server, or the same one again when
\* the connection was closed under it: nothing received parses as an empty answer.
RpcFailure(c) ==
  /\ Waits(c)
  /\ failures < MaxFailures
  /\ failures' = failures + 1
  /\ \E i \in {call[c].node, NextServer(call[c].node)} :
       /\ call' = [call EXCEPT ![c].node = i, ![c].attempt = @ + 1]
       /\ calls' = calls \cup
            {Handler(c, call[c].kind, call[c].req, call[c].attempt + 1, i)}
  /\ UNCHANGED <<raftVars, applyVars, loop, serverVars, appliedChan, fault,
                 timeouts, requestId, leaderId, history>>

\* The clerk still waits for the answer of h.
Awaited(h) ==
  /\ call[h.client].kind = h.kind /\ call[h.client].req = h.req
  /\ call[h.client].attempt = h.attempt

\* Handler h ends with an answer, which returns from the call or sends the clerk
\* to the next server.  Nobody hears an answer that is no longer awaited.
Answer(h, err) ==
  /\ UNCHANGED <<requestId, failures>>
  /\ \/ /\ ~Awaited(h)
        /\ calls' = calls \ {h}
        /\ UNCHANGED <<call, leaderId, acked>>
     \/ /\ Awaited(h) /\ err = "OK"
        /\ calls' = calls \ {h}
        /\ call' = [call EXCEPT ![h.client] = NoCall]
        /\ leaderId' = [leaderId EXCEPT ![h.client] = h.node]
        /\ acked' = IF h.kind = "put" THEN acked \cup {<<h.client, h.req>>} ELSE acked
     \/ /\ Awaited(h) /\ err = "ErrWrongLeader"
        /\ calls' = (calls \ {h}) \cup
             {Handler(h.client, h.kind, h.req, h.attempt, NextServer(h.node))}
        /\ call' = [call EXCEPT ![h.client].node = NextServer(h.node)]
        /\ UNCHANGED <<leaderId, acked>>

-----------------------------------------------------------------------------
(* The handler of put. *)

Op(h) == <<h.client, h.req>>
Moves(h, step, k) == calls' = (calls \ {h}) \cup {[h EXCEPT !.step = step, !.index = k]}

\* Mutant: the index is the one behind what is committed.
ProposeBehindCommit(h) ==
  LET i == h.node  k == commit[i] + 1 IN
  /\ Up(i)
  /\ h.kind = "put" /\ h.step = "arrived"
  /\ leading[i] /\ k <= MaxIndex
  /\ proposals' = proposals \cup {<<k, Op(h)>>}
  /\ last' = [last EXCEPT ![i] = k]
  /\ Moves(h, "logged", k)
  /\ UNCHANGED <<committed, leading, elections, commit, shot, applyVars, loop,
                 serverVars, appliedChan, fault, timeouts, clerkVars, history>>

\* execute: a node that leads logs the command behind all it has received.
Propose(h) ==
  LET i == h.node IN
  /\ Up(i)
  /\ h.kind = "put" /\ h.step = "arrived"
  /\ leading[i]
  /\ \E k \in {last[i] + 1} \cup {p[1] + 1 : p \in proposals} :
       /\ last[i] < k /\ k <= MaxIndex
       /\ proposals' = proposals \cup {<<k, Op(h)>>}
       /\ last' = [last EXCEPT ![i] = k]
       /\ Moves(h, "logged", k)
  /\ UNCHANGED <<committed, leading, elections, commit, shot, applyVars, loop,
                 serverVars, appliedChan, fault, timeouts, clerkVars, history>>

\* Any other node refuses.
Refuse(h) ==
  /\ Up(h.node)
  /\ h.kind = "put" /\ h.step = "arrived"
  /\ ~leading[h.node]
  /\ Answer(h, "ErrWrongLeader")
  /\ UNCHANGED <<raftVars, applyVars, loop, serverVars, appliedChan, fault,
                 timeouts, executed, unseen>>

\* A queue is registered at the index, by when the command may be long executed.
Register(h) ==
  LET i == h.node IN
  /\ Up(i)
  /\ h.step = "logged"
  /\ Moves(h, "waiting", h.index)
  /\ appliedChan' = [appliedChan EXCEPT ![i][h.index] = IF @ = None THEN <<>> ELSE @]
  /\ UNCHANGED <<raftVars, applyVars, loop, serverVars, fault, timeouts,
                 clerkVars, history>>

Unregister(h) == appliedChan' = [appliedChan EXCEPT ![h.node][h.index] = None]

\* Mutant: whatever was executed at the index is the answer.
PopAny(h) ==
  LET received == appliedChan[h.node][h.index] IN
  /\ Up(h.node)
  /\ h.step = "waiting" /\ received # <<>>
  /\ Answer(h, "OK")
  /\ Unregister(h)
  /\ UNCHANGED <<raftVars, applyVars, loop, serverVars, fault, timeouts,
                 executed, unseen>>

\* The command executed at the index comes; another leader's may have taken it.
Pop(h) ==
  LET received == appliedChan[h.node][h.index] IN
  /\ Up(h.node)
  /\ h.step = "waiting" /\ received # <<>>
  /\ Answer(h, IF Head(received) = Op(h) THEN "OK" ELSE "ErrWrongLeader")
  /\ Unregister(h)
  /\ UNCHANGED <<raftVars, applyVars, loop, serverVars, fault, timeouts,
                 executed, unseen>>

\* Nothing comes for RAFT_CONSENSUS_TIME; MaxTimeouts bounds how often that happens
\* to a command that was not executed.
GiveUp(h) ==
  /\ Up(h.node)
  /\ h.step = "waiting" /\ appliedChan[h.node][h.index] = <<>>
  /\ \/ DuplicateRequest(h.node, Op(h)) /\ UNCHANGED timeouts
     \/ /\ ~DuplicateRequest(h.node, Op(h))
        /\ timeouts < MaxTimeouts /\ timeouts' = timeouts + 1
  /\ Moves(h, "gave up", h.index)
  /\ UNCHANGED <<raftVars, applyVars, loop, serverVars, appliedChan, fault,
                 clerkVars, history>>

\* Mutant: a put that timed out is believed to be on its way.
AfterTimeoutOptimistic(h) ==
  /\ Up(h.node)
  /\ h.step = "gave up"
  /\ Answer(h, "OK")
  /\ Unregister(h)
  /\ UNCHANGED <<raftVars, applyVars, loop, serverVars, fault, timeouts,
                 executed, unseen>>

\* Executed all the same, or refused.
AfterTimeout(h) ==
  /\ Up(h.node)
  /\ h.step = "gave up"
  /\ Answer(h, IF DuplicateRequest(h.node, Op(h)) THEN "OK" ELSE "ErrWrongLeader")
  /\ Unregister(h)
  /\ UNCHANGED <<raftVars, applyVars, loop, serverVars, fault, timeouts,
                 executed, unseen>>

-----------------------------------------------------------------------------
(* The handler of get, in a read thread. *)

\* waitApplied takes the commit index.
WaitApplied(h) ==
  /\ Up(h.node)
  /\ h.kind = "get" /\ h.step = "arrived"
  /\ Moves(h, "reading", commit[h.node])
  /\ UNCHANGED <<raftVars, applyVars, loop, serverVars, appliedChan, fault,
                 timeouts, clerkVars, history>>

\* Everything committed then has been handed up: the table is read, and the
\* request is noted as the client's latest on this node.  A key that is not there
\* gets no answer.
ExecuteGetOp(h) ==
  LET i == h.node IN
  /\ Up(i)
  /\ h.step = "reading" /\ applied[i] >= h.index
  /\ lastRequestId' = [lastRequestId EXCEPT ![i][h.client] = h.req]
  /\ \/ /\ writes[i] # <<>>
        /\ Answer(h, "OK")
        /\ unseen' = IF \E a \in acked : a[1] = h.client /\ a \notin Elements(writes[i])
                       THEN unseen \cup {Op(h)} ELSE unseen
     \/ /\ writes[i] = <<>>
        /\ calls' = calls \ {h}
        /\ UNCHANGED <<clerkVars, acked, unseen>>
  /\ UNCHANGED <<raftVars, applyVars, loop, writes, appliedChan, fault, timeouts,
                 executed>>

\* The wait ends without it: no answer either.
WaitAppliedTimeout(h) ==
  /\ Up(h.node)
  /\ h.step = "reading" /\ applied[h.node] < h.index
  /\ calls' = calls \ {h}
  /\ UNCHANGED <<raftVars, applyVars, loop, serverVars, appliedChan, fault,
                 timeouts, clerkVars, history>>

-----------------------------------------------------------------------------

RaftStep(i) ==
  \/ Learn(i) \/ Elected(i) \/ Deposed(i) \/ ApplierTick(i) \/ ApplierPush(i)
  \/ \E j \in Node : InstallSnapshot(i, j)
  \/ \E p \in pushers : p[1] = i /\ PushSnapshot(i, p[2])

LoopStep(i) ==
  CheckCommand(i) \/ ExecutePutOp(i) \/ TryPush2Wait(i) \/ LoadSnapshot(i)

HandlerStep(h) ==
  \/ Propose(h) \/ Refuse(h) \/ Register(h) \/ Pop(h) \/ GiveUp(h) \/ AfterTimeout(h)
  \/ WaitApplied(h) \/ ExecuteGetOp(h) \/ WaitAppliedTimeout(h)

Next ==
  \/ Commit
  \/ \E i \in Node : RaftStep(i) \/ LoopStep(i)
  \/ \E h \in calls : HandlerStep(h)
  \/ \E c \in Client : RpcFailure(c) \/ \E kind \in Kinds : Call(c, kind)

Spec == Init /\ [][Next]_vars

(* Every thread is scheduled: the core's threads, the loop, the handlers.  The   *)
(* bounds leave out elections and failures; nobody has to call.               *)
FairSpec ==
  /\ Spec
  /\ WF_vars(Commit)
  /\ \A i \in Node :
       /\ WF_vars(Learn(i)) /\ WF_vars(ApplierTick(i)) /\ WF_vars(ApplierPush(i))
       /\ WF_vars(LoopStep(i))
       /\ \A c \in Client :
            WF_vars(\E h \in calls : h.client = c /\ h.node = i /\ HandlerStep(h))
=============================================================================
