--------------------------- MODULE RpcProperties ---------------------------
(***************************************************************************)
(* What a caller may rely on when a remote call returns.                   *)
(***************************************************************************)
EXTENDS RpcChannel

-----------------------------------------------------------------------------
(* The values of the variables.  mprpcChannel.h, rpcProvider.h.            *)
IsJob(j) ==
  /\ j.conn \in Conn /\ j.method \in Method /\ j.of \in Call
  /\ j.reply # Nil => j.reply \in ResponseMessages(j.method)
TypeOK ==
  /\ fd \in [Channel -> Conn \cup {NoFd}] /\ conns \in 0 .. MaxConns
  /\ status \in [Conn -> {"free", "socket", "up", "fin", "gone", "rst", "closed"}]
  /\ pc \in [Caller -> {"idle", "socket", "connect", "send", "recv", "wait"}]
    /\ \A t \in Caller :
       /\ calls[t] \in 0 .. MaxCalls[t]
       /\ sock[t] \in Conn \cup {NoFd}
       /\ pc[t] # "idle" => current[t].args \in
                              RequestMessages(current[t].method)
       /\ outcome[t] # Nil /\ outcome[t].ok =>
            outcome[t].reply \in ResponseMessages(current[t].method)
  /\ up \in BOOLEAN /\ crashes \in 0 .. MaxCrashes
  /\ io \in [Conn -> IoThread]
  /\ \A i \in IoThread : busy[i] # Nil => IsJob(busy[i])
  /\ \A w \in Worker : working[w] # Nil => IsJob(working[w])
  /\ \A n \in DOMAIN tasks : IsJob(tasks[n])
  /\ ran \in [Call -> Nat]

(* The call of t that returned last.                                       *)
LastCall(t) == <<t, calls[t]>>
Succeeded(t) == outcome[t] # Nil /\ outcome[t].ok

-----------------------------------------------------------------------------
(* An answer that CallMethod returns is, field by field, the reply the     *)
(* peer's handler gave to this very call, and the handler ran once, though *)
(* the peer may crash and the request be sent again on a new connection    *)
(* (mprpcChannel.cpp:84-113, rpcProvider.cpp:158).                         *)
OwnAnswer ==
  \A t \in Caller : Succeeded(t) /\ ~ outcome[t].eof =>
    /\ given[LastCall(t)] = outcome[t].reply
    /\ ran[LastCall(t)] = 1

(* The loop that sends again never makes the peer run a call twice, whether*)
(* the call returns or fails: a request is sent anew only when the         *)
(* connection took none of it (mprpcChannel.cpp:84).                       *)
NothingTwice == \A c \in Call : ran[c] <= 1

-----------------------------------------------------------------------------
(* The inductive invariant behind NothingTwice.                            *)

(* A handler's job that has not run yet.                                   *)
Unrun(job) == job # Nil /\ job.reply = Nil

(* Where the request of c is while it has not run: on a connection, in the *)
(* hands of an io thread, in the pool's queue, in a thread of the pool.    *)
Places(c) ==
  (UNION {{<<"request", k, n>> :
             n \in {m \in DOMAIN requests[k] : requests[k][m].of = c}} : k \in Conn})
    \cup {<<"busy", i, 0>> :
            i \in {j \in IoThread : Unrun(busy[j]) /\ busy[j].of = c}}
    \cup {<<"task", 0, n>> : n \in {m \in DOMAIN tasks : tasks[m].of = c}}
    \cup {<<"working", w, 0>> :
            w \in {v \in Worker : Unrun(working[v]) /\ working[v].of = c}}

(* CallMethod has left the loop around send for call c.                    *)
Sent(c) ==
  \/ c[2] < calls[c[1]]
  \/ c[2] = calls[c[1]] /\ pc[c[1]] \notin {"socket", "connect", "send"}

(* A request is in one place at a time, and only between its send and its  *)
(* run.                                                                    *)
SentOnce(c) ==
  LET places == Places(c) IN
  /\ \A p, q \in places : p = q
  /\ places # {} => Sent(c) /\ ran[c] = 0
  /\ ran[c] # 0 => Sent(c)

IsSeq(s) == s \in Seq(Range(s))
IsWhole(j) ==
  j = [conn |-> j.conn, method |-> j.method, of |-> j.of, reply |-> j.reply]
RequestsTypes ==
  /\ requests \in [Conn -> {requests[k] : k \in Conn}]
  /\ \A k \in Conn : IsSeq(requests[k])
  /\ IsSeq(tasks) /\ \A j \in Range(tasks) : IsWhole(j)
  /\ busy \in [IoThread -> {busy[i] : i \in IoThread}]
  /\ working \in [Worker -> {working[w] : w \in Worker}]
  /\ \A i \in IoThread : Unrun(busy[i]) => IsWhole(busy[i])
  /\ \A w \in Worker : Unrun(working[w]) => IsWhole(working[w])
  /\ io \in [Conn -> IoThread]
  /\ pc \in [Caller -> {"idle", "socket", "connect", "send", "recv", "wait"}]
  /\ calls \in [Caller -> Nat] /\ ran \in [Call -> {0, 1}]
RequestsInv == RequestsTypes /\ \A c \in Call : SentOnce(c)

-----------------------------------------------------------------------------
(* A handler gets the arguments its caller passed, through both            *)
(* serializations and the service's dispatch: nobody reads the arguments   *)
(* of another call or of another method (rpcProvider.cpp:99-155).          *)
ArgumentsArrive ==
  \A t \in Caller : pc[t] # "idle" /\ got[LastCall(t)] # Nil =>
    got[LastCall(t)] = current[t].args

(* A mutant of Heeded: the state of the reply is not looked at.            *)
HeededAnyState(m, reply) ==
  m = "appendEntries" \/ (m = "requestVote" /\ reply.vote_granted)

(* What the threads of raft act on: a heartbeat's answer whose state the   *)
(* peer set, a vote that is granted.                                       *)
Heeded(m, reply) ==
  \/ m = "appendEntries" /\ reply.state # netState.DISCONNECTED
  \/ m = "requestVote" /\ reply.vote_granted

(* No heartbeat is counted and no vote taken that the peer did not give:   *)
(* when the peer crashes before it answers, CallMethod succeeds with an    *)
(* empty message, and raft must not take that for an answer                *)
(* (raft.cpp:353, raft.cpp:449).                                           *)
HeededIsGiven ==
  \A t \in Caller : Succeeded(t) /\ Heeded(current[t].method, outcome[t].reply)
    => given[LastCall(t)] = outcome[t].reply

(* Every call returns, with an answer or a failure, whatever the peer's    *)
(* crashes: the socket's end wakes the thread that waits, and a dead peer  *)
(* fails the connect (mprpcChannel.cpp:31-113).                            *)
CallsReturn == \A t \in Caller : pc[t] # "idle" ~> pc[t] = "idle"

-----------------------------------------------------------------------------
(* raft.cpp:378, of the lines that count an answer and move matchIndex:    *)
(* "the push succeeded".  A heartbeat whose thread reads success was       *)
(* accepted by the peer, with the entries of this heartbeat.  Rounds of    *)
(* heartbeats overlap and their threads share the channel of a peer        *)
(* (raft.cpp:297, raftHelper.cpp:21).                                      *)
PushIsDone ==
  \A t \in Caller :
    /\ Succeeded(t)
    /\ current[t].method = "appendEntries"
    /\ outcome[t].reply.success
    => given[LastCall(t)] # Nil /\ given[LastCall(t)].success
=============================================================================
