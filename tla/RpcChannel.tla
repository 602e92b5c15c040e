---------------------------- MODULE RpcChannel -----------------------------
(***************************************************************************)
(* The remote calls: the threads of a process that call through            *)
(* mprpcChannel, the connections, and the rpcProvider of the peer with its *)
(* io threads and its pool of reading threads.                             *)
(*                                                                         *)
(* A channel is one object with one socket, _M_clientFd, and no lock.  The *)
(* threads of raft that talk to one peer (heartbeat, vote, snapshot) share *)
(* a channel; a clerk has one for itself.  ChannelOf says who shares.      *)
(*                                                                         *)
(* A connection carries requests and answers as streams: what has arrived  *)
(* when the reader looks is read as one buffer.  The peer's process may    *)
(* crash and come back; its connections are then ended, with what the      *)
(* reader sees as an end of file ("fin"), or with a reset when the peer    *)
(* left bytes unread ("rst").  Bytes sent to an ended connection come back *)
(* as a reset ("gone"): recv still finds the end of file, send fails.      *)
(* A request or answer that arrives in pieces, and an answer longer than   *)
(* the 1024 bytes of the reader's buffer, are left out.                    *)
(***************************************************************************)
EXTENDS RpcWire, FiniteSets, SequencesExt

CONSTANTS Caller, Channel, IoThread, Worker,
          ChannelOf,   \* [Caller -> Channel]
          MethodsOf,   \* [Caller -> SUBSET Method]
          Nil,
          MissingKeys, \* whether a get may miss its key
          MaxCalls,    \* bound: [Caller -> number of calls]
          MaxConns,    \* bound: sockets opened
          MaxCrashes   \* bound: crashes of the peer

ASSUME RpcAssumption ==
  /\ ChannelOf \in [Caller -> Channel]
  /\ MethodsOf \in [Caller -> SUBSET Method] /\ MissingKeys \in BOOLEAN
  /\ MaxCalls \in [Caller -> Nat] /\ MaxConns \in Nat /\ MaxCrashes \in Nat

Conn == 1 .. MaxConns
NoFd == 0              \* the value -1 of _M_clientFd
Call == UNION {{t} \X (1 .. MaxCalls[t]) : t \in Caller}

VARIABLES
  fd,       \* [Channel -> Conn \cup {NoFd}]: _M_clientFd
  conns,    \* how many sockets were opened
  status,   \* [Conn -> "free" | "socket" | "up" | "fin" | "gone" | "rst" | "closed"]
  requests, \* [Conn -> Seq(request)]: sent, not read by the peer
  answers,  \* [Conn -> Seq(answer)]: sent by the peer, not received
  pc,       \* [Caller -> where CallMethod is]
  calls,    \* [Caller -> number of the call under way or of the last one]
  current,  \* [Caller -> [method, args]]: that call
  sock,     \* [Caller -> the connection recv waits on]
  outcome,  \* [Caller -> [ok, reply, eof]]: how the last call ended
  up,       \* whether the peer's process runs
  crashes,
  io,       \* [Conn -> io thread the connection was given]
  busy,     \* [IoThread -> the request being handled, or Nil]
  tasks,    \* Seq(request): the queue of the pool
  working,  \* [Worker -> the request being handled, or Nil]
  ran,      \* [Call -> how often the peer ran it]     (history)
  got,      \* [Call -> arguments the handler was given] (history)
  given     \* [Call -> the reply of the handler, or Nil] (history)

client == <<fd, conns, pc, calls, current, sock, outcome>>
net == <<status, requests, answers>>
peer == <<up, crashes, io, busy, tasks, working, ran, got, given>>
vars == <<client, net, peer>>

-----------------------------------------------------------------------------
(* The arguments and the replies that occur: one or two of each method.    *)

Entry == [command |-> "op", term |-> 1, index |-> 1]
Arguments(m) ==
  CASE m = "appendEntries" ->
         {[term |-> 1, leader_id |-> 0, prev_log_index |-> 0,
           prev_log_term |-> 0, entries |-> es, leader_commit |-> 0] :
            es \in {<<>>, <<Entry>>}}
    [] m = "installSnapshot" ->
         {[leader_id |-> 0, term |-> 1, last_index |-> 1, last_term |-> 1,
           data |-> "shot"]}
    [] m = "requestVote" ->
         {[term |-> 1, candidate_id |-> 0, last_log_index |-> 0,
           last_log_term |-> 0]}
    [] m = "put" ->
         {[key |-> "k", value |-> v, clientId |-> "c", requestId |-> 1] :
            v \in {"", "v"}}
    [] m = "get" -> {[key |-> "k", clientId |-> "c", requestId |-> 0]}

AppendReplies ==
  {[term |-> 1, success |-> TRUE, update_next_index |-> 0,
    state |-> netState.CONNECTED],
   [term |-> 1, success |-> FALSE, update_next_index |-> 1,
    state |-> netState.CONNECTED]}
VoteReplies ==
  {[term |-> 1, vote_granted |-> TRUE, state |-> voteState.NORMAL],
   [term |-> 1, vote_granted |-> FALSE, state |-> voteState.VOTED]}
(* A snapshot that is not newer than the peer's gets a reply without any   *)
(* field set.                                                              *)
SnapshotReplies == {[term |-> 1], [term |-> 0]}
PutReplies == {[err |-> "OK"]}
GetReplies ==
  {[err |-> "OK", value |-> "v"], [err |-> "OK", value |-> ""]} \cup
    (IF MissingKeys THEN {[err |-> "ErrNoKey", value |-> ""]} ELSE {})

Replies(m) ==
  CASE m = "appendEntries" -> AppendReplies
    [] m = "requestVote" -> VoteReplies
    [] m = "installSnapshot" -> SnapshotReplies
    [] m = "put" -> PutReplies
    [] m = "get" -> GetReplies

ASSUME NilAssumption == \A m \in Method : Nil \notin Replies(m)

(* The header and the serialized arguments that CallMethod puts together.  *)
(* "of" names the call the request belongs to; the program does not have   *)
(* it, no action looks at it.                                              *)
Request(t) ==
  LET m == current[t].method IN
  [header |-> SerializeFlat(RpcHeaderFields,
                [service_name |-> ServiceOf(m), method_name |-> m,
                 args_size |-> Len(SerializeRequest(m, current[t].args))]),
   args |-> SerializeRequest(m, current[t].args),
   of |-> <<t, calls[t]>>]

-----------------------------------------------------------------------------
Init ==
  \* the constructor connects when it is told to and the peer listens
  /\ \E S \in SUBSET Channel :
       /\ fd = CHOOSE f \in [Channel -> Conn \cup {NoFd}] :
                 /\ \A h \in Channel : (f[h] # NoFd) <=> (h \in S)
                 /\ {f[h] : h \in S} = 1 .. Cardinality(S)
       /\ conns = Cardinality(S)
       /\ status = [k \in Conn |-> IF k <= conns THEN "up" ELSE "free"]
  /\ requests = [k \in Conn |-> <<>>]
  /\ answers = [k \in Conn |-> <<>>]
  /\ pc = [t \in Caller |-> "idle"]
  /\ calls = [t \in Caller |-> 0]
  /\ current = [t \in Caller |-> Nil]
  /\ sock = [t \in Caller |-> NoFd]
  /\ outcome = [t \in Caller |-> Nil]
  /\ up = TRUE
  /\ crashes = 0
  /\ io \in [Conn -> IoThread]
  /\ busy = [i \in IoThread |-> Nil]
  /\ tasks = <<>>
  /\ working = [w \in Worker |-> Nil]
  /\ ran = [c \in Call |-> 0]
  /\ got = [c \in Call |-> Nil]
  /\ given = [c \in Call |-> Nil]

-----------------------------------------------------------------------------
(* The caller's side: mprpcChannel::CallMethod.                            *)

Fd(t) == fd[ChannelOf[t]]

(* _M_close: whatever connection the channel has now.                      *)
CloseFd(t) ==
  /\ fd' = [fd EXCEPT ![ChannelOf[t]] = NoFd]
  /\ status' = IF Fd(t) = NoFd THEN status
               ELSE [status EXCEPT ![Fd(t)] = "closed"]

Return(t, ok, reply, eof) ==
  /\ pc' = [pc EXCEPT ![t] = "idle"]
  /\ outcome' = [outcome EXCEPT ![t] =
                   [ok |-> ok, reply |-> reply, eof |-> eof]]
Fail(t) == Return(t, FALSE, Nil, FALSE)

Begin(t) ==
  /\ pc[t] = "idle" /\ calls[t] < MaxCalls[t]
  /\ calls' = [calls EXCEPT ![t] = @ + 1]
  /\ \E m \in MethodsOf[t] : \E a \in Arguments(m) :
       current' = [current EXCEPT ![t] = [method |-> m, args |-> a]]
  /\ pc' = [pc EXCEPT ![t] = IF Fd(t) = NoFd THEN "socket" ELSE "send"]
  /\ outcome' = [outcome EXCEPT ![t] = Nil]
  /\ UNCHANGED <<fd, conns, sock, net, peer>>

(* _M_connect, up to the call of connect.                                  *)
OpenSocket(t) ==
  /\ pc[t] = "socket" /\ conns < MaxConns
  /\ conns' = conns + 1
  /\ fd' = [fd EXCEPT ![ChannelOf[t]] = conns + 1]
  /\ status' = [status EXCEPT ![conns + 1] = "socket"]
  /\ pc' = [pc EXCEPT ![t] = "connect"]
  /\ UNCHANGED <<calls, current, sock, outcome, requests, answers, peer>>

(* connect fails when the peer does not listen, and on a socket that       *)
(* another thread closed or connected meanwhile.                           *)
Connect(t) ==
  /\ pc[t] = "connect"
  /\ IF Fd(t) # NoFd /\ status[Fd(t)] = "socket" /\ up
     THEN /\ status' = [status EXCEPT ![Fd(t)] = "up"]
          /\ pc' = [pc EXCEPT ![t] = "send"]
          /\ UNCHANGED <<fd, outcome>>
     ELSE CloseFd(t) /\ Fail(t)
  /\ UNCHANGED <<conns, calls, current, sock, requests, answers, peer>>

(* send returns as soon as the kernel has taken the bytes: on a connection *)
(* the peer has ended they are lost and a reset comes back.                *)
Send(t) ==
  /\ pc[t] = "send" /\ Fd(t) # NoFd
  /\ \/ /\ status[Fd(t)] = "up"
        /\ requests' = [requests EXCEPT ![Fd(t)] = Append(@, Request(t))]
        /\ UNCHANGED status
     \/ /\ status[Fd(t)] = "fin"
        /\ \E s \in {"fin", "gone"} : status' = [status EXCEPT ![Fd(t)] = s]
        /\ UNCHANGED requests
  /\ pc' = [pc EXCEPT ![t] = "recv"]
  /\ UNCHANGED <<fd, conns, calls, current, sock, outcome, answers, peer>>

(* send returns -1: close, connect and send again.                         *)
SendFails(t) ==
  /\ pc[t] = "send"
  /\ Fd(t) # NoFd => status[Fd(t)] \in {"socket", "gone", "rst"}
  /\ CloseFd(t)
  /\ pc' = [pc EXCEPT ![t] = "socket"]
  /\ UNCHANGED <<conns, calls, current, sock, outcome, requests, answers,
                 peer>>

(* The call of recv reads the descriptor once more.                        *)
CallRecv(t) ==
  /\ pc[t] = "recv"
  /\ pc' = [pc EXCEPT ![t] = "wait"]
  /\ sock' = [sock EXCEPT ![t] = Fd(t)]
  /\ UNCHANGED <<fd, conns, calls, current, outcome, net, peer>>

(* A mutant of Receive: the answer stays in the socket.                    *)
ReceivePeeks(t) ==
  LET k == sock[t] IN
  /\ pc[t] = "wait" /\ k # NoFd /\ status[k] # "rst" /\ answers[k] # <<>>
  /\ Return(t, TRUE, ParseResponse(current[t].method, answers[k][1]), FALSE)
  /\ sock' = [sock EXCEPT ![t] = NoFd]
  /\ UNCHANGED <<fd, conns, calls, current, net, peer>>

(* recv returns what has arrived, the answers of one or more requests.     *)
Receive(t) ==
  LET k == sock[t] IN
  /\ pc[t] = "wait" /\ k # NoFd /\ status[k] # "rst"
  /\ \E n \in 1 .. Len(answers[k]) :
       /\ Return(t, TRUE, ParseResponse(current[t].method,
                                        FlattenSeq(SubSeq(answers[k], 1, n))),
                 FALSE)
       /\ answers' = [answers EXCEPT ![k] = SubSeq(@, n + 1, Len(@))]
  /\ sock' = [sock EXCEPT ![t] = NoFd]
  /\ UNCHANGED <<fd, conns, calls, current, status, requests, peer>>

(* Mutants of ReceiveEof: the loop goes on until bytes come; the reply is  *)
(* not touched; the request is sent again on a new connection.             *)
EofIsAwaited(t) ==
  LET k == sock[t] IN
  /\ pc[t] = "wait" /\ k # NoFd
  /\ status[k] \in {"fin", "gone"} /\ answers[k] = <<>>
  /\ pc' = [pc EXCEPT ![t] = "recv"]
  /\ UNCHANGED <<fd, conns, calls, current, sock, outcome, net, peer>>
EofLeavesReply(t) ==
  LET k == sock[t] IN
  /\ pc[t] = "wait" /\ k # NoFd
  /\ status[k] \in {"fin", "gone"} /\ answers[k] = <<>>
  /\ Return(t, TRUE, Nil, TRUE)
  /\ sock' = [sock EXCEPT ![t] = NoFd]
  /\ UNCHANGED <<fd, conns, calls, current, net, peer>>

EofSendsAgain(t) ==
  LET k == sock[t] IN
  /\ pc[t] = "wait" /\ k # NoFd
  /\ status[k] \in {"fin", "gone"} /\ answers[k] = <<>>
  /\ CloseFd(t)
  /\ pc' = [pc EXCEPT ![t] = "socket"]
  /\ sock' = [sock EXCEPT ![t] = NoFd]
  /\ UNCHANGED <<conns, calls, current, outcome, requests, answers, peer>>

(* recv returns 0: nothing is parsed, successfully.                        *)
ReceiveEof(t) ==
  LET k == sock[t] IN
  /\ pc[t] = "wait" /\ k # NoFd
  /\ status[k] \in {"fin", "gone"} /\ answers[k] = <<>>
  /\ Return(t, TRUE, ParseResponse(current[t].method, <<>>), TRUE)
  /\ sock' = [sock EXCEPT ![t] = NoFd]
  /\ UNCHANGED <<fd, conns, calls, current, net, peer>>

(* recv returns -1.                                                        *)
ReceiveFails(t) ==
  /\ pc[t] = "wait"
  /\ sock[t] # NoFd => status[sock[t]] = "rst"
  /\ CloseFd(t)
  /\ Fail(t)
  /\ sock' = [sock EXCEPT ![t] = NoFd]
  /\ UNCHANGED <<conns, calls, current, requests, answers, peer>>

-----------------------------------------------------------------------------
(* The peer's side.                                                        *)

Reaches(k) == status[k] \in {"up", "closed"}

(* _M_onMessage: the io thread of the connection takes the whole buffer,   *)
(* decodes the first request in it and runs its handler; get is pushed on  *)
(* the queue of the pool.                                                  *)
OnMessage(k) ==
  /\ up /\ Reaches(k) /\ busy[io[k]] = Nil
  /\ \E n \in 1 .. Len(requests[k]) :
       requests' = [requests EXCEPT ![k] = SubSeq(@, n + 1, Len(@))]
  /\ LET r == Head(requests[k])
         m == ParseFlat(RpcHeaderFields, r.header).method_name
         job == [conn |-> k, method |-> m, of |-> r.of, reply |-> Nil]
     IN  /\ got' = [got EXCEPT ![r.of] = ParseRequest(m, r.args)]
         /\ IF m = "get"
            THEN tasks' = Append(tasks, job) /\ UNCHANGED busy
            ELSE busy' = [busy EXCEPT ![io[k]] = job] /\ UNCHANGED tasks
  /\ UNCHANGED <<client, status, answers, up, crashes, io, working, ran,
                 given>>

(* The handler of the service runs.                                        *)
Run(job, reply) ==
  /\ job # Nil /\ job.reply = Nil
  /\ reply \in Replies(job.method)
  /\ ran' = [ran EXCEPT ![job.of] = @ + 1]
  /\ given' = [given EXCEPT ![job.of] = reply]

(* _M_senRPCResponse, which the handler calls last, serializes the reply   *)
(* and sends it; an empty string sends nothing.                            *)
SendResponse(job) ==
  /\ job # Nil /\ job.reply # Nil
  /\ LET wire == SerializeResponse(job.method, job.reply) IN
     answers' = IF Reaches(job.conn) /\ wire # <<>>
                THEN [answers EXCEPT ![job.conn] = Append(@, wire)]
                ELSE answers

(* put and the methods of raft run in the io thread of the connection.     *)
HandleRun(i) ==
  \E r \in UNION {Replies(m) : m \in Method} :
    /\ Run(busy[i], r)
    /\ busy' = [busy EXCEPT ![i].reply = r]
    /\ UNCHANGED <<client, net, up, crashes, io, tasks, working, got>>
HandleSend(i) ==
  /\ SendResponse(busy[i])
  /\ busy' = [busy EXCEPT ![i] = Nil]
  /\ UNCHANGED <<client, status, requests, up, crashes, io, tasks, working,
                 ran, got, given>>

(* A thread of the pool runs gets.  One that misses its key returns before *)
(* it would have its reply sent.                                           *)
TakeTask(w) ==
  /\ working[w] = Nil /\ tasks # <<>>
  /\ working' = [working EXCEPT ![w] = Head(tasks)]
  /\ tasks' = Tail(tasks)
  /\ UNCHANGED <<client, net, up, crashes, io, busy, ran, got, given>>
TaskRun(w) ==
  \E r \in Replies("get") :
    /\ Run(working[w], r)
    /\ working' = IF r.err = "OK" THEN [working EXCEPT ![w].reply = r]
                                 ELSE [working EXCEPT ![w] = Nil]
    /\ UNCHANGED <<client, net, up, crashes, io, busy, tasks, got>>
TaskSend(w) ==
  /\ SendResponse(working[w])
  /\ working' = [working EXCEPT ![w] = Nil]
  /\ UNCHANGED <<client, status, requests, up, crashes, io, busy, tasks,
                 ran, got, given>>

-----------------------------------------------------------------------------
(* The process of the peer ends: its side of the connections is closed, a  *)
(* connection with unread requests is reset.                               *)
Crash ==
  /\ up /\ crashes < MaxCrashes
  /\ up' = FALSE
  /\ crashes' = crashes + 1
  /\ status' = [k \in Conn |-> IF ~ Reaches(k) THEN status[k]
                               ELSE IF requests[k] = <<>> THEN "fin"
                               ELSE "rst"]
  /\ requests' = [k \in Conn |-> <<>>]
  /\ busy' = [i \in IoThread |-> Nil]
  /\ tasks' = <<>>
  /\ working' = [w \in Worker |-> Nil]
  /\ UNCHANGED <<client, answers, io, ran, got, given>>

Restart ==
  /\ ~ up
  /\ up' = TRUE
  /\ UNCHANGED <<client, net, crashes, io, busy, tasks, working, ran, got,
                 given>>

CallerStep(t) ==
  \/ OpenSocket(t) \/ Connect(t) \/ Send(t) \/ SendFails(t) \/ CallRecv(t)
  \/ Receive(t) \/ ReceiveEof(t) \/ ReceiveFails(t)

PeerStep ==
  \/ \E k \in Conn : OnMessage(k)
  \/ \E i \in IoThread : HandleRun(i) \/ HandleSend(i)
  \/ \E w \in Worker : TakeTask(w) \/ TaskRun(w) \/ TaskSend(w)

Next ==
  \/ \E t \in Caller : Begin(t) \/ CallerStep(t)
  \/ PeerStep
  \/ Crash
  \/ Restart

Spec == Init /\ [][Next]_vars

(* Threads that can go on do, and handlers end.  Nobody has to call, and a *)
(* crashed peer need not come back.  Within the bounds every thread takes  *)
(* finitely many steps, so that one condition serves for all of them.      *)
Fairness == WF_vars((\E t \in Caller : CallerStep(t)) \/ PeerStep)
FairSpec == Spec /\ Fairness
=============================================================================
