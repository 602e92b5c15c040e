# RaftKVStorage in TLA+

RaftKVStorage is a replicated key-value store: clients (`clerk`) send get and
put calls over a home-made RPC layer to servers (`kvServer`), each of which sits
on a node of a Raft cluster (`class raft`).  This directory holds TLA+ models of
its parts, their TLC configurations, and proofs checked by TLAPS.  All
definitions follow the code; `PROJECT.json` names the lines behind each one.

Paths below are relative to the repository's `src/`.

## The system

| component | state | operations | works with |
|---|---|---|---|
| consensus core, `raft/src/core/raft.cpp`, `raft/include/core/raft.h` | term, vote, identity, log (a deque), snapshot index and term, commit and applied index, next and match index per peer; counters shared by the threads of one candidacy or one heartbeat round | `execute`, `_L_stand4Election`, `_L_heartBeat`, `_L_sendRequestVote`, `_L_sendAppendEntries`, `_L_sendSnapshot`, `_L_requestVote`, `_L_appendEntries`, `_L_installSnapshot`, `persist`, the applier and the daemon thread | its peers by RPC from detached threads; the server above through the apply queue and `execute`/`persist`; the persister |
| persister, `raft/src/core/persister.cpp` | a state file, a snapshot file | constructor (truncates both), `persist`, `loadState`, `loadSnapshot` | the core |
| key-value server, `raft/src/core/kvServer.cpp` | the table, the last request of each client, a queue per log index somebody waits at, the index of the last snapshot | `put`, `get`, the loop over the apply queue, `_L_maySnapshot`, `_L_installSnapshot` | clerks by RPC, the core |
| clerk, `raft/src/clerk/` | client id, request number, believed leader | `get`, `put`: retry over the servers until one answers | key-value servers |
| skip list, `skipList/include/`, `raft/include/core/kvSkipList.h` | levels of linked nodes | find, insert, erase, dump, load | the table of the key-value server |
| RPC channel, `rpc/mprpcChannel.cpp` | one socket per peer, shared by all calling threads | `CallMethod`: connect, send, receive once | provider |
| RPC provider, `rpc/rpcProvider.cpp` | services, muduo's connections | one request per readable buffer | the handlers of core and server |
| utilities, `utils.h` | `safequeue`, `threadPool` | push, pop, pop with timeout; run, push, stop | core and key-value server |
| generated code, `*.pb.cc`, `*.pb.h` | | reading and writing of messages, dispatch | channel and provider |
| coroutines, `cort/` | scheduler, I/O manager, timers, hooked system calls, locks | `addTask`, `resume`, `yield`, `addEvent`, `delEvent`, `cancelEvent`, `addTimer`, `refresh` | each other; the core holds a pointer to an I/O manager it never creates |
| examples, RPC configuration | | | |

What is hard here, and why a test would not reach it:

- every RPC is made from a detached thread without the lock; its answer is
  handled under the lock whenever it arrives, against a state that may have moved
  on by terms.  Votes and acknowledgements are counted in heap counters shared
  by the threads of one candidacy or one round;
- calls are lost, delayed and reordered, and a peer that dies while it handles a
  call answers it with an empty reply;
- five handlers move the four indexes (snapshot, applied, commit, last), each of
  them at one end, and checks in detached threads throw when they disagree;
- conflicting entries are replaced in place, so logs do not have the shape the
  Raft paper argues from;
- a process may end and start again between any two steps;
- commands and snapshots reach the key-value server through a queue that is
  filled after the lock is released, while put and get handlers, the applier and the loop
  share its tables a few lines at a time;
- a clerk repeats what failed at other servers, while its earlier attempts go on.

What makes each part correct: the core elects one leader per term, keeps its
indexes in order, never throws at its own checks, saves what it must before it
answers, commits what a majority's logs reach and never takes back what it
committed; the server applies every put once and in the order of the log, and
answers a put only when it is applied; the clerk returns once a server answered; the
channel gives every call its own answer; the queue loses nothing and delivers
in order; the scheduler runs every task, once; an event registered is delivered or
cancelled, once.  `hazards` in `PROJECT.json` lists the places where each of these
could go wrong, with the property that watches it or the reason none does.

## The modules

### `Raft.tla`: the consensus core

Every handler of `class raft` takes `_M_mutex` for its whole body, so a handler is
one action; the state variables are the fields of the class, as functions of the
node, with the source's names without `_M_`.

| action | code |
|---|---|
| `Stand4Election` | `_L_stand4Election`, reached from the daemon's election loop |
| `HandleVoteRequest` | `_L_requestVote` |
| `HandleVoteReply` (`CountVote`, `TakeOffice`, `StepDown`) | `_L_sendRequestVote` from the answer on |
| `Execute` | `execute` on a leader (elsewhere it changes nothing) |
| `Heartbeat` (`AppendRequest`) | `_L_heartBeat`: from the daemon, and from the thread the winner of an election starts |
| `HandleAppendEntries` (`Refuses`, `Accepts`, `Accept`, `Merged`) | `_L_appendEntries` |
| `HandleAppendReply` (`NextAfterRefusal`, `CountAppend`) | `_L_sendAppendEntries` from the answer on |
| `ApplierTick` | `_M_getApplyMessages` under the applier's lock |
| `PersistSnapshot` | `persist(index, shot)`, called from above |
| `SendSnapshot`, `HandleSnapshotReply` | the two halves of `_L_sendSnapshot` |
| `HandleInstallSnapshot` (`Install`) | `_L_installSnapshot` |
| `Restart` | the process ends; the constructors of `persister` and `raft` |

Calls.  A call in flight is a request record, then a reply record; it carries what its thread
keeps (the arguments the answer is compared with, the round whose counter it shares, the
incarnation it belongs to).  Any record may be consumed next, which is reordering and delay; a
record that is never consumed is a lost call, a call that failed, or an answer in state
`DISCONNECTED`, all of which the code ignores.  A call is not duplicated and an answer is the
answer of its call; `RpcChannel.tla` says when that is so.  A node that restarts takes with it
its threads and what its peers still hold for it, and a snapshot call that waits for it reads an
empty answer: `recv` returns 0, and zero bytes parse as a reply of term 0
(`mprpcChannel.cpp:98`, `108`).  The same happens to vote and append calls, where a reply of
term 0 changes nothing, so no record is kept for it.

Data.  An entry is a term and a command; `logEntry.index` is the position in the
deque after the snapshot index, which all handlers keep true.  A command is a
member of `Command`.  The contents of a snapshot are left out: a snapshot is its
last index and term.  Timers are left out: an election timeout or a heartbeat may
come whenever its identity allows, a superset of what the timers and the unlocked
reads of the daemon (`raft.cpp:139`, `159`, `202`) let happen.  The counter `voteNum` belongs to
one candidacy in the code and to the node in the model: an answer that is counted
has the node's present term, and a node stands at most once in a term.

Exceptions.  A check that throws out of a detached thread ends the process:
`fault` records which, and a faulty node stops (`Up`) until it restarts.  A deque
read out of range, which is undefined, is the fault "out of range".

State file.  `disk` is what `_M_persist` last wrote; every handler that saves ends
with `Persist`.  `Restart` loads an empty file because the constructor of
`persister` has just truncated it.

`MaxTerm`, `MaxIndex`, `MaxRounds` and `MaxRestarts` bound candidacies, the log, the
heartbeats of one leadership and the restarts of one node.  They appear in guards
only and are the only guards the code does not have.  The last three variables
(`ballots`, `counted`, `leaders`) are history that properties read.

`Spec` is a cluster whose processes never end, `CrashSpec` adds `Restart`.

### `KvServer.tla`: key-value servers and clerks

The servers on top of what the core promises them: one committed sequence of
commands that reaches every node in order.  `Commit`, `Learn`, `Elected` and `Deposed` are the core
seen from above.  That there is one committed sequence is an assumption: `stale_suffix` below shows
that the core does not always give one, and nothing here holds of a cluster where it does not.  In
everything else they allow more than `Raft.tla` does (a deposed leader's command may be
committed at its index as long as nobody else's was, any node may win, a snapshot may
reach any node that has an older one), so what holds here does not hang on how the core
elects or counts.  The last log index of a node never falls, which is what replacing
conflicting entries in place gives within the life of a process.

On a server run several threads that take `kvServer::_M_mutex` for a few lines at a time.
An action is what happens under one lock, or at one point where a thread waits.

| action | code |
|---|---|
| `ApplierTick`, `ApplierPush` | `_L_applierTicker`: under the core's lock, and the pushes after it |
| `InstallSnapshot`, `PushSnapshot` | `raft::_L_installSnapshot`, and the detached thread that pushes to the queue |
| `CheckCommand`, `ExecutePutOp`, `TryPush2Wait` | `_L_popMessageLoop` and `_L_executeCommand`: the duplicate check, the put, then `_L_maySnapshot` and `_L_tryPush2Wait` |
| `LoadSnapshot` | `_L_installSnapshot` of the server: `_M_load` throws |
| `Propose`, `Refuse`, `Register`, `Pop`, `GiveUp`, `AfterTimeout` | `put`: `execute`, the refusal, the queue at the index, the command received, the timeout, the answer after it |
| `WaitApplied`, `ExecuteGetOp`, `WaitAppliedTimeout` | `get` in a read thread |
| `Call`, `RpcFailure`, `Answer` | `clerk::get`, `clerk::put`: the call, a failing or closed connection, the answer |

One key is modelled.  A put is the pair of its client and request number, and
`writes[i]` is the sequence of values the key had on node `i`.  A handler carries the
attempt it belongs to, so that the answer of a handler whose connection failed is
heard by nobody while its command goes on.

Snapshots.  `persister::loadSnapshot` reads the file with `>>`, so the leader sends
the first word of its snapshot; the node that loads it throws out of the thread of the loop and
ends.  That is why no action installs a snapshot.

`MaxCalls`, `MaxFailures`, `MaxTimeouts`, `MaxElections` and `MaxIndex` are bounds in guards.
`executed`, `acked` and `unseen` are history.

`KvStore.tla` is the abstract store: a put takes effect once, between its call and its
return.  `KvProperties.tla` states the properties and the refinement mapping: the
order of effects is the committed sequence without repetitions, a put is pending while its
clerk waits.  `MCKvServer.tla` holds the instances.

### `RpcWire.tla` and `RpcChannel.tla`: remote calls

`RpcWire` has the messages of the two services and of the header as records, and as what
the generated code reads and writes: a sequence of values tagged with a field number and a wire type,
without the fields that hold their default.  So a reply whose fields are all 0 is
no bytes, no bytes parse as such a reply, and the answers of a heartbeat and of a vote can be read as
one another.  What the generated code has beyond that (arenas, reflection, unknown fields) is left out.

`RpcChannel` has the threads that call (`Caller`), the channels (`_M_clientFd`, which a thread
may find changed at every line), the connections, and the peer's process.

| action | code |
|---|---|
| `Begin`, `OpenSocket`, `Connect` | `CallMethod` up to the request, `_M_connect` |
| `Send`, `SendFails` | the loop around `send`: close, connect, send again |
| `CallRecv`, `Receive`, `ReceiveEof`, `ReceiveFails` | `recv` on the descriptor it is given, and its three results |
| `OnMessage` | `rpcProvider::_M_onMessage`: the whole buffer, of which the first request is read |
| `HandleRun`, `HandleSend` | a handler on the io thread of the connection, `_M_senRPCResponse` |
| `TakeTask`, `TaskRun`, `TaskSend` | `threadPool`, which runs the gets |
| `Crash`, `Restart` | the peer's process ends; its connections are then at an end of file or reset; what is sent to one that ended is lost, and the next send fails |

Each handler answers with any member of a small set of replies of its method.  `ran`, `got` and
`given` are history.  `ChannelOf` says which threads share a channel: the runs have one in which
nobody does and one in which two heartbeats of a leader do, as in the code.

### `SkipList.tla` and `KvTable.tla`: the table

`kvSkipList.h` with a pointer per node and level; the levels of a new node are any the code can
draw.  An operation runs under the server's lock and is one action: `Assign` (`list[k] = v`),
`Touch` (`operator[]`), `Insert`, `RemoveKey`, `Clear`, `Dump`, `Load`.  `KvTable` is the map it
stands for, whose `Load` only adds what is missing, as the code's does; `IsTable` says that the
list implements it.

### `Coroutines.tla`: the coroutine library

One `ioman` with the one worker its default arguments give it, coroutines that call the hooked
functions, and the thread that made it; `asWorker` (chosen in `Init`) makes that thread the
worker from `stop()` on.  A coroutine gives the worker back where it yields, so a step of the
worker goes up to the next yield or the next point where the main thread, a peer or the clock
can tell the difference.

| action | code |
|---|---|
| `Take`, `NoTask`, `EnterIdle`, `Callback` | `scheduler::_M_schedule` |
| `GetNextDuration`, `CheckStopping` | the condition of the loop in `ioman::_M_idle` (`ioman.cpp:450-454`): the timers under their lock, then the counter and `scheduler::_M_stopping` under the scheduler's |
| `IdlePass` | `ioman::_M_idle`: `epoll_wait`, the timers that expired and the events |
| `Io`, `Connect`, `Sleep`, `Close`, `Wake` | the hooked functions of `hook.cpp`, and what follows their yield |
| `AddWatch`, `Spawn`, `Finish` | `addEvent` with a function, `addTask`, the end of a coroutine |
| `MainAdds`, `MainAddsTimer`, `CallStop`, `Stop`, `Joined` | the main thread; `CallStop` is the question `stop()` asks first, which clears `_M_tickled` (`timer.cpp:140`) |
| `Arrive`, `HangUp` | the kernel and the peers |

`timers` is ordered by expiry, and a new timer may get any place; the clock is not modelled
beyond that, and any number of timers may have expired when `epoll_wait` returns.  A task is a
coroutine to resume or one of four kinds of callback.  `seen` is the timer whose duration
`epoll_wait` will be given, read one step before the worker decides whether to end: main may add
a timer and stop in between, and the worker then ends by the older read.  The counter of events is
read with the scheduler's fields, because only the worker and what it runs change it.  The byte
for a new front timer and for a task in an empty queue is written together with them; the code writes it
behind the unlock, so it may come a little later.  Whether sockets have a time limit (`timed`) is
chosen in `Init`.

### Properties, instances and proofs

- `RaftInvariants.tla`: the inductive invariants of the core, `IndexInv`, `ElectionInv`,
  `ReplicationInv` and `EntriesInv`.
- `KvInvariants.tla`: those of the servers, `ServerInv`, `ReplayInv` and `SessionInv`.
- `RaftClaims.tla`: what comments of the source claim and the code does not keep.
- `MCRaft.tla`: instances for TLC.  `ElectedInit` is the state in which one node
  has won term 1, a state `Spec` reaches.  `OneCrashSpec` starts from
  `LoggedInit`, where that leader's first command is on every node, and lets one node restart.
  `Symmetry` permutes the nodes the initial state does not name.
- `MCRpc.tla`, `MCCoroutines.tla`: instances for TLC.
- `MCStaleSuffix.tla`: one behaviour, written as a script of the model's own actions.
- The proofs.  `RaftProofs.tla`: types and indexes of the core, and the lemmas about its logs;
  `RaftNodeProofs.tla`: what one node keeps (progress, its state file);
  `RaftElectionProofs.tla`: one leader per term; `RaftCommitProofs.tla`: acknowledgements,
  counters and commits; `RaftLogProofs.tla`: one entry per term and index.  `KvProofs.tla`: the
  servers and clerks.  `RpcProofs.tla`: no call runs twice (its invariant `RequestsInv` is in
  `RpcProperties.tla`).  `CoroutineProofs.tla`: the coroutine library, with its inductive
  invariant `IInv` at the top.

## What the runs show

| run | instance | shows |
|---|---|---|
| `two_leaders` | 3 nodes, 2 terms, 2 commands, log of 2, 1 round per leadership | `ElectionSafety`, `ElectionInv`: all interleavings of the candidacies of the second term; `SameEntry`: an index and a term name one command; `EntriesInv`: an entry comes from the leader of its term; `CommitIsHeld`: the logs of a majority reach a commit index; `NothingTakenBack`: terms, votes, commits, applied commands and snapshots only grow |
| `restarts` | 2 nodes, 2 terms, log of 3 of which one is committed, 2 rounds, one node restarts once | `TypeOK`, `IndexInv`, `NoIndexThrow`; `AckedIsHeld`: what is counted as acknowledged is in the logs that were counted (those of a node that lost its files excepted); `ReplicationInv`: the same of what is committed (it contains `CommitIsHeld`), and the counters behind it; `Durable` |
| `restart_amnesia` | 3 nodes, 1 term, one restart each | violates `ElectionSafety` |
| `stale_suffix` | 3 nodes, 5 terms, scripted | violates `CommittedIsReplicated` |
| `rival_leaders` | 2 servers, 2 clients with a put each, one timeout, one election, log of 2 | `TableIsReplay`: every table is the log with each put executed the first time only; `AckedIsExecuted`, `WaitersHaveTheirOwnQueue`; `ServerInv`, `ReplayInv`: the inductive invariants; `PutsTakeEffectOnce`: refinement of `KvStore` |
| `server_snapshots` | 2 servers, 1 client, one failed connection, one election, snapshots | `TypeOK`, `HandedInOrder` |
| `puts_return` | 2 servers, 1 client with 3 calls of both kinds, one timeout, one leader | `ReadYourWrites`; `PutsReturn`, under `FairSpec` |
| `skipped_put` | 2 servers, 1 client, one failed connection | violates `EveryPutIsExecuted` |
| `rpc_calls` | a thread of raft with 2 calls and a clerk with 1, a channel each, one crash of the peer, 5 sockets | `OwnAnswer`: an answer is the one the handler gave to this call, which ran once; `NothingTwice`; `RequestsInv`: the inductive invariant behind it; `ArgumentsArrive`; `HeededIsGiven`: raft takes nothing for an answer that was not given; `CallsReturn`, under `FairSpec` |
| `mixed_answers` | 2 threads that share a channel, one heartbeat each | violates `PushIsDone` |
| `skip_list` | 3 keys, 2 values, 3 levels | `LevelsAreSublists`, `SizeIsExact`; `IsTable`: refinement of `KvTable` |
| `coroutines` | 2 coroutines with 2 calls and 1, one socket, one timer of the main thread | `OneWaker`: who waits is resumed by exactly one thing; `PendingCounted`, `NoMissedTimer`, `OwnTimeout`, `EndIsDrained`; `StopReturns`, under `FairSpec` |

Bounds.  Two candidacies per term and two terms are what it takes for answers of
one candidacy to meet another; a log of two entries has one to keep and one to replace; two
rounds let an older request or answer arrive after a newer one; one restart
gives every call an earlier incarnation to belong to.  `restarts` begins with one entry
logged and committed, so that within two rounds the restarted node is found empty and gets
the snapshot.  Between them the passing
runs take every action and every branch of every handler except the faults.  That the four throwing
index checks never fail is `NoIndexThrow`, proved.  The fault "out of range" is not covered by a
property: `IndexInv` bounds a next index from below only.  The instances of `restarts` and
`two_leaders` do not reach it, but a follower's refusal names the index behind its own snapshot
(`raft.cpp:564`), and where several restarts have emptied logs, nothing keeps that within the
log of a leader.

For the servers, two nodes suffice for a deposed leader beside a new one and for a table that is
behind; a log of two indexes lets two leaders claim the same one, a log of four holds two puts
and what is logged again; one failed connection leaves one handler behind that nobody listens
to.  In `server_snapshots` the two servers stand for two nodes of a larger cluster: with two
nodes alone a committed command is on both and no snapshot would be sent.

For the calls, five sockets let every call of both threads connect twice, and one crash of the
peer meets every line of a call, in the middle of the first or of the second.  Three keys give a
node something before and behind it, three levels one that is skipped.  Two coroutines meet on
one socket: reading and writing, waiting for the same event, one closing it under the other; a
second call of one of them finds what the first left behind (a time limit armed, an event
registered).

Deadlock is checked of the skip list only.  Elsewhere the bounds let the model stop where the
code would go on, and the system itself may wait for ever for a client, or, once stopped, ends.

Fairness.  `FairSpec` of `KvServer.tla` is weak fairness of every thread: the applier and the
loop run for ever (`while(true)`), a handler runs until it returns, the core commits and spreads
what a lasting leader has logged.  Calls, failures and elections are not fair.  `puts_return`
has no elections: with a leader deposed again and again a put need not return.

`FairSpec` of `RpcChannel.tla` is one condition: as long as a thread of a caller or of the peer
can go on, one does.  Within the bounds each takes finitely many steps, so one condition serves
for all.  Nobody has to call, and a crashed peer need not come back. `FairSpec` of
`Coroutines.tla`: the worker goes on, the main thread joins a worker that has ended, and (strong
fairness) a worker that waits again and again while there are timers sees one expire, because
`epoll_wait` is given the time to the next one.  The peers of the sockets need do nothing:
`StopReturns` excepts what waits for them without a time limit. The core's own model states no
liveness: `CountAppend` counts per round, and without a new command a leader commits nothing of
an earlier term, so there is no promise to state without assuming clients that go on.

### Disagreements found

1. `restart_amnesia` (bug).  `persister::persister` opens both files for writing and so empties
   them (`persister.cpp:14`, `19`) before `raft::raft` loads the state (`raft.cpp:37`).  A
   restarted node has forgotten the term and the vote that `raft.h:338-339` calls necessarily
   persistent, and one term gets two leaders.
2. `stale_suffix`.  `_L_appendEntries` replaces a conflicting entry in place and keeps what
   follows it (`raft.cpp:592-625`).  The stale entries make a log look newer and match a later
   leader's previous entry; an entry is then committed above a log that differs below, against
   `raft.h:314` ("more than half of the nodes have replicated this entry and those before it").
   The behaviour has 35 steps, no restart and no lost message that is not simply late;
   breadth-first search does not get that far, which is why it is scripted.
3. `skipped_put`.  A get stores its number in the table of executed requests of the node that
   answers (`kvServer.cpp:326`).  If this node has not executed the client's earlier put yet, it
   takes it for a duplicate, and its table differs from the others for good, against
   `kvServer.cpp:295` and `kvServer.h:101`.  A get of a failed connection that comes late does
   the opposite: it lowers the number and a put in the log twice is executed twice.
   (`rival_leaders` shows that without gets the tables agree.)
4. `mixed_answers`.  The threads of overlapping heartbeats to one peer share its channel, which
   has one socket and no lock; an answer does not say what it answers (`mprpcChannel.cpp:84`,
   `98`).  A thread counts a success that the peer gave to another request while it refused its
   own, against `raft.cpp:378` ("the push succeeded").  The peer may also read both requests as
   one buffer and drop the second (`rpcProvider.cpp:99-127`), whose caller then waits until the
   connection ends.  `Raft.tla` assumes that this does not happen: what `OwnAnswer` says of
   channels that are not shared.

More are visible in the models, without a run of their own.  `_L_get` returns without
`done->Run()` when there is no such key (`kvServer.cpp:192-195`) or the wait times out; the
clerk, which is ready for `RAFT_ERR_NO_KEY` (`clerk.cpp:54-55`), waits for ever. The snapshot
file is read up to its first blank (`persister.cpp:37`), so what the leader sends cannot be
loaded and the receiving process ends, against `kvServer.cpp:275` and `raft.cpp:725`.  A
snapshot that is out of date is answered with a reply without fields (`raft.cpp:699-702`), which
is 0 bytes and is never sent: the leader's thread waits until the connection ends.  A peer that
dies while it installs a snapshot is taken to have it (`raft.cpp:507-521`).

The worker of an `ioman` may end with a timer in its list.  `_M_stopping` asks the timers under one
lock (`ioman.cpp:451`) and the stop flag under another (453); where main adds a timer and calls
`stop()` between the two, the worker ends, and the callback never runs, against the comment at 452
(no timer is left when it stops).  `EndIsDrained` allows exactly this: timers of main's, where main is not the
worker.  Coroutines cannot be left behind this way, since only the worker adds what they wait for.

`_M_appliedIndex` moves when the applier takes the commands (`raft.cpp:110`), before it pushes
them and before the server executes them, while `raft.h:312` calls it the index already executed
by the layer above; `waitApplied` trusts it, so a get may miss a put committed before it came
(its own client's puts excepted while no connection fails and nobody takes snapshots,
`ReadYourWrites`).  And `_L_sendSnapshot` reads the term when
its thread gets the lock (`raft.cpp:490-502`) and does not ask whether the node still leads,
against `raft.h:294`.

`raft.h:20-23` says that two functions fall back to follower without saving; they do
save, through `_M_identityChange` (`Durable` holds): the comment is out of date.

## What is proved

For every finite, non-empty set of nodes, every set of commands and all bounds:

- `TypeCorrect`: `CrashSpec => []TypeOK`.
- `IndexesOrdered`: `CrashSpec => []IndexInv`; `NeverThrows`: `CrashSpec => []NoIndexThrow`.
  `IndexOrder` alone is not inductive: a commit is set from the acknowledgement of a
  thread, so what requests and answers in flight carry has to stay within the log of
  their sender.  That is true only of the sender's present incarnation (a restart
  shortens the log), hence the `boot` numbers in `AppendCallsWithinLog` and
  `SnapshotCallsWithinLog`, and `MatchWithinLog` for what the leader has stored.  The
  proof has a lemma per handler; lengths of merged and discarded logs are lemmas about
  `Merged` and `Discard`.
- `ElectionsAreBacked`: `Spec => []ElectionInv`; `OneLeaderPerTerm`: `Spec => []ElectionSafety`.
  A leader is backed by the ballots of a majority (`LeadersWereElected`), which needs that
  the shared counter never exceeds the set of counted voters (`CountIsBacked`), which
  needs that a voter is counted once: a candidacy holds for each peer exactly one of the request,
  the granted vote and the count (`VoteCallsAreSingle`).  Two majorities meet
  (`MajoritiesMeet`), and nobody casts two ballots in a term.  The theorem is about
  `Spec`: with restarts it is false, see `restart_amnesia`.

- `ProgressKept`: `CrashSpec => NothingTakenBack`.  Terms and votes need the types only.  The
  commit index of a follower is set to the smaller of the leader's and the end of its own log;
  that this is no step back needs `IndexOrder`, and that a merge shortens no log.
- `AlwaysSaved`: `CrashSpec => []Durable`.  Inductive with the types: a call either saves, and
  then only the fields of its own node have changed, or changes nothing that would have to be
  saved (`Saves`); a restart empties the file and the fields alike.

- `AcksAreCounted`: `CrashSpec => []ReplicationInv`; `MatchIsHeld`: `CrashSpec => []AckedIsHeld`;
  `CommitNeedsMajority`: `CrashSpec => []CommitIsHeld`.  A log grows only, until its node
  restarts, so what was acknowledged stays held (`Holds` excepts nodes that lost their files).
  What is counted is the hard part: the threads of one heartbeat share a counter, rounds
  overlap, and a leader could win a term twice if its vote counter were ever set back within
  it.  A round asks each peer once and each thread adds to the counter what its own answer
  says (`RoundIsSingle`, `RoundIsCounted`), and the counters of a candidacy and of the rounds
  start anew only with a new term (`WonOnce`), so the answer that completes a round finds as
  many peers as it counts.  `CountersInv` needs the call records to be of known terms and
  incarnations (`CallTermsKnown`).  The quorum then is a set of nodes that hold the log as it was
  when the round started.
- `EntriesHaveALeader`: `Spec => []EntriesInv`; `OneEntryPerTerm`: `Spec => []SameEntry`.  An entry
  is placed by `execute` on the leader of its term only, behind all that its log has had
  (which only grows while nobody restarts); with one leader per term (`OneLeaderPerTerm`) two
  entries of a term at an index are one.  The merge of `_L_appendEntries` makes no new entry,
  whatever it keeps behind the last one it compared, so its order does not matter here.

For every number of servers, every finite set of clients and all bounds:

- `ServerKept`: `Spec => [](TypeOK /\ ServerInv)`, with `ServerTypes`, `OwnQueues` (`WaitersHaveTheirOwnQueue`) and
  `AcknowledgedIsExecuted` (`AckedIsExecuted`).  A leader logs behind all its log has, so the
  handlers of a server have indexes of their own (`WaitersInv`).  Requests are known before
  they are handled (`RequestsInv`).  A server answers OK for the command at the index it waited
  at, or because the client's latest request on it is not below this one.  Either is there only
  once the put is in its table, as long as the put is the one its clerk waits for (`Served`);
  without that condition it is false, because a get raises the latest request as well.
- `HandedUpInOrder`: `Spec => []HandedInOrder`.  Inductive with the types and
  `IndexesInv`.  What the applier took, the queue and the loop are one rising sequence; an index
  that is missing lies below a snapshot on its way.
- `ReplayKept`: `Spec => []ReplayInv`, and `TablesAreReplays`: `Spec => []TableIsReplay`, if no
  client gets (with gets they are false, see `skipped_put`).  Without a snapshot on its way the
  loop takes out the next command exactly.  The duplicate check compares with the client's latest request only; that it finds
  every repetition and nothing else needs that a client's puts are logged for the first time in the
  order of its requests (`InRequestOrder`), and that a clerk makes one call at a time.
- `ClientsReadTheirPuts`: `Spec => []ReadYourWrites` if nobody takes snapshots; the property itself
  is about runs in which no connection has failed.  `SessionInv` carries it.  A clerk then has one
  handler, the one it waits for; so a put is logged only when the client's earlier ones have
  returned, they are in the log before it (`EarlierFirst`), and the server that answers it OK has
  them too (`HasEarlier`).  A get goes to the server that answered last (`AckedAtLeader`).  It
  raises the client's number there, which does no harm as long as no put below it is missing (the
  third part of `Complete`); that is what breaks in `skipped_put`, where a failed connection sends
  the get elsewhere.  With snapshots the property is false: the commands behind a snapshot may
  reach the server before the thread that pushes it, and a get may read a table that lacks what
  the snapshot stands for.
- `PutsOnce`: `Spec => PutsTakeEffectOnce`, the refinement of `KvStore`.  `Commit` maps to
  the effect of a put if the command is not in the log yet, and to a stutter otherwise; a call of a clerk
  to `Put`, an answer it waits for to `Return`, which needs that the put is in the
  committed sequence by then (`AnswersInv`).  `FirstOccurrences` picks the n-th new command
  by its rank; that appending a repetition leaves it and anything else extends it is proved
  by counting, without induction.

For every number of callers, channels and threads of the peer, every `ChannelOf` and all bounds:

- `RequestsKept`: `Spec => []RequestsInv`; `RunsAtMostOnce`: `Spec => []NothingTwice`.  The loop around `send` sends again only while
  the call is not `Sent`, and what was sent is in one place until it runs: on a connection, with
  the io thread that took it, in the pool's queue or with a thread of the pool (`Places`,
  `SentOnce`).  A step moves a request, and the proof names the place each one came from
  (`CameFrom`, `WasQueued`); a crash empties all places.  It holds of shared channels
  too: what goes wrong there (`mixed_answers`) is the answer, never the run.

For any coroutines, every finite set of descriptors and all bounds:

- `CoroutineInvariant`: `Spec => []IInv`, and from it `TypeIsOK`, `OneWakerHolds` (`OneWaker`),
  `PendingIsCounted` (`PendingCounted`), `NoTimerIsMissed` (`NoMissedTimer`), `TimeoutsAreOwn`
  (`OwnTimeout`) and `EndLeavesNoCoroutine` (`EndIsDrained`).  The parts of `IInv` need each other:
  - `OneWaker`.  A call that yields leaves one registration or one timer, a time-out arms a
    timer beside a registration.  That a late time-out wakes nobody needs that it can tell
    its call from a later one (`PastCalls`) and that a coroutine has one timer at a time
    (`TimerInv`); that an early one cancels a wait that is still there needs that it stands in
    the queue before whatever resumes its coroutine (`OrderInv`), which is why the code queues the
    callbacks of a pass before what its events wake.
  - `PendingCounted`.  A pass triggers the events of any number of sockets; the pairs that
    leave the table are the ones the counter is lowered by (`EventsStep`).
  - `NoMissedTimer`.  A flag that is set saves a byte, so it has to stand for a byte that is
    still in the pipe while the worker waits (`TickledPipe`), and a pass that reads the byte has to
    leave the wait.  That main's tick is seen needs that what is queued while the worker is idle
    comes from main (`IdleQueue`).
  - `EndIsDrained`.  The idle coroutine ends having read that there is no timer, with no event or
    task left.  Since that read only main has run, so what has come to the timers is main's
    (`MainsTimers`), and behind the end nobody adds an event or a task (`StopInv`); by `OneWaker`
    a coroutine that waited would have an event, a task or a timer of its own.

  The queue is cut and joined in seven ways.  How many tasks of a piece resume a coroutine is
  counted by cardinality (`CountConcat`, `CountSplit`, `CountInsert`), and `Places` adds up the
  four kinds of waker; each action moves one from one place to another (`WakersStep`).

Assumptions: `ServerAssumption`, `BoundsAssumption` and `FileAssumption` (the value that stands
for an empty file is not a state) of `Raft.tla`; `KvAssumption` and `NoneAssumption` (the value
that stands for no queue is not a queue) of `KvServer.tla`; `RpcAssumption` and `NilAssumption`
(the value that stands for no reply is not a reply) of `RpcChannel.tla`; `CoroutinesAssumption` of
`Coroutines.tla` (finitely many descriptors, as a process has; the values that stand for nobody and
for a registered function are no coroutines) and its own `NilAssumption` (the value that stands for
no timer is not a task); nothing else.

Only model-checked: the properties of `RpcChannel` beside `NothingTwice` and `RequestsInv`, and
everything about `SkipList`.  (`SessionInv` is in no run; TLC found it kept on the instance of
`puts_return`.)  Liveness (`PutsReturn`, `CallsReturn`,
`StopReturns`) is out of the prover's reach and stays with TLC, and so does what a recursive
definition computes for every input: the chains of `SkipList`, and `SelectSeq` and `FlattenSeq`.
That a message read is the one written (`OwnAnswer`, `ArgumentsArrive`, `HeededIsGiven`) rests on
`SelectSeq` in `SerializeFlat`, and so do the types of `RpcChannel`: the peer reads the name of
the method from the bytes.

## Plan

All components the first plan named have a module now.  What is left:

- an election service (at most one leader per term) that `Raft` refines;
- several workers in `Coroutines`.

## Not modelled

- Two workers of an `ioman`.  An event that fires between `addEvent` and `yield` then puts a
  coroutine that still runs into the queue; `resume()` returns at once (`coroutine.cpp:87`, the
  warning at 327) and the wake-up is lost.  `yield` says READY before its context is saved
  (125-126).  The comparison at `ioman.cpp:394` binds the wrong way, so that a pass may lower
  `_M_pendingCountor` for an event another thread has just taken.  `start` reads thread ids
  before the threads have written them.  The examples start one worker; a line with three is
  commented out.
- `delEvent`, `timer::refresh` and `timer::reset`, which nothing calls: `refresh` refuses
  exactly the timers it could refresh (`timer.cpp:27`), `reset` does not add the period (63) and
  ends without a value (69).  Recurring timers and a clock that is set back.
- A descriptor that is used again after `close` while a woken reader tries anew (`hook.cpp:86`),
  and an `fdman` asked for one from two threads (`faman.cpp:24-36`).
- A request that arrives in pieces, an answer longer than the reader's 1024 bytes
  (`mprpcChannel.cpp:96`), malformed requests, the search for a free port
  (`rpcProvider.cpp:44`), the end of a `threadPool`.
- `skipList.h`, the variant that nothing uses, and the memory that `clear` leaks.
- The real-time side of timers, the unlocked reads of raft's daemon, logging, the RPC configuration
  file, the bytes of the formats, locks and examples.
