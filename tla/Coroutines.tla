----------------------------- MODULE Coroutines -----------------------------
(***************************************************************************)
(* The coroutine library (src/src/cort): one ioman with the one worker     *)
(* that ioman's default arguments give it, the coroutines it runs and the  *)
(* thread that made it (main), which adds tasks and timers and stops it.   *)
(* With asWorker the main thread itself is the worker, from stop() on.     *)
(*                                                                         *)
(* A coroutine gives the worker back only where it yields, so a step of    *)
(* the worker is what it does up to the next yield or up to the next point *)
(* where the main thread, the peers of its sockets or the clock can tell   *)
(* the difference: the timers and the scheduler's queue are read under     *)
(* locks of their own, so asking whether to stop takes two steps.  What    *)
(* runs in a coroutine is any program of at most MaxOps[c] calls: hooked   *)
(* read/write, connect, sleep, close, addEvent with a callback, addTask.    *)
(***************************************************************************)
EXTENDS Naturals, Sequences, SequencesExt, FiniteSets

CONSTANTS
  Coroutine,
  Fd,         \* the sockets, all made by the hooked socket()
  Nil,
  MaxOps,     \* calls of each coroutine
  MaxTimers   \* timers of the main thread

ASSUME CoroutinesAssumption ==
  /\ MaxOps \in [Coroutine -> Nat] /\ MaxTimers \in Nat
  /\ Nil \notin Coroutine \cup Fd /\ "watcher" \notin Coroutine \cup {Nil}
  /\ IsFiniteSet(Fd)   \* a process has finitely many descriptors

VARIABLES
  asWorker,   \* _M_asWorker
  main,       \* the thread that made the ioman
  pc,         \* where the worker is
  cur,        \* the task it runs
  idleOver,   \* the idle coroutine has ended (TERM)
  seen,       \* the timer whose duration the worker has read for epoll_wait; Nil: noNext
  tasks, active, idle, stopped,   \* class scheduler
  timers,     \* _M_timers, the next one first
  tickled,    \* timerManager::_M_tickled
  pipe,       \* a byte is in the tickle pipe
  waiting,    \* per fd and event: who is registered (_M_events and its contexts)
  pending,    \* _M_pendingCountor
  timed,      \* the sockets with a receive and send timeout
  ready,      \* per fd: the events that have arrived
  gone,       \* the sockets whose peer has hung up: they never block
  open,
  state,      \* per coroutine: its _M_state, "none" before it is made
  wait,       \* the call it has yielded in
  cancelled,  \* timer_info of that call
  used, made  \* calls of each coroutine, timers of main

schedVars == <<tasks, active, idle, stopped>>
timerVars == <<timers, tickled>>
eventVars == <<waiting, pending>>
netVars == <<ready, gone, open>>
coVars == <<state, wait, cancelled, used>>
workerVars == <<pc, cur, idleOver, seen>>
fixed == <<asWorker, timed>>
vars == <<fixed, main, made, workerVars, schedVars, timerVars, pipe, eventVars, netVars, coVars>>

READ == "READ"
WRITE == "WRITE"
event == {READ, WRITE}
Watcher == "watcher"   \* a registered function rather than a coroutine

\* A task is a coroutine to resume ("resume"), a callback of a timer ("wake": sleep's;
\* "timeout": do_io's; "tick": main's) or one of addEvent ("watch").
Task(kind, c, fd, e, n) == [kind |-> kind, co |-> c, fd |-> fd, ev |-> e, call |-> n]
Resume(c) == Task("resume", c, Nil, Nil, 0)
Awake(c) == Task("wake", c, Nil, Nil, 0)
Timeout(c, fd, e, n) == Task("timeout", c, fd, e, n)
Watch(fd, e) == Task("watch", Nil, fd, e, 0)
Tick(n) == Task("tick", Nil, Nil, Nil, n)

Kinds == {"resume", "wake", "timeout", "watch", "tick"}
TaskType == [kind : Kinds, co : Coroutine \cup {Nil}, fd : Fd \cup {Nil}, ev : event \cup {Nil},
             call : Nat]
ASSUME NilAssumption == Nil \notin TaskType

NoCall == [call |-> "none", fd |-> Nil, ev |-> Nil]

Init ==
  /\ asWorker \in BOOLEAN /\ timed \in SUBSET Fd
  /\ main = "free" /\ made = 0
  /\ pc = IF asWorker THEN "off" ELSE "take"
  /\ cur = Nil /\ idleOver = FALSE /\ seen = Nil
  /\ tasks = <<>> /\ active = 0 /\ idle = 0 /\ stopped = FALSE
  /\ timers = <<>> /\ tickled = FALSE /\ pipe = FALSE
  /\ waiting = [fd \in Fd |-> [e \in event |-> Nil]] /\ pending = 0
  /\ ready = [fd \in Fd |-> {}] /\ gone = {} /\ open = Fd
  /\ state = [c \in Coroutine |-> "none"]
  /\ wait = [c \in Coroutine |-> NoCall]
  /\ cancelled = [c \in Coroutine |-> FALSE]
  /\ used = [c \in Coroutine |-> 0]

-----------------------------------------------------------------------------
(* The scheduler's queue and the timers. *)

\* _M_tickle: only when some thread is in its idle coroutine.
Tickled(when) == pipe \/ (when /\ idle > 0)

\* addTask, for each of a sequence: only the one that finds the queue empty tickles.
AddTasks(ts) ==
  /\ tasks' = tasks \o ts
  /\ pipe' = Tickled(tasks = <<>> /\ ts # <<>>)

\* addTimer and _M_addTimer: its place among the others is its expiry.  (The byte is written
\* behind the unlock and may come later than here.)
AddTimer(t) == \E i \in 1 .. Len(timers) + 1 :
  /\ timers' = InsertAt(timers, i, t)
  /\ tickled' = (tickled \/ i = 1)
  /\ pipe' = Tickled(i = 1 /\ ~tickled)

\* timer::cancel of the timer of c's call; it may have none, or it may have expired.
TimersWithout(c) ==
  LET armed == {i \in DOMAIN timers : timers[i].co = c}
  IN  IF armed = {} THEN timers ELSE RemoveAt(timers, CHOOSE i \in armed : TRUE)

\* triggerEvent: what the registration at fd puts into the queue.
Triggered(fd, e) == IF waiting[fd][e] = Watcher THEN Watch(fd, e) ELSE Resume(waiting[fd][e])
Registered(fd) == {e \in event : waiting[fd][e] # Nil}

\* Mutant: the counter goes down by one for all events of a socket.
TriggerAllCountsOne(fd, es) ==
  /\ waiting' = [waiting EXCEPT ![fd] = [e \in event |-> IF e \in es THEN Nil ELSE @[e]]]
  /\ pending' = pending - (IF es = {} THEN 0 ELSE 1)

\* The events es of fd leave the table and their waiters enter the queue, READ first.
TriggerAll(fd, es) ==
  /\ waiting' = [waiting EXCEPT ![fd] = [e \in event |-> IF e \in es THEN Nil ELSE @[e]]]
  /\ pending' = pending - Cardinality(es)
Woken(fd, es) ==
  LET one(e) == IF e \in es THEN <<Triggered(fd, e)>> ELSE <<>>
  IN  one(READ) \o one(WRITE)

\* Mutant: the event is removed (delEvent) and nobody is woken.
CancelEventSilently(fd, e) ==
  TriggerAll(fd, {e} \cap Registered(fd)) /\ UNCHANGED <<tasks, pipe>>

\* cancelEvent
CancelEvent(fd, e) ==
  LET es == {e} \cap Registered(fd)
  IN  TriggerAll(fd, es) /\ AddTasks(Woken(fd, es))

-----------------------------------------------------------------------------
(* The main thread. *)

MainAdds(c) ==
  /\ main = "free" /\ state[c] = "none"
  /\ state' = [state EXCEPT ![c] = "READY"]
  /\ AddTasks(<<Resume(c)>>)
  /\ UNCHANGED <<fixed, main, made, workerVars, active, idle, stopped, timerVars, eventVars,
                 netVars, wait, cancelled, used>>

MainAddsTimer ==
  /\ main = "free" /\ made < MaxTimers
  /\ made' = made + 1
  /\ AddTimer(Tick(made))
  /\ UNCHANGED <<fixed, main, workerVars, schedVars, eventVars, netVars, coVars>>

\* stop() first asks its own _M_stopping: the answer is no before _M_stopped is set, but
\* getNextDuration has cleared the flag on the way.
CallStop ==
  /\ main = "free"
  /\ main' = "stop"
  /\ tickled' = FALSE
  /\ UNCHANGED <<fixed, made, workerVars, schedVars, timers, pipe, eventVars, netVars, coVars>>

\* Then it tickles the thread, or becomes the worker, and waits for its end.
Stop ==
  /\ main = "stop"
  /\ main' = "stopping"
  /\ stopped' = TRUE
  /\ pipe' = Tickled(TRUE)
  /\ pc' = IF asWorker THEN "take" ELSE pc
  /\ UNCHANGED <<fixed, made, cur, idleOver, seen, tasks, active, idle, timerVars, eventVars,
                 netVars, coVars>>

Joined ==
  /\ main = "stopping" /\ pc = "end"
  /\ main' = "joined"
  /\ UNCHANGED <<fixed, made, workerVars, schedVars, timerVars, pipe, eventVars, netVars, coVars>>

-----------------------------------------------------------------------------
(* The scheduling coroutine (_M_schedule) and the idle one (_M_idle). *)

\* resume() returns at once from a coroutine that is not READY: the task is lost.
Take ==
  LET t == Head(tasks)
      lost == t.kind = "resume" /\ state[t.co] # "READY"
  IN  /\ pc = "take" /\ tasks # <<>>
      /\ tasks' = Tail(tasks)
      /\ pipe' = Tickled(tasks' # <<>>)
      /\ IF lost
           THEN UNCHANGED <<pc, cur, active, state>>
           ELSE /\ cur' = t
                /\ active' = active + 1
                /\ pc' = IF t.kind = "resume" THEN "run" ELSE "callback"
                /\ state' = IF t.kind = "resume" THEN [state EXCEPT ![t.co] = "RUNNING"] ELSE state
      /\ UNCHANGED <<fixed, main, made, idleOver, seen, idle, stopped, timerVars, eventVars,
                     netVars, wait, cancelled, used>>

NoTask ==
  /\ pc = "take" /\ tasks = <<>>
  /\ pc' = IF idleOver THEN "end" ELSE "idle"
  /\ UNCHANGED <<fixed, main, made, cur, idleOver, seen, schedVars, timerVars, pipe,
                 eventVars, netVars, coVars>>

\* A task added after the queue was found empty and before this step tickles nobody.
EnterIdle ==
  /\ pc = "idle"
  /\ idle' = idle + 1
  /\ pc' = "check"
  /\ UNCHANGED <<fixed, main, made, cur, idleOver, seen, tasks, active, stopped, timerVars,
                 pipe, eventVars, netVars, coVars>>

\* Mutant: the flag of the last front timer stays.
NextDurationKeepsFlag ==
  /\ pc = "check"
  /\ seen' = IF timers = <<>> THEN Nil ELSE Head(timers)
  /\ pc' = "decide"
  /\ UNCHANGED <<fixed, main, made, cur, idleOver, schedVars, timerVars, pipe, eventVars,
                 netVars, coVars>>

\* _M_stopping reads the timers first: the duration to the next one, or noNext.
GetNextDuration ==
  /\ pc = "check"
  /\ tickled' = FALSE
  /\ seen' = IF timers = <<>> THEN Nil ELSE Head(timers)
  /\ pc' = "decide"
  /\ UNCHANGED <<fixed, main, made, cur, idleOver, schedVars, timers, pipe, eventVars,
                 netVars, coVars>>

\* Mutant: the worker does not ask for registered events.
StoppingOverEvents == seen = Nil /\ stopped /\ tasks = <<>> /\ active = 0

\* Then it asks the scheduler; main may have added a timer and stopped in between.
Stopping == seen = Nil /\ pending = 0 /\ stopped /\ tasks = <<>> /\ active = 0
CheckStopping ==
  /\ pc = "decide"
  /\ IF Stopping
       THEN idleOver' = TRUE /\ pc' = "take" /\ idle' = idle - 1
       ELSE pc' = "wait" /\ UNCHANGED <<idleOver, idle>>
  /\ UNCHANGED <<fixed, main, made, cur, seen, tasks, active, stopped, timerVars, pipe,
                 eventVars, netVars, coVars>>

\* What epoll reports of fd; an error or a hang-up stands for every registered event.
Reported(fd) == IF fd \in gone THEN Registered(fd) ELSE Registered(fd) \cap ready[fd]
Reports == {p \in Fd \X event : p[2] \in Reported(p[1])}

\* The kernel reports the sockets in any order; of each, READ is handled before WRITE.
Orders == {s \in SetToSeqs(Reports) : \A i \in DOMAIN s :
  s[i][2] = WRITE /\ <<s[i][1], READ>> \in Reports => i > 1 /\ s[i - 1] = <<s[i][1], READ>>}
WokenInOrder(order) == [i \in DOMAIN order |-> Triggered(order[i][1], order[i][2])]

\* Mutant: what the events wake goes before the callbacks.
BatchEventsFirst(expired, order) == WokenInOrder(order) \o expired

\* What the pass puts into the queue: the callbacks of the timers that have expired, then
\* what waited for the events.
Batch(expired, order) == expired \o WokenInOrder(order)

\* epoll_wait returns, at the latest after 5 s; the first n timers have expired.  The byte
\* of the pipe is read before or after the one this pass may write.
Pass(n) ==
  /\ pc = "wait"
  /\ timers' = SubSeq(timers, n + 1, Len(timers))
  /\ \E order \in Orders :
       LET batch == Batch(SubSeq(timers, 1, n), order)
           tickles == tasks = <<>> /\ batch # <<>>
       IN  /\ tasks' = tasks \o batch
           /\ pipe' \in IF pipe THEN {FALSE} \cup {tickles /\ n = 0} ELSE {tickles}
  /\ waiting' = [fd \in Fd |-> [e \in event |-> IF e \in Reported(fd) THEN Nil ELSE waiting[fd][e]]]
  /\ pending' = pending - Cardinality(Reports)
  /\ idle' = idle - 1
  /\ pc' = "take" /\ seen' = Nil
  /\ UNCHANGED <<fixed, main, made, cur, idleOver, active, stopped, tickled, netVars, coVars>>
IdlePass == \E n \in 0 .. Len(timers) : Pass(n)

-----------------------------------------------------------------------------
(* A callback runs to its end in a coroutine of its own. *)

\* fn does what it can on fd.
Consume(fd, e) == ready' = [ready EXCEPT ![fd] = @ \ {e}]

\* do_io's weak pointer is dead once its call has returned.
Live(t) == wait[t.co].call \in {"io", "connect"} /\ used[t.co] = t.call

RunWake == AddTasks(<<Resume(cur.co)>>) /\ UNCHANGED <<eventVars, ready, cancelled>>
\* Mutant: the call is marked and left waiting.
RunTimeoutMarksOnly ==
  /\ cancelled' = [cancelled EXCEPT ![cur.co] = Live(cur)]
  /\ UNCHANGED <<tasks, pipe, eventVars, ready>>

RunTimeout ==
  /\ IF Live(cur) /\ ~cancelled[cur.co]
       THEN /\ cancelled' = [cancelled EXCEPT ![cur.co] = TRUE]
            /\ CancelEvent(cur.fd, cur.ev)
       ELSE UNCHANGED <<tasks, pipe, eventVars, cancelled>>
  /\ UNCHANGED ready
RunWatch == Consume(cur.fd, cur.ev) /\ UNCHANGED <<tasks, pipe, eventVars, cancelled>>
RunTick == UNCHANGED <<tasks, pipe, eventVars, ready, cancelled>>

Callback ==
  /\ pc = "callback"
  /\ \/ cur.kind = "wake" /\ RunWake
     \/ cur.kind = "timeout" /\ RunTimeout
     \/ cur.kind = "watch" /\ RunWatch
     \/ cur.kind = "tick" /\ RunTick
  /\ active' = active - 1
  /\ pc' = "take" /\ cur' = Nil
  /\ UNCHANGED <<fixed, main, made, idleOver, seen, idle, stopped, timerVars, gone, open,
                 state, wait, used>>

-----------------------------------------------------------------------------
(* What runs in a coroutine. *)

Running(c) == pc = "run" /\ cur.co = c
Free(c) == Running(c) /\ wait[c] = NoCall
Calls(c) == Free(c) /\ used[c] < MaxOps[c] /\ used' = [used EXCEPT ![c] = @ + 1]

\* Mutant: the thread still counts as active.
YieldStaysActive(c, call, fd, e) ==
  /\ wait' = [wait EXCEPT ![c] = [call |-> call, fd |-> fd, ev |-> e]]
  /\ state' = [state EXCEPT ![c] = "READY"]
  /\ pc' = "take" /\ cur' = Nil
  /\ UNCHANGED <<active, cancelled>>

Yield(c, call, fd, e) ==
  /\ wait' = [wait EXCEPT ![c] = [call |-> call, fd |-> fd, ev |-> e]]
  /\ state' = [state EXCEPT ![c] = "READY"]
  /\ pc' = "take" /\ cur' = Nil /\ active' = active - 1
  /\ UNCHANGED cancelled

Return(c) ==
  /\ wait' = [wait EXCEPT ![c] = NoCall]
  /\ cancelled' = [cancelled EXCEPT ![c] = FALSE]
  /\ UNCHANGED <<state, pc, cur, active>>

Blocks(fd, e) == fd \in open \ gone /\ e \notin ready[fd]

\* The time-out is armed before the event is registered; where the event is taken by
\* another coroutine (addEvent says -2) it is cancelled again and the call fails.
Register(c, call, fd, e, rest, n) ==
  LET taken == waiting[fd][e] # Nil
  IN  /\ IF fd \in timed \/ call = "connect"
           THEN \E i \in 1 .. Len(rest) + 1 :
                  /\ timers' = IF taken THEN rest ELSE InsertAt(rest, i, Timeout(c, fd, e, n))
                  /\ tickled' = (tickled \/ i = 1)
                  /\ pipe' = Tickled(i = 1 /\ ~tickled)
           ELSE timers' = rest /\ UNCHANGED <<tickled, pipe>>
      /\ IF taken
           THEN Return(c) /\ UNCHANGED eventVars
           ELSE /\ waiting' = [waiting EXCEPT ![fd][e] = c]
                /\ pending' = pending + 1
                /\ Yield(c, call, fd, e)
      /\ UNCHANGED ready

\* One turn of do_io's loop; rest are the timers once its own is cancelled.
Turn(c, call, fd, e, rest, n) ==
  IF Blocks(fd, e)
    THEN Register(c, call, fd, e, rest, n)
    ELSE /\ Consume(fd, e)
         /\ timers' = rest
         /\ Return(c)
         /\ UNCHANGED <<tickled, pipe, eventVars>>

\* read, recv, accept, write, send, ...
Io(c, fd, e) ==
  /\ Calls(c)
  /\ Turn(c, "io", fd, e, timers, used[c] + 1)
  /\ UNCHANGED <<fixed, main, made, idleOver, seen, tasks, idle, stopped, gone, open>>

\* connect_with_timeout: EINPROGRESS, or an answer at once
Connect(c, fd) ==
  /\ Calls(c)
  /\ \/ /\ Blocks(fd, WRITE)
        /\ Register(c, "connect", fd, WRITE, timers, used[c] + 1)
     \/ Return(c) /\ UNCHANGED <<timerVars, pipe, eventVars, ready>>
  /\ UNCHANGED <<fixed, main, made, idleOver, seen, tasks, idle, stopped, gone, open>>

Sleep(c) ==
  /\ Calls(c)
  /\ AddTimer(Awake(c))
  /\ Yield(c, "sleep", Nil, Nil)
  /\ UNCHANGED <<fixed, main, made, idleOver, seen, tasks, idle, stopped, eventVars, netVars>>

\* A call goes on behind its yield: a connect asks for the socket's error, do_io tries anew.
Wake(c) ==
  LET w == wait[c]
      rest == TimersWithout(c)
  IN  /\ Running(c) /\ w # NoCall
      /\ IF w.call = "io" /\ ~cancelled[c]
           THEN Turn(c, "io", w.fd, w.ev, rest, used[c])
           ELSE /\ timers' = rest
                /\ Return(c)
                /\ UNCHANGED <<tickled, pipe, eventVars, ready>>
      /\ UNCHANGED <<fixed, main, made, idleOver, seen, tasks, idle, stopped, gone, open, used>>

\* addEvent with a callback; epoll refuses a closed socket
AddWatch(c, fd, e) ==
  /\ Calls(c)
  /\ IF fd \in open /\ waiting[fd][e] = Nil
       THEN /\ waiting' = [waiting EXCEPT ![fd][e] = Watcher]
            /\ pending' = pending + 1
       ELSE UNCHANGED eventVars
  /\ UNCHANGED <<fixed, main, made, workerVars, schedVars, timerVars, pipe, netVars, state,
                 wait, cancelled>>

\* close: cancelAll, then the kernel's; a closed socket is unknown to fdman
Close(c, fd) ==
  /\ Calls(c)
  /\ fd \in open
  /\ TriggerAll(fd, Registered(fd))
  /\ AddTasks(Woken(fd, Registered(fd)))
  /\ open' = open \ {fd}
  /\ ready' = [ready EXCEPT ![fd] = {}]
  /\ UNCHANGED <<fixed, main, made, workerVars, active, idle, stopped, timerVars, gone, state,
                 wait, cancelled>>

\* addTask of a new coroutine
Spawn(c, d) ==
  /\ Calls(c)
  /\ state[d] = "none"
  /\ state' = [state EXCEPT ![d] = "READY"]
  /\ AddTasks(<<Resume(d)>>)
  /\ UNCHANGED <<fixed, main, made, workerVars, active, idle, stopped, timerVars, eventVars,
                 netVars, wait, cancelled>>

Finish(c) ==
  /\ Free(c)
  /\ state' = [state EXCEPT ![c] = "TERM"]
  /\ pc' = "take" /\ cur' = Nil /\ active' = active - 1
  /\ UNCHANGED <<fixed, main, made, idleOver, seen, tasks, idle, stopped, timerVars, pipe,
                 eventVars, netVars, wait, cancelled, used>>

-----------------------------------------------------------------------------
(* The kernel and the peers. *)

Arrive(fd, e) ==
  /\ fd \in open \ gone /\ e \notin ready[fd]
  /\ ready' = [ready EXCEPT ![fd] = @ \cup {e}]
  /\ UNCHANGED <<fixed, main, made, workerVars, schedVars, timerVars, pipe, eventVars, gone,
                 open, coVars>>

\* A hung up socket blocks nothing any more.
HangUp(fd) ==
  /\ fd \in open \ gone
  /\ gone' = gone \cup {fd}
  /\ ready' = [ready EXCEPT ![fd] = {}]
  /\ UNCHANGED <<fixed, main, made, workerVars, schedVars, timerVars, pipe, eventVars, open,
                 coVars>>

-----------------------------------------------------------------------------
Call(c) ==
  \/ \E fd \in Fd, e \in event : Io(c, fd, e) \/ AddWatch(c, fd, e)
  \/ \E fd \in Fd : Connect(c, fd) \/ Close(c, fd)
  \/ \E d \in Coroutine : Spawn(c, d)
  \/ Sleep(c)

\* The worker always has its next step, up to its end.
Schedule == Take \/ NoTask \/ EnterIdle \/ GetNextDuration \/ CheckStopping \/ IdlePass \/ Callback
Worker == Schedule \/ \E c \in Coroutine : Call(c) \/ Wake(c) \/ Finish(c)

Main == MainAddsTimer \/ CallStop \/ Stop \/ Joined \/ \E c \in Coroutine : MainAdds(c)
Net == \E fd \in Fd : HangUp(fd) \/ \E e \in event : Arrive(fd, e)

Next == Worker \/ Main \/ Net
Spec == Init /\ [][Next]_vars

\* The worker thread runs; the clock reaches the next timer (epoll_wait is given its
\* duration); the main thread joins a thread that has ended.
Expiry == timers # <<>> /\ \E n \in 1 .. Len(timers) : Pass(n)
FairSpec == Spec /\ WF_vars(Worker) /\ SF_vars(Expiry) /\ WF_vars(Joined)

-----------------------------------------------------------------------------
(* Properties. *)

\* Every field keeps its type; the counters of active and idle threads never pass the one
\* worker there is, and the tickle pipe is only written for a thread that is idle.
TypeOK ==
  /\ asWorker \in BOOLEAN /\ timed \subseteq Fd
  /\ main \in {"free", "stop", "stopping", "joined"} /\ made \in 0 .. MaxTimers
  /\ pc \in {"off", "take", "run", "callback", "idle", "check", "decide", "wait", "end"}
  /\ cur \in TaskType \cup {Nil} /\ idleOver \in BOOLEAN /\ seen \in TaskType \cup {Nil}
  /\ tasks \in Seq(TaskType) /\ timers \in Seq(TaskType)
  /\ active = IF pc \in {"run", "callback"} THEN 1 ELSE 0
  /\ idle = IF pc \in {"check", "decide", "wait"} THEN 1 ELSE 0
  /\ stopped \in BOOLEAN /\ tickled \in BOOLEAN /\ pipe \in BOOLEAN
  /\ waiting \in [Fd -> [event -> Coroutine \cup {Watcher, Nil}]] /\ pending \in Nat
  /\ ready \in [Fd -> SUBSET event] /\ gone \subseteq Fd /\ open \subseteq Fd
  /\ state \in [Coroutine -> {"none", "READY", "RUNNING", "TERM"}]
  /\ wait \in [Coroutine -> [call : {"none", "io", "connect", "sleep"},
                              fd : Fd \cup {Nil}, ev : event \cup {Nil}]]
  /\ cancelled \in [Coroutine -> BOOLEAN] /\ used \in [Coroutine -> Nat] /\ \A c \in Coroutine : used[c] <= MaxOps[c]

\* A task or a timer that resumes c, or adds the task that does.
Resumes(t, c) == t.co = c /\ t.kind \in {"resume", "wake"}
Count(s, c) == Cardinality({i \in DOMAIN s : Resumes(s[i], c)})
RegistrationsOf(c) == {p \in Fd \X event : waiting[p[1]][p[2]] = c}

\* Who will resume c: a place in the queue, the timer of a sleep, a registered event, or
\* the callback of a sleep that runs.
Wakers(c) ==
  Count(tasks, c) + Count(timers, c) + Cardinality(RegistrationsOf(c))
    + (IF pc = "callback" /\ Resumes(cur, c) THEN 1 ELSE 0)

\* A coroutine that has yielded has exactly one that will resume it, and one that runs or
\* has ended none: with none it would hang for ever, with two the second would resume it
\* out of another call, or find it not READY and be dropped (coroutine.cpp:325, :87).
OneWaker == \A c \in Coroutine : Wakers(c) = IF state[c] = "READY" THEN 1 ELSE 0

\* _M_pendingCountor counts the registered events: one short and the worker stops under a
\* waiting coroutine, one over and it never stops (ioman.cpp:128, :184, :226, :266, :417).
Registrations == {p \in Fd \X event : waiting[p[1]][p[2]] # Nil}
PendingCounted == pending = Cardinality(Registrations)

\* Once the worker has read the duration to the next timer, and while it waits in epoll_wait
\* that long, another next timer has tickled it: the flag that saves the second byte is
\* cleared where the duration is read, and by stop() (timer.cpp:140).
NoMissedTimer ==
  pc \in {"decide", "wait"} /\ timers # <<>> /\ Head(timers) # seen => pipe

\* A time-out that is due cancels the wait it was armed for, never the next turn of the
\* same call: callbacks are queued before what the events wake (ioman.cpp:351, :367).
OwnTimeout == \A i \in DOMAIN tasks :
  tasks[i].kind = "timeout" /\ Live(tasks[i]) =>
    \A j \in DOMAIN timers : timers[j].co # tasks[i].co

\* When the worker ends nobody is left waiting: no task, no registered event, every coroutine
\* at its end, and no timer but one the main thread has added since the worker last read
\* them, before it called stop(); none where the main thread is the worker (ioman.cpp:451).
EndIsDrained == pc = "end" =>
  /\ tasks = <<>> /\ seen = Nil
  /\ \A fd \in Fd : Registered(fd) = {}
  /\ \A c \in Coroutine : state[c] \in {"none", "TERM"}
  /\ \A i \in DOMAIN timers : timers[i].kind = "tick" /\ ~asWorker

\* The calls with a time limit: a sleep, a connect, reads and writes of a timed socket.
Limited(c) == wait[c].call \in {"sleep", "connect"} \/ (wait[c].call = "io" /\ wait[c].fd \in timed)
\* stop() returns, so every call with a time limit does: unless something is registered
\* that has no limit, the worker resumes every coroutine, runs dry and ends
\* (coroutine.cpp:248, ioman.cpp:320).
Unlimited == \E fd \in Fd, e \in event :
  waiting[fd][e] = Watcher \/ (waiting[fd][e] # Nil /\ ~Limited(waiting[fd][e]))
StopReturns == main = "stopping" ~> (main = "joined" \/ Unlimited)
=============================================================================
