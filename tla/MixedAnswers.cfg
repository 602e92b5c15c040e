\* Two heartbeat rounds of one leader share the channel to a peer.
CONSTANTS
  t1 = t1
  t2 = t2
  peer1 = peer1
  peer2 = peer2
  Nil = Nil
  Caller = {t1, t2}
  Channel = {peer1}
  IoThread = {io1}
  Worker = {w1}
  ChannelOf <- Together
  MethodsOf <- Heartbeats
  MaxCalls <- OneEach
  MissingKeys = FALSE
  MaxConns = 2
  MaxCrashes = 0
SPECIFICATION Spec
INVARIANT PushIsDone
CHECK_DEADLOCK FALSE
