\* A thread of raft and a clerk, each with its own channel to one peer.
CONSTANTS
  t1 = t1
  t2 = t2
  peer1 = peer1
  peer2 = peer2
  Nil = Nil
  Caller = {t1, t2}
  Channel = {peer1, peer2}
  IoThread = {io1}
  Worker = {w1}
  ChannelOf <- Apart
  MethodsOf <- NodeAndClerk
  MaxCalls <- TwoAndOne
  MissingKeys = FALSE
  MaxConns = 5
  MaxCrashes = 1
SPECIFICATION FairSpec
INVARIANTS
  TypeOK
  OwnAnswer
  NothingTwice
  RequestsInv
  ArgumentsArrive
  HeededIsGiven
PROPERTIES
  CallsReturn
CHECK_DEADLOCK FALSE
