CONSTANTS
  Parts = {"server"}
  c1 = c1
  w1 = w1
  w2 = w2
  t1 = t1
  t2 = t2
  null = null
  listener = listener
  Conns <- MCConns
  Workers <- MCWorkers
  Tasks <- MCTasks
  KernelBytes = 2
  MaxSteps = 2
  Null = null
  Listener = listener
  High = 4
  ByteXor <- MCXor
  Commands <- MCCommands
  Keys <- MCKeys
  BufSize = 5
  MaxSent = 3
  Senders <- MCWorkers
  Replies <- MCReplies
  Room = 5
  MaxReplies = 3
  MaxLen = 66
SPECIFICATION MCSpec
INVARIANT RemovesItselfOnce
CHECK_DEADLOCK FALSE
