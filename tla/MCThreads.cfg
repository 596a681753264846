\* Two clients of one dispatcher; their messages queue two transactions, a third runs; then the connection.
SPECIFICATION MCSpec
CONSTANTS
  a = a   b = b   c = c   e = e   t1 = t1   t2 = t2   t3 = t3   d = d   col = col
  w1 = w1 w2 = w2 w3 = w3 w4 = w4 w5 = w5
  Thread = {w1, w2, w3, w4, w5}
  Task <- MCTask
  NoTask = NoTask
  Transaction <- MCTransaction
  Colector = col
  DispatcherTask = d
  Client = {a, b, c, e}
  MaxMessages <- MCMessages
  Kinds <- MCKinds
  MaxTime = 1
  MaxConnections = 2
  Effect <- MCEffect
  UnderWay = t3
  MaxStanzas = 2
  OnlineUsers = 1
INVARIANTS
  ConnectionsAccounted
  TasksHaveThreads
  MessagesInOrder
  ConnectionCloses
PROPERTIES
  WorkGetsDone
  ProcessEnds
CHECK_DEADLOCK FALSE
