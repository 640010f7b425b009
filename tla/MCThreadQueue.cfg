SPECIFICATION FairSpec
CONSTANTS
  Waiters = {w1, w2}
  Pollers = {p1}
  Msg = {m1, m2, m3}
  Node = {n1, n2, n3}
  NULL = NULL
  MSGPOOL_SIZE = 1
INVARIANTS TypeOK QueueShape NoLostWakeup PoolBounded
PROPERTIES DeliveredForGood ImplementsFifo EventuallyDelivered PollReturns
