SPECIFICATION FairSpec
CONSTANTS
  a1 = a1
  a2 = a2
  p1 = p1
  p2 = p2
  c1 = c1
  c2 = c2
  NoEvent = NoEvent
  NoCmd = NoCmd
  Agents = {a1}
  Polls = {p1, p2}
  Cmds = {c1, c2}
  PollAgent <- TwoPollsOfA1
  CmdAgent <- AllForA1
  Sweeps = TRUE
  PoolSize = 3
  MaxFaults = 2
INVARIANTS
  ReceivedIsDelivered
  InOrder
PROPERTIES
  DeliveredIsFinal
  EveryPollEnds
