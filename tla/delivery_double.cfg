SPECIFICATION Spec
CONSTANTS
  a1 = a1
  a2 = a2
  p1 = p1
  p2 = p2
  c1 = c1
  c2 = c2
  NoEvent = NoEvent
  NoCmd = NoCmd
  Agents = {a1}
  Polls = {p1, p2}
  Cmds = {c1, c2}
  PollAgent <- TwoPollsOfA1
  CmdAgent <- AllForA1
  Sweeps = FALSE
  PoolSize = 3
  MaxFaults = 0
INVARIANTS
  AtMostOnce
