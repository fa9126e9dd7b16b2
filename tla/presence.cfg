CONSTANTS
  a1 = a1
  Agents = {a1}
  Polls = {p1, p2}
  NoEvent = NoEvent
  PollAgent <- OneAgentsPolls
  Reports = {r1, r2}
  Threshold = 1
  NoAgent = NoAgent
  MaxTime = 4
SPECIFICATION Spec
SYMMETRY SlotSymmetry
INVARIANT TypeOK
PROPERTIES LastSeenOnlyGrows SweepSparesFreshDevices SweepPreservesLastSeen SweepSparesPollers
