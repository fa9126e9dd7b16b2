CONSTANTS
  a1 = a1
  Agents = {a1}
  Polls = {p1}
  NoEvent = NoEvent
  PollAgent <- OneAgentsPolls
  Reports = {r1}
  Threshold = 1
  NoAgent = NoAgent
  MaxTime = 4
SPECIFICATION Spec
PROPERTY OfflineMeansMissedPolls
