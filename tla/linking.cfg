CONSTANTS
  Codes = {c1, c2}
  Unknown = Unknown
  Devices = {d1, d2}
  Requests = {q1, q2, q3}
  NoCode = NoCode
  NoDevice = NoDevice
SPECIFICATION FairSpec
INVARIANTS TypeOK OneDevicePerCode SpentMeansLinked
PROPERTIES RefusalsJustified EveryRequestEnds
