SPECIFICATION Spec
CONSTANTS
  j1 = j1
  j2 = j2
  t1 = t1
  t2 = t2
  s1 = s1
  s2 = s2
  NoJob = NoJob
  Jobs = {j1, j2}
  Txns = {t1, t2}
  Sweeps = {s1, s2}
INVARIANTS
  TypeOK
PROPERTIES
  ContractWhenSerial
  TerminalLeftByStaleWriterOnly
SYMMETRY Symmetry
CHECK_DEADLOCK FALSE
