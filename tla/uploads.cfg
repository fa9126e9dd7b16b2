CONSTANTS
  Files = {f1}
  Foreign = Foreign
  Slots = {s1, s2}
  NoFile = NoFile
  Total = 2
  MaxStrangers = 1
  MaxFaults = 1
SPECIFICATION FairSpec
INVARIANTS TypeOK ToldIsStored
PROPERTY ImplementsLedger
PROPERTY UploadsEnd
