CONSTANTS
  Files = {f}
  Texts = {t1, t2}
  NoText = NoText
  NoTool = NoTool
  Absent = Absent
  QueueLimit = 2
  Environment = {"replace", "chmod", "overflow", "ancestor"}
SPECIFICATION FairSpec
INVARIANTS
  TypeOK
  DebounceMatchesTimer
PROPERTIES
  RescanHappens
  CancelStops
