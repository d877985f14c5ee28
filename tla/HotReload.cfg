CONSTANTS
  Files = {f, g}
  Texts = {t1, t2}
  NoText = NoText
  NoTool = NoTool
  Absent = Absent
  QueueLimit = 2
  Environment = {"replace"}
SPECIFICATION FairSpec
INVARIANTS
  NoLostChange
  NoLostWatch
PROPERTIES
  Converges
