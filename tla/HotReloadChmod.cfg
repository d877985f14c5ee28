CONSTANTS
  Files = {f}
  Texts = {t1}
  NoText = NoText
  NoTool = NoTool
  Absent = Absent
  QueueLimit = 2
  Environment = {"chmod"}
SPECIFICATION FairSpec
PROPERTIES
  Converges
