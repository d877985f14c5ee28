CONSTANTS
  Writers = {w1, w2}
  a = a
  b = b
  c = c
  ToolLists <- MCToolLists
  GlobalTimeout <- MCGlobalTimeout
  NoTimeout = NoTimeout
  NoWriter = NoWriter
  NoTool = NoTool
SPECIFICATION Spec
INVARIANTS
  TypeOK
  NoGap
  BaselineServed
PROPERTIES
  NoChurn
  ImplementsCatalogue
