CONSTANTS
  Calls = {c1, c2}
  MaxConcurrent = 1
SPECIFICATION FairSpec
INVARIANTS
  TypeOK
  SlotConservation
  ScriptsBounded
  NoScriptOutlivesCall
  SuccessIsComplete
  KillTakesGroup
PROPERTIES
  BoundedCallReturns
