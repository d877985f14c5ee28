CONSTANTS
  Amounts = {0, 1, 3, 7, 8, 16}
  MaxLexemes = 5
  timeoutUnits <- MCUnits
  maxDuration = 15
SPECIFICATION Spec
INVARIANTS TypeOK ParsesExactly
