CONSTANTS
  maxToolOutputBytes = 9
  TagLength = 3
  MaxCharacters = 3
  Texts <- MCTexts
SPECIFICATION Spec
INVARIANTS CaptureIsExact NoSilentLoss TextStaysText
