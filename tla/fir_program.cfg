SPECIFICATION MCSpec
CONSTANTS
  HalfMod = 32
  HexBase = 8
  Sizes <- SmallSizes
  Samples <- Corners
  StartCycles <- Starts
  Garbage = 21
  MaxDigits = 6
INVARIANTS TypeOK FilterCorrect StaysInBounds CountersElapsed ExitCodeTells NothingLostInPrint
PROPERTIES Exits
