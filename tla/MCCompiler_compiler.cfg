\* Bytes of 2 bits; a frame of five spill slots; three frames.
SPECIFICATION Spec
CONSTANTS
  ByteBits = 2
  HalfBytes = 2
  WordBytes = 3
  DoubleBytes = 4
  ImmBits = 6
  OffsetBits = 7
  StackStart = 64
  StackFrameSize = 20
  MaxCallDepth = 3
  InputStart = 200
  InputBytes = 8
  InputWritable = TRUE
  MaxInstructions = 120
  Sources <- MCSources
  Texts <- MCTexts
CHECK_DEADLOCK FALSE
INVARIANTS CompiledMatchesIR RunsStayInBounds RetainsNoStackAddress
PROPERTIES RunEnds
