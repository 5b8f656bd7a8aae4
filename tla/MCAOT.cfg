\* Two runs of one native module, its callback bound or not.
CONSTANTS
  ByteBits = 2
  Documents <- MCDocuments
  Parsed <- ProgramIn
  HostSymbols = {"in"}
  HostContract = "1"
  HostReplies <- MCHostReplies
  MaxRuns = 2
SPECIFICATION Spec
PROPERTIES ImplementsCore SilentUnwinding EveryRunReturns
CHECK_DEADLOCK FALSE
