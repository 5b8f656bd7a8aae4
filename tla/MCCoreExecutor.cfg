\* ByteBits scales the widths; two runs of one executor, then a second one.
CONSTANTS
  ByteBits = 2
  Documents <- MCDocuments
  Parsed <- ProgramIn
  HostSymbols = {"in"}
  HostContract = "1"
  HostReplies <- MCHostReplies
  RunArgs <- MCRunArgs
  MaxExecutors = 2
  MaxRuns = 2
SPECIFICATION Spec
INVARIANTS TypeOK ValuesFit BlockLocalValues CallStack OperationBudget AdmittedModulesDoNotGoWrong
PROPERTIES NoEffectBeyondBudget EveryRunEnds
CHECK_DEADLOCK FALSE
