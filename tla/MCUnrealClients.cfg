\* One game instance with its clients, up to two runs of up to two host calls.
CONSTANTS
  hosted = hosted
  plain = plain
  missing = missing
  broken = broken
  a1 = a1
  a2 = a2
  Actors = {a1, a2}
  Packaged = packaged
  Blueprint = blueprint
  Subsystem = subsystem
  Wrappers = {subsystem}
  OneShot = oneShot
  Owners = {a1, a2, packaged}
  Files = {hosted, plain, missing, broken}
  Module <- MCModule
  None = none
  MaxRuns = 2
  MaxCalls = 2
SPECIFICATION CSpec
INVARIANTS NoHandlerOutlivesItsClient ReportIsOfOneRun NothingLeftMapped
PROPERTIES GameThreadReturns
CHECK_DEADLOCK FALSE
