-------------------------- MODULE AOTImplementsCore --------------------------
(***************************************************************************)
(* The generated C implements the reference executor: every run of a       *)
(* native module is the only run of a new ReferenceExecutor for the same   *)
(* image, with the same host.  or_reset is the construction, the C frames  *)
(* are the calls of execute_function with those values of v that IR V1     *)
(* says are defined, and a run that fails has failed at its or_fail: what  *)
(* unwinds after it is not visible.                                        *)
(***************************************************************************)
EXTENDS AOTModule

CONSTANTS
  HostSymbols,   \* of the HostBinding the reference executor is given
  HostContract

\* A parameter is read where IR V1 and the reference executor both define it:
\* control never comes back to the entry block of a function with parameters.
EntryNotReentered(f) ==
  f.params # <<>> =>
    \A b \in Elements(f.blocks) : f.blocks[1].id \notin Elements(b.term.targets)

HostProvides(m) == m.contract = HostContract /\ m.hosts \subseteq HostSymbols

ASSUME ComparableAssumption ==
  \A d \in Documents :
    /\ HostProvides(Parsed(d))
    /\ \A f \in Elements(Parsed(d).functions) : EntryNotReentered(f)

----------------------------------------------------------------------------
NoValues == [n \in {} |-> 0]

\* The values of v that are defined where the frame stands, with their types.
Environment(frame) ==
  LET defined == Defined(FnOf(frame), frame.blk, frame.pc)
  IN  [n \in {d[1] : d \in defined} |->
         [value |-> frame.v[n], type |-> (CHOOSE d \in defined : d[1] = n)[2]]]

Activation(frame) ==
  [fn |-> frame.fn, blk |-> frame.blk, pc |-> frame.pc, vals |-> Environment(frame)]

CorePhase ==
  CASE phase = "translating" -> "loading"
    [] phase = "refused"     -> IF Admissible(image) THEN "image" ELSE "rejected"
    [] phase = "idle"        -> IF runs = 0 THEN "image" ELSE "ready"
    [] phase = "entered"     -> "ready"
    [] phase = "running"     -> "running"
    [] phase = "unwinding"   -> "ready"

CoreOutcome ==
  CASE runs = 0 \/ phase \in {"entered", "running"} -> [kind |-> "none"]
    [] runs > 0 /\ phase \in {"idle", "unwinding"} ->
         IF failed THEN [kind |-> "fault", fault |-> error.fault, name |-> error.name]
         ELSE [kind |-> "returned",
               value |-> IF entryHas THEN <<entryReturn>> ELSE <<>>]

Core ==
  INSTANCE CoreExecutor WITH
    RunArgs      <- {<<>>},
    MaxExecutors <- MaxRuns,
    phase     <- CorePhase,
    executors <- runs,
    runs      <- IF phase = "entered" THEN runs - 1 ELSE runs,
    state     <- IF runs = 0 THEN NoValues ELSE state,
    memory    <- IF runs = 0 THEN NoValues ELSE memory,
    stack     <- IF phase = "running" THEN [k \in DOMAIN frames |-> Activation(frames[k])]
                 ELSE <<>>,
    outcome   <- CoreOutcome,
    hostLog   <- requests

(* The same operations are counted, the same faults raised at the same     *)
(* step, the same host calls made with the same arguments and the same     *)
(* state, memory and return values left, in every run (AOT_TRANSLATOR_V1,  *)
(* AOT_HARDENING_V1: equivalence with the Core API reference path).        *)
ImplementsCore == Core!Init /\ [][Core!Next]_(Core!vars)
=============================================================================
