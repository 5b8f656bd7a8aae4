---------------------------- MODULE OracleParity ----------------------------
(***************************************************************************)
(* One bridged module on two interpreters that were written independently: *)
(* the Core API's executor with an E07ReferenceHost                        *)
(* (tools/run_core_api_v1.py) and the bridge's differential oracle         *)
(* (tools/run_ir_v1_bridge.py), in lockstep.  tools/check_core_api_v1.py   *)
(* compares only what the two write at the end.                            *)
(***************************************************************************)
EXTENDS CoreExecutor, BridgeRuntime

VARIABLES     \* with those of CoreExecutor and `package' of BridgeRuntime
  services,  \* of the E07ReferenceHost bound to the executor
  oracle     \* the machine of BridgeRuntime, NoOracle before it starts

NoOracle == <<>>

oracleVars == <<vars, package, services, oracle>>

----------------------------------------------------------------------------
(* What every module has that the bridge writes (_convert_function and     *)
(* convert): no parameters and no results of calls, none of the operations *)
(* the oracle does not know, the contract's memory and the oracle's depth. *)

InsnBridged(i) ==
  /\ i.op \notin {"cast", "select"}
  /\ i.op = "binop" => i.kind \in BinopKinds
  /\ i.op = "call" => i.args = <<>> /\ i.result = NoName

FunctionBridged(f) ==
  /\ f.params = <<>>
  /\ \A b \in Elements(f.blocks) :
       /\ \A i \in Elements(b.insns) : InsnBridged(i)
       /\ b.term.op \in {"jump", "branch", "return"}

ModuleBridged(m) ==
  /\ \A f \in Elements(m.functions) : FunctionBridged(f)
  /\ m.contract = Contract.version /\ m.memorySize = Contract.memorySize
  /\ m.maxCallDepth = OracleDepth
  /\ m.identityOK /\ m.observe \in Ids(m.slots) /\ InitialStateOK(m)

----------------------------------------------------------------------------
OracleInit ==
  /\ Init /\ package = image
  /\ services = Services(Contract) /\ oracle = NoOracle

\* ModuleImage, ReferenceExecutor and run() on one side, Runtime on the other.
Start ==
  /\ runs = 0
  /\ Load \/ Construct \/ Run
  /\ oracle' = IF phase = "loading" /\ phase' = "image" /\ SidecarOK THEN NewOracle ELSE oracle
  /\ UNCHANGED <<package, services>>

\* The executor calls its host, which answers at once.
HostCalled ==
  /\ Code.op = "host_call" /\ ~Exhausted
  /\ \A k \in DOMAIN Code.args : Known(Code.args[k])

HostAnswers ==
  LET reply == Reply(Contract, services, Code.name, ArgValues)
  IN  IF ServiceFails(Contract, Code.name, ArgValues)
      THEN Raise("host-failure", Code.name) /\ UNCHANGED services
      ELSE /\ services' = Served(Contract, services, Code.name, ArgValues)
           /\ IF Code.result = NoName THEN Replace(Advanced(Top)) ELSE Define(reply[1])

\* One instruction on either side.
Together ==
  /\ Execute
  /\ IF HostCalled THEN HostAnswers ELSE UNCHANGED services
  /\ oracle' = IF oracle.frames = <<>> THEN oracle ELSE NextMachine(oracle)
  /\ UNCHANGED package

OracleNext == Start \/ Together

OracleSpec == OracleInit /\ [][OracleNext]_oracleVars

----------------------------------------------------------------------------
(* The oracle and the Core API, which are written independently, run every *)
(* bridged module alike, operation by operation: both accept its memory    *)
(* image, count the same operations, hold the same slots, memory, frames   *)
(* and services, and fail for the same reason (run_ir_v1_bridge.py 278-323 *)
(* against executor.py; IR_SPEC_V1.md "Execution").                        *)
OracleAgrees ==
  /\ phase = "image" => oracle # NoOracle
  /\ phase = "rejected" => ~(ValidIR(package) /\ SidecarOK)
  /\ runs = 1 =>
       /\ oracle.operations = operations
       /\ oracle.state = state /\ oracle.memory = memory
       /\ oracle.frames = stack /\ oracle.services = services
       /\ oracle.fault = IF outcome.kind = "fault" THEN outcome.fault ELSE NoName
=============================================================================
