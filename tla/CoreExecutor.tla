---------------------------- MODULE CoreExecutor ----------------------------
(***************************************************************************)
(* The Core API V1 reference path: ModuleImage admission and the           *)
(* ReferenceExecutor of openrecomp/executor.py with the GuestState,        *)
(* GuestMemory and HostBinding of openrecomp/runtime.py.                   *)
(*                                                                         *)
(* One step executes one IR instruction or terminator: what _step counts.  *)
(* The recursion of execute_function is the sequence `stack' of frames,    *)
(* the last one running.  A CoreRuntimeError is an outcome: it unwinds the *)
(* whole stack at once and leaves state, memory and operations as they     *)
(* are, so the next run of the same executor continues from them.          *)
(***************************************************************************)
EXTENDS GuestMemory

CONSTANTS
  Documents,      \* the files a load may be given, valid or not
  Parsed(_),      \* the module in a file: a record as in IRModule
  HostSymbols,    \* HostBinding.symbols
  HostContract,   \* HostBinding.contract_version
  HostReplies,    \* what a host callback may return: <<>> (None) or <<value>>
  RunArgs,        \* the argument lists run() is given, <<>> by default
  MaxExecutors,   \* bound: executors constructed for the image
  MaxRuns         \* bound: run() calls, all executors together

ASSUME DocumentsAssumption == \A d \in Documents : WellShaped(Parsed(d))

\* Callable[[list[int]], int | None], and the list[int] of run()
ASSUME IntegersAssumption ==
  /\ \A reply \in HostReplies : reply # <<>> => reply[1] \in Int
  /\ RunArgs \subseteq Seq(Int)

ASSUME BoundsAssumption == MaxExecutors \in Nat /\ MaxRuns \in Nat

VARIABLES
  document,    \* the file given to the loader
  phase,       \* "loading", "rejected", "image", "ready", "running"
  executors,   \* executors constructed so far
  runs,        \* run() calls so far
  operations,  \* ReferenceExecutor.operations
  state,       \* GuestState.values
  memory,      \* GuestMemory.data
  stack,       \* active calls: [fn, blk, pc, vals], the last one running
  outcome,     \* how the last run ended
  hostLog      \* the host calls made by this executor, in order

vars == <<document, phase, executors, runs, operations, state, memory, stack,
          outcome, hostLog>>

loaderVars == <<document, executors, runs>>
dataVars   == <<state, memory, hostLog>>

NoOutcome      == [kind |-> "none"]
Returned(v)    == [kind |-> "returned", value |-> v]
Fault(f, name) == [kind |-> "fault", fault |-> f, name |-> name]

NoValues == [n \in {} |-> 0]

\* The module in that file, ModuleImage once it is loaded.
image == Parsed(document)

----------------------------------------------------------------------------
(* The frame that runs and the code it is about to execute. *)

Depth(s) == Len(s) - 1

FnOf(frame)   == image.functions[frame.fn]
CodeOf(frame) == CodeAt(FnOf(frame).blocks[frame.blk], frame.pc)

Top  == stack[Len(stack)]
Fn   == FnOf(Top)
Code == CodeOf(Top)

Known(o)   == o.ref = NoName \/ o.ref \in DOMAIN Top.vals
Value(o)   == IF o.ref = NoName THEN Mask(o.const, TypeBits[o.type]) ELSE Top.vals[o.ref].value
TypeOf(o)  == IF o.ref = NoName THEN o.type ELSE Top.vals[o.ref].type
Arg(k)     == Value(Code.args[k])
ArgValues  == [k \in DOMAIN Code.args |-> Arg(k)]

\* The operands an instruction evaluates, in order: a select takes one branch.
Evaluated(c) ==
  IF c.op = "select" /\ Known(c.args[1])
  THEN <<c.args[1], IF Value(c.args[1]) # 0 THEN c.args[2] ELSE c.args[3]>>
  ELSE c.args

----------------------------------------------------------------------------
(* The step budget.  _step counts first and compares afterwards. *)

\* Compared before it is counted.
FaultyExhausted == operations > image.maxOperations

Exhausted == operations + 1 > image.maxOperations

\* The step of an instruction within the budget whose operands are defined.
At(op) ==
  /\ phase = "running"
  /\ Code.op = op
  /\ ~Exhausted
  /\ \A k \in DOMAIN Evaluated(Code) : Known(Evaluated(Code)[k])
  /\ operations' = operations + 1
  /\ UNCHANGED loaderVars

Raise(f, name) ==
  /\ phase' = "ready"
  /\ stack' = <<>>
  /\ outcome' = Fault(f, name)

----------------------------------------------------------------------------
(* Frames. *)

Replace(frame) ==
  /\ stack' = [stack EXCEPT ![Len(stack)] = frame]
  /\ UNCHANGED <<phase, outcome>>

Frame(fn, blk, pc, vals) == [fn |-> fn, blk |-> blk, pc |-> pc, vals |-> vals]

Advanced(frame) == Frame(frame.fn, frame.blk, frame.pc + 1, frame.vals)

\* frame, after the instruction insn has defined its result as v of type t.
With(frame, insn, v) ==
  LET names == DOMAIN frame.vals \cup {insn.result}
  IN  Frame(frame.fn, frame.blk, frame.pc + 1,
            [n \in names |-> IF n = insn.result THEN [value |-> v, type |-> insn.type]
                             ELSE frame.vals[n]])

\* Without the mask of line 217: the result is stored as it was computed.
FaultyAssigned(frame, insn, v) == With(frame, insn, v)

\* values[result] = (result & mask, result_type)
Assigned(frame, insn, v) == With(frame, insn, Mask(v, TypeBits[insn.type]))

Define(v) == Replace(Assigned(Top, Code, v))

EntryFrame(fn, args) ==
  LET params == image.functions[fn].params
      Cell(k) == [value |-> Mask(args[k], TypeBits[params[k].type]), type |-> params[k].type]
  IN  Frame(fn, 1, 1, [n \in Ids(params) |-> Cell(IndexOf(params, n))])

\* `values' created once per call: temporaries survive the jump.
FaultyBlockFrame(frame, blk) == Frame(frame.fn, blk, 1, frame.vals)

\* A jump that leaves the instruction index where it was.
FaultyBlockEntry(frame, blk) == Frame(frame.fn, blk, frame.pc, NoValues)

\* A new block starts with no values: parameters were bound on entry only.
BlockFrame(frame, blk) == Frame(frame.fn, blk, 1, NoValues)

GoTo(id) ==
  IF id \in Ids(Fn.blocks) THEN Replace(BlockFrame(Top, IndexOf(Fn.blocks, id)))
  ELSE Raise("unknown-block", id)

\* One frame more than the limit.
FaultyTooDeep(depth) == depth > image.maxCallDepth + 1

TooDeep(depth) == depth > image.maxCallDepth

\* execute_function's checks, in order, then its first iteration.
Enter(name, args, depth) ==
  IF TooDeep(depth) THEN Raise("call-depth", name)
  ELSE IF name \notin Ids(image.functions) THEN Raise("unknown-function", name)
  ELSE IF Len(args) # Len(Callee(image, name).params) THEN Raise("argument-count", name)
  ELSE /\ phase' = "running"
       /\ stack' = Append(stack, EntryFrame(IndexOf(image.functions, name), args))
       /\ outcome' = NoOutcome

----------------------------------------------------------------------------
(* Loading, construction, run(). *)

Init ==
  /\ document \in Documents
  /\ phase = "loading"
  /\ executors = 0 /\ runs = 0 /\ operations = 0
  /\ state = NoValues /\ memory = NoValues
  /\ stack = <<>> /\ outcome = NoOutcome /\ hostLog = <<>>

\* ModuleImage.from_documents
Load ==
  /\ phase = "loading"
  /\ phase' = IF Admissible(image) THEN "image" ELSE "rejected"
  /\ UNCHANGED <<loaderVars, operations, dataVars, stack, outcome>>

HostBound == image.contract = HostContract /\ image.hosts \subseteq HostSymbols

InitialState ==
  [slot \in Ids(image.slots) |->
     LET given == {v \in Elements(image.initialState) : v.slot = slot}
     IN  IF given = {} THEN 0
         ELSE Mask((CHOOSE v \in given : TRUE).value, TypeBits[SlotType(image, slot)])]

\* ReferenceExecutor.__init__: a new executor, with a new state and memory.
Construct ==
  /\ phase \in {"image", "ready"}
  /\ executors < MaxExecutors
  /\ executors' = executors + 1
  /\ IF HostBound
     THEN /\ phase' = "ready"
          /\ operations' = 0
          /\ state' = InitialState
          /\ memory' = InitialMemory(image)
          /\ outcome' = NoOutcome
          /\ hostLog' = <<>>
     ELSE /\ outcome' = Fault("host-binding", NoName)
          /\ UNCHANGED <<phase, operations, dataVars>>
  /\ UNCHANGED <<document, runs, stack>>

\* run(): no state is reset between two runs of an executor.
Run ==
  /\ phase = "ready"
  /\ executors > 0
  /\ runs < MaxRuns
  /\ runs' = runs + 1
  /\ \E args \in RunArgs : Enter(image.entry, args, 0)
  /\ UNCHANGED <<document, executors, operations, dataVars>>

----------------------------------------------------------------------------
(* What every instruction can raise before it has any effect. *)

OperationLimit ==
  /\ phase = "running"
  /\ Exhausted
  /\ operations' = operations + 1
  /\ Raise("operation-limit", NoName)
  /\ UNCHANGED <<loaderVars, dataVars>>

UndefinedValue ==
  /\ phase = "running"
  /\ ~Exhausted
  /\ LET operands == Evaluated(Code)
     IN  \E k \in DOMAIN operands :
           /\ ~Known(operands[k])
           /\ \A j \in DOMAIN operands : j < k => Known(operands[j])
           /\ Raise("undefined-value", operands[k].ref)
  /\ operations' = operations + 1
  /\ UNCHANGED <<loaderVars, dataVars>>

----------------------------------------------------------------------------
(* Instructions. *)

ConstInsn == At("const") /\ Define(Code.imm) /\ UNCHANGED dataVars

ReadState ==
  /\ At("read_state")
  /\ IF Code.name \in DOMAIN state THEN Define(state[Code.name])
     ELSE Raise("undeclared-slot", Code.name)
  /\ UNCHANGED dataVars

WriteState ==
  /\ At("write_state")
  /\ IF Code.name \in DOMAIN state
     THEN /\ state' = [state EXCEPT
                 ![Code.name] = Mask(Arg(1), TypeBits[SlotType(image, Code.name)])]
          /\ Replace(Advanced(Top))
     ELSE Raise("undeclared-slot", Code.name) /\ UNCHANGED state
  /\ UNCHANGED <<memory, hostLog>>

BinopInsn ==
  /\ At("binop")
  /\ LET bits == TypeBits[Code.type]
     IN  IF ShiftFault(Code.kind, Arg(2), bits) THEN Raise("shift-count", NoName)
         ELSE Define(BinopV11(Code.kind, Arg(1), Arg(2), bits))
  /\ UNCHANGED dataVars

CompareInsn ==
  /\ At("compare")
  /\ Define(Compare(Code.kind, Arg(1), Arg(2), TypeBits[TypeOf(Code.args[1])]))
  /\ UNCHANGED dataVars

CastInsn ==
  /\ At("cast")
  /\ Define(Cast(Code.kind, Arg(1), TypeBits[TypeOf(Code.args[1])], TypeBits[Code.type]))
  /\ UNCHANGED dataVars

SelectInsn ==
  /\ At("select")
  /\ Define(IF Arg(1) # 0 THEN Arg(2) ELSE Arg(3))
  /\ UNCHANGED dataVars

LoadInsn ==
  /\ At("load")
  /\ LET address == Arg(1)
         fault == AccessFault(image, Code, address)
     IN  IF TypeOf(Code.args[1]) # image.addressType THEN Raise("address-type", NoName)
         ELSE IF fault # NoName THEN Raise(fault, NoName)
         ELSE Define(LoadValue(image, memory, Code, address))
  /\ UNCHANGED dataVars

StoreInsn ==
  /\ At("store")
  /\ LET address == Arg(2)
         fault == AccessFault(image, Code, address)
     IN  IF TypeOf(Code.args[2]) # image.addressType
         THEN Raise("address-type", NoName) /\ UNCHANGED memory
         ELSE IF fault # NoName THEN Raise(fault, NoName) /\ UNCHANGED memory
         ELSE /\ memory' = Stored(image, memory, Code, address, Mask(Arg(1), Code.width))
              /\ Replace(Advanced(Top))
  /\ UNCHANGED <<state, hostLog>>

CallInsn ==
  /\ At("call")
  /\ Enter(Code.name, ArgValues, Depth(stack) + 1)
  /\ UNCHANGED dataVars

\* The host is called, then answers: an exception, None or a value.
HostCall ==
  /\ At("host_call")
  /\ hostLog' = Append(hostLog, <<Code.name, ArgValues>>)
  /\ \/ Raise("host-failure", Code.name)
     \/ \E reply \in HostReplies :
          IF Code.result = NoName THEN Replace(Advanced(Top))
          ELSE IF reply = <<>> THEN Raise("host-void", Code.name)
          ELSE Define(reply[1])
  /\ UNCHANGED <<state, memory>>

----------------------------------------------------------------------------
(* Terminators. *)

\* A jump that is not counted as an operation.
FaultyJump ==
  /\ phase = "running"
  /\ Code.op = "jump"
  /\ GoTo(Code.targets[1])
  /\ UNCHANGED <<loaderVars, operations, dataVars>>

Jump == At("jump") /\ GoTo(Code.targets[1]) /\ UNCHANGED dataVars

Branch ==
  /\ At("branch")
  /\ GoTo(IF Arg(1) # 0 THEN Code.targets[1] ELSE Code.targets[2])
  /\ UNCHANGED dataVars

\* address_to_block: of blocks with the same address the last one is kept.
BlockAtAddress(f, target) ==
  {b \in DOMAIN f.blocks : /\ f.blocks[b].address = target
                           /\ \A c \in DOMAIN f.blocks :
                                f.blocks[c].address = target => c <= b}

IndirectJump ==
  /\ At("indirect_jump")
  /\ LET found == BlockAtAddress(Fn, Arg(1))
         candidate == Fn.blocks[CHOOSE b \in found : TRUE].id
     IN  IF found = {} \/ candidate \notin Elements(Code.targets)
         THEN Raise("indirect-target", NoName)
         ELSE GoTo(candidate)
  /\ UNCHANGED dataVars

Trap == At("trap") /\ Raise("trap", NoName) /\ UNCHANGED dataVars

\* The end of the entry function ends the run; the end of a callee resumes
\* its caller after the call, which stores the result if it wants one.
Return ==
  /\ At("return")
  /\ LET caller == stack[Len(stack) - 1]
         call   == CodeOf(caller)
         Resume(frame) == /\ stack' = Append(SubSeq(stack, 1, Len(stack) - 2), frame)
                          /\ UNCHANGED <<phase, outcome>>
     IN  IF Len(stack) = 1
         THEN /\ phase' = "ready" /\ stack' = <<>>
              /\ outcome' = Returned(ArgValues)
         ELSE IF call.result = NoName THEN Resume(Advanced(caller))
         ELSE IF Code.args = <<>> THEN Raise("void-callee", call.name)
         ELSE Resume(Assigned(caller, call, Arg(1)))
  /\ UNCHANGED dataVars

----------------------------------------------------------------------------
Instruction ==
  \/ ConstInsn \/ ReadState \/ WriteState \/ BinopInsn \/ CompareInsn
  \/ CastInsn \/ SelectInsn \/ LoadInsn \/ StoreInsn \/ CallInsn \/ HostCall

Terminator == Jump \/ Branch \/ IndirectJump \/ Trap \/ Return

Execute == OperationLimit \/ UndefinedValue \/ Instruction \/ Terminator

Next == Load \/ Construct \/ Run \/ Execute

\* A started run is carried to its end by the interpreter; whether a host
\* constructs an executor or runs it again is its own choice.
Spec == Init /\ [][Next]_vars /\ WF_vars(Execute)

----------------------------------------------------------------------------
(* Invariants. *)

FrameOK(frame) ==
  /\ frame.fn \in DOMAIN image.functions
  /\ frame.blk \in DOMAIN FnOf(frame).blocks
  /\ frame.pc \in 1..(Len(FnOf(frame).blocks[frame.blk].insns) + 1)

OutcomeOK ==
  \/ outcome = NoOutcome
  \/ outcome.kind = "returned" /\ Len(outcome.value) <= 1
  \/ outcome.kind = "fault"

(* Types of the variables: a run is in progress exactly while there are    *)
(* frames, and each frame stands at an instruction or terminator.          *)
TypeOK ==
  /\ document \in Documents
  /\ phase \in {"loading", "rejected", "image", "ready", "running"}
  /\ executors \in 0..MaxExecutors /\ runs \in 0..MaxRuns
  /\ operations \in Nat
  /\ \A k \in DOMAIN stack : FrameOK(stack[k])
  /\ phase = "running" <=> stack # <<>>
  /\ OutcomeOK

(* Every value a program can observe is a bit pattern of its declared      *)
(* type: state slots, memory bytes and temporaries, whatever the host      *)
(* replied (runtime.py GuestState.write, GuestMemory.store; executor.py    *)
(* lines 214-219 and 241).                                                 *)
ValuesFit ==
  executors > 0 /\ phase # "image" =>
    /\ \A slot \in DOMAIN state : Fits(state[slot], SlotType(image, slot))
    /\ \A a \in DOMAIN memory : memory[a] \in Byte
    /\ \A k \in DOMAIN stack : \A n \in DOMAIN stack[k].vals :
         Fits(stack[k].vals[n].value, stack[k].vals[n].type)

Typed(vals) == {<<n, vals[n].type>> : n \in DOMAIN vals}

(* Temporaries are block-local (IR_SPEC_V1.md section 6): in every active  *)
(* frame, exactly the results of the instructions already executed in the  *)
(* current block are defined, with their declared types, and besides them  *)
(* at most the function's parameters, in the entry block.                  *)
BlockLocalValues ==
  \A k \in DOMAIN stack :
    LET frame == stack[k]
        f     == FnOf(frame)
    IN  /\ ResultsBefore(f.blocks[frame.blk], frame.pc) \subseteq Typed(frame.vals)
        /\ Typed(frame.vals) \subseteq Defined(f, frame.blk, frame.pc)

(* The stack is the chain of calls in progress: every frame but the last   *)
(* waits at the call that created the next one, and there are never more   *)
(* than max_call_depth nested calls (execute_function, lines 194-195, 222).*)
(* That a call is not refused earlier is said where two machines with the  *)
(* same limit are compared: RV32IParity's OracleAgrees, ImplementsCore.    *)
CallStack ==
  /\ Len(stack) <= image.maxCallDepth + 1
  /\ \A k \in 1..(Len(stack) - 1) :
       /\ CodeOf(stack[k]).op = "call"
       /\ image.functions[stack[k + 1].fn].id = CodeOf(stack[k]).name

(* The step counter never runs past the limit by more than the one step    *)
(* that each run is refused, a run is refused for the limit only when the  *)
(* limit is passed, and once it is passed no run ends in any other way,    *)
(* unless it could not begin: the budget is the executor's, not the run's  *)
(* (executor.py _step).                                                    *)
LimitFault == Fault("operation-limit", NoName)

OperationBudget ==
  /\ operations <= image.maxOperations + runs
  /\ outcome = LimitFault => operations > image.maxOperations
  /\ phase = "ready" /\ operations > image.maxOperations =>
       outcome \in {LimitFault, Fault("argument-count", image.entry)}

(* The faults that validation is there to exclude.                         *)
InternalFaults ==
  {"undefined-value", "undeclared-slot", "unknown-function", "argument-count",
   "address-type", "void-callee", "unknown-block"}

ParameterNames == UNION {Ids(f.params) : f \in Elements(image.functions)}

(* A module the loader admitted never fails for an internal reason: no     *)
(* undefined temporary, undeclared slot, unknown function or block,        *)
(* argument mismatch, address of a wrong type or missing result.  Two      *)
(* exceptions: run() was not given the arguments of the entry function,    *)
(* and (which the validator lets through) a parameter is no longer defined *)
(* when control comes back to the entry block.                             *)
AdmittedModulesDoNotGoWrong ==
  outcome.kind = "fault" /\ outcome.fault \in InternalFaults =>
    \/ outcome.fault = "undefined-value" /\ outcome.name \in ParameterNames
    \/ outcome.fault = "argument-count" /\ outcome.name = image.entry

(* IR_SPEC_V1.md line 85: "Function parameters are available in the entry  *)
(* block."  So no admitted module fails because a parameter is undefined.  *)
ParametersAvailableInEntryBlock ==
  outcome.kind = "fault" /\ outcome.fault = "undefined-value" =>
    outcome.name \notin ParameterNames

(* A step that the limit refuses has no effect on guest state, memory or   *)
(* the host: the count is compared before the instruction is executed.     *)
NoEffectBeyondBudget ==
  [][operations' > image.maxOperations => UNCHANGED dataVars]_vars

(* Every run ends, by returning or by a fault, whatever the program and    *)
(* the host do: each step counts against max_operations.                   *)
EveryRunEnds == phase = "running" ~> phase = "ready"
=============================================================================
