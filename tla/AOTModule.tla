----------------------------- MODULE AOTModule -----------------------------
(***************************************************************************)
(* A native module: the portable C that generate() of                      *)
(* tools/aot_c_backend_v1.py emits for a module image, run.                *)
(*                                                                         *)
(* The C keeps everything in static variables, which outlive a run; each   *)
(* guest function is a C function with one array v of all its values, and  *)
(* a failure is a flag that every function on the way out must look at.    *)
(* One step executes the C of one IR instruction or terminator, or the     *)
(* return of one C function after a failure.                               *)
(***************************************************************************)
EXTENDS GuestMemory

CONSTANTS
  Documents,    \* the module images given to the translator
  Parsed(_),    \* as in CoreExecutor
  HostReplies,  \* what a successful callback leaves: <<>> (no value) or <<value>>
  MaxRuns       \* bound: calls of openrecomp_run

ASSUME DocumentsAssumption == \A d \in Documents : WellShaped(Parsed(d))

\* A callback leaves a uint64_t, if anything.
ASSUME IntegersAssumption == \A reply \in HostReplies : reply # <<>> => reply[1] \in Int

ASSUME BoundsAssumption == MaxRuns \in Nat

VARIABLES
  document,     \* the image that is translated
  phase,        \* "translating", "refused", "idle", "entered", "running", "unwinding"
  runs,         \* calls of openrecomp_run so far
  bound,        \* g_host_callback # NULL
  operations,   \* g_operations
  state,        \* g_state
  memory,       \* g_memory
  failed,       \* g_failed
  error,        \* g_error, as the fault it reports and the name it is about
  entryReturn,  \* g_entry_return
  entryHas,     \* g_entry_has_return
  frames,       \* the C functions active: [fn, blk, pc, v]
  requests      \* the host calls executed in this run, in order

vars == <<document, phase, runs, bound, operations, state, memory, failed, error,
          entryReturn, entryHas, frames, requests>>

hostVars   == <<document, runs, bound>>
dataVars   == <<state, memory, requests>>
failVars   == <<failed, error>>
returnVars == <<entryReturn, entryHas>>

NoError == [fault |-> NoName, name |-> NoName]

image == Parsed(document)

----------------------------------------------------------------------------
FnOf(frame)   == image.functions[frame.fn]
CodeOf(frame) == CodeAt(FnOf(frame).blocks[frame.blk], frame.pc)

Top  == frames[Len(frames)]
Fn   == FnOf(Top)
Code == CodeOf(Top)

\* value_layout: the values of a function, each with its slot of v.
Results(f)   == UNION {ResultsBefore(b, Len(b.insns) + 1) : b \in Elements(f.blocks)}
Layout(f)    == Params(f) \cup Results(f)
ValueType(f, n) == (CHOOSE d \in Layout(f) : d[1] = n)[2]

\* op_expr and op_type
Value(o)  == IF o.ref = NoName THEN o.const ELSE Top.v[o.ref]
TypeOf(o) == IF o.ref = NoName THEN o.type ELSE ValueType(Fn, o.ref)
Arg(k)    == Value(Code.args[k])
ArgValues == [k \in DOMAIN Code.args |-> Arg(k)]

\* or_step
Exhausted == operations + 1 > image.maxOperations

At(op) ==
  /\ phase = "running"
  /\ Code.op = op
  /\ ~Exhausted
  /\ operations' = operations + 1
  /\ UNCHANGED <<hostVars, returnVars>>

\* or_fail, then `return 0': the first message is kept.
Fail(f, name) ==
  /\ failed' = TRUE
  /\ error' = IF failed THEN error ELSE [fault |-> f, name |-> name]
  /\ phase' = "unwinding"

----------------------------------------------------------------------------
(* C functions. *)

Frame(fn, blk, pc, v) == [fn |-> fn, blk |-> blk, pc |-> pc, v |-> v]

Advanced(frame) == Frame(frame.fn, frame.blk, frame.pc + 1, frame.v)

\* v[slot of the result] = x & or_mask(bits)
Assigned(frame, insn, x) ==
  Advanced([frame EXCEPT !.v[insn.result] = Mask(x, TypeBits[insn.type])])

\* goto or_f_b: the values stay where they are.
Label(frame, blk) == Frame(frame.fn, blk, 1, frame.v)

Replace(frame) ==
  /\ frames' = [frames EXCEPT ![Len(frames)] = frame]
  /\ UNCHANGED <<phase, failVars>>

Define(x) == Replace(Assigned(Top, Code, x))

Goto(id) == Replace(Label(Top, IndexOf(Fn.blocks, id)))

\* uint64_t v[] = {0}, then the parameters.
EntryValues(f, args) ==
  [n \in {d[1] : d \in Layout(f)} |->
     IF n \in Ids(f.params)
     THEN LET k == IndexOf(f.params, n) IN Mask(args[k], TypeBits[f.params[k].type])
     ELSE 0]

\* or_fn(args, argc, &has, depth), up to the first instruction.
CallFunction(name, args, depth) ==
  IF depth > image.maxCallDepth THEN Fail("call-depth", name) /\ UNCHANGED frames
  ELSE IF Len(args) # Len(Callee(image, name).params)
       THEN Fail("argument-count", name) /\ UNCHANGED frames
  ELSE /\ frames' = Append(frames, Frame(IndexOf(image.functions, name), 1, 1,
                                         EntryValues(Callee(image, name), args)))
       /\ phase' = "running"
       /\ UNCHANGED failVars

----------------------------------------------------------------------------
(* Translation, the host's side, openrecomp_run. *)

Init ==
  /\ document \in Documents
  /\ phase = "translating"
  /\ runs = 0 /\ bound = FALSE /\ operations = 0
  /\ state = [n \in {} |-> 0] /\ memory = [n \in {} |-> 0]
  /\ failed = FALSE /\ error = NoError
  /\ entryReturn = 0 /\ entryHas = FALSE
  /\ frames = <<>> /\ requests = <<>>

\* "duplicate block guest address"
UniqueAddresses(f) ==
  \A b, c \in DOMAIN f.blocks : f.blocks[b].address = f.blocks[c].address => b = c

Translatable(m) == Admissible(m) /\ \A f \in Elements(m.functions) : UniqueAddresses(f)

\* ModuleImage.from_files and generate, then the C is compiled and loaded.
Generate ==
  /\ phase = "translating"
  /\ IF Translatable(image)
     THEN /\ phase' = "idle"
          /\ state' = [slot \in Ids(image.slots) |-> 0]
          /\ memory' = [a \in Addresses(image) |-> 0]
     ELSE phase' = "refused" /\ UNCHANGED <<state, memory>>
  /\ UNCHANGED <<hostVars, operations, failVars, returnVars, frames, requests>>

\* openrecomp_set_host_callback, with a callback or NULL
SetHostCallback ==
  /\ phase = "idle"
  /\ bound' = ~bound
  /\ UNCHANGED <<document, phase, runs, operations, dataVars, failVars, returnVars, frames>>

ResetState ==
  [slot \in Ids(image.slots) |->
     LET given == {x \in Elements(image.initialState) : x.slot = slot}
     IN  IF given = {} THEN 0
         ELSE Mask((CHOOSE x \in given : TRUE).value, TypeBits[SlotType(image, slot)])]

\* The segments copied over what the last run left.
FaultyResetMemory ==
  [a \in Addresses(image) |->
     IF \E s \in Elements(image.segments) : a \in s.address..(SegmentEnd(s) - 1)
     THEN InitialMemory(image)[a] ELSE memory[a]]

ResetMemory == InitialMemory(image)

\* openrecomp_run: or_reset
Reset ==
  /\ phase = "idle"
  /\ runs < MaxRuns
  /\ phase' = "entered"
  /\ runs' = runs + 1
  /\ state' = ResetState
  /\ memory' = ResetMemory
  /\ operations' = 0
  /\ failed' = FALSE
  /\ error' = NoError
  /\ entryReturn' = 0 /\ entryHas' = FALSE
  /\ requests' = <<>>
  /\ UNCHANGED <<document, bound, frames>>

\* ... and or_fn_entry(NULL, 0, &g_entry_has_return, 0)
Enter ==
  /\ phase = "entered"
  /\ CallFunction(image.entry, <<>>, 0)
  /\ UNCHANGED <<hostVars, operations, dataVars, returnVars>>

\* A call site that does not look at g_failed goes on after the call.
FaultyUnwound ==
  IF Len(frames) < 2 THEN phase' = phase /\ frames' = SubSeq(frames, 1, Len(frames) - 1)
  ELSE /\ phase' = "running"
       /\ frames' = Append(SubSeq(frames, 1, Len(frames) - 2), Advanced(frames[Len(frames) - 1]))

Unwound == phase' = phase /\ frames' = SubSeq(frames, 1, Len(frames) - 1)

\* After a failure each function returns 0 to one that does the same.
Unwind ==
  /\ phase = "unwinding"
  /\ frames # <<>>
  /\ Unwound
  /\ UNCHANGED <<hostVars, operations, dataVars, failVars, returnVars>>

\* g_entry_return = 0; return g_failed ? 0 : 1
RunFailed ==
  /\ phase = "unwinding"
  /\ frames = <<>>
  /\ phase' = "idle"
  /\ entryReturn' = 0
  /\ UNCHANGED <<hostVars, operations, dataVars, failVars, entryHas, frames>>

----------------------------------------------------------------------------
(* Instructions. *)

OperationLimit ==
  /\ phase = "running"
  /\ Exhausted
  /\ operations' = operations + 1
  /\ Fail("operation-limit", NoName)
  /\ UNCHANGED <<hostVars, returnVars, dataVars, frames>>

ConstInsn  == At("const") /\ Define(Code.imm) /\ UNCHANGED dataVars

ReadState  == At("read_state") /\ Define(state[Code.name]) /\ UNCHANGED dataVars

WriteState ==
  /\ At("write_state")
  /\ state' = [state EXCEPT ![Code.name] = Mask(Arg(1), TypeBits[SlotType(image, Code.name)])]
  /\ Replace(Advanced(Top))
  /\ UNCHANGED <<memory, requests>>

BinopInsn ==
  /\ At("binop")
  /\ LET bits == TypeBits[Code.type]
     IN  IF ShiftFault(Code.kind, Arg(2), bits)
         THEN Fail("shift-count", NoName) /\ UNCHANGED frames
         ELSE Define(CBinopV11(Code.kind, Arg(1), Arg(2), bits))
  /\ UNCHANGED dataVars

CompareInsn ==
  /\ At("compare")
  /\ Define(CCompare(Code.kind, Arg(1), Arg(2), TypeBits[TypeOf(Code.args[1])]))
  /\ UNCHANGED dataVars

CastInsn ==
  /\ At("cast")
  /\ Define(CCast(Code.kind, Arg(1), TypeBits[TypeOf(Code.args[1])], TypeBits[Code.type]))
  /\ UNCHANGED dataVars

SelectInsn == At("select") /\ Define(IF Arg(1) # 0 THEN Arg(2) ELSE Arg(3)) /\ UNCHANGED dataVars

LoadInsn ==
  /\ At("load")
  /\ LET fault == CAccessFault(image, Code, Arg(1))
     IN  IF fault # NoName THEN Fail(fault, NoName) /\ UNCHANGED frames
         ELSE Define(CLoadValue(image, memory, Code, Arg(1)))
  /\ UNCHANGED dataVars

StoreInsn ==
  /\ At("store")
  /\ LET fault == CAccessFault(image, Code, Arg(2))
     IN  IF fault # NoName THEN Fail(fault, NoName) /\ UNCHANGED <<memory, frames>>
         ELSE /\ memory' = CStored(image, memory, Code, Arg(2), Arg(1))
              /\ Replace(Advanced(Top))
  /\ UNCHANGED <<state, requests>>

\* depth + 1u: a function's depth is the number of frames below it.
CallInsn == At("call") /\ CallFunction(Code.name, ArgValues, Len(frames)) /\ UNCHANGED dataVars

\* Without a callback, as with one that answers 0, the call has failed.
HostCall ==
  /\ At("host_call")
  /\ requests' = Append(requests, <<Code.name, ArgValues>>)
  /\ \/ Fail("host-failure", Code.name) /\ UNCHANGED frames
     \/ /\ bound
        /\ \E reply \in HostReplies :
             IF Code.result = NoName THEN Replace(Advanced(Top))
             ELSE IF reply = <<>> THEN Fail("host-void", Code.name) /\ UNCHANGED frames
             ELSE Define(reply[1])
  /\ UNCHANGED <<state, memory>>

----------------------------------------------------------------------------
(* Terminators. *)

\* A jump without its or_step().
FaultyJump ==
  /\ phase = "running" /\ Code.op = "jump"
  /\ Goto(Code.targets[1])
  /\ UNCHANGED <<hostVars, returnVars, operations, dataVars>>

Jump == At("jump") /\ Goto(Code.targets[1]) /\ UNCHANGED dataVars

Branch ==
  At("branch") /\ Goto(Code.targets[IF Arg(1) # 0 THEN 1 ELSE 2]) /\ UNCHANGED dataVars

\* switch over the addresses of the candidate blocks
IndirectJump ==
  /\ At("indirect_jump")
  /\ LET cases == {id \in Elements(Code.targets) :
                     Fn.blocks[IndexOf(Fn.blocks, id)].address = Arg(1)}
     IN  IF cases = {} THEN Fail("indirect-target", NoName) /\ UNCHANGED frames
         ELSE Goto(CHOOSE id \in cases : TRUE)
  /\ UNCHANGED dataVars

Trap == At("trap") /\ Fail("trap", NoName) /\ UNCHANGED <<dataVars, frames>>

\* *has_return and the value of a function that returns.
HasReturn   == Code.args # <<>>
ReturnValue == IF HasReturn THEN Mask(Arg(1), TypeBits[Fn.returnType]) ELSE 0

ReturnToCaller ==
  /\ Len(frames) > 1
  /\ At("return")
  /\ LET caller == frames[Len(frames) - 1]
         call   == CodeOf(caller)
         below  == SubSeq(frames, 1, Len(frames) - 2)
     IN  IF call.result = NoName
         THEN frames' = Append(below, Advanced(caller)) /\ UNCHANGED <<phase, failVars>>
         ELSE IF ~HasReturn
         THEN Fail("void-callee", call.name) /\ frames' = Append(below, caller)
         ELSE frames' = Append(below, Assigned(caller, call, ReturnValue))
              /\ UNCHANGED <<phase, failVars>>
  /\ UNCHANGED dataVars

\* The entry function returns, and openrecomp_run with it.
RunReturns ==
  /\ phase = "running" /\ Len(frames) = 1
  /\ Code.op = "return"
  /\ ~Exhausted
  /\ operations' = operations + 1
  /\ entryHas' = HasReturn /\ entryReturn' = ReturnValue
  /\ phase' = "idle" /\ frames' = <<>>
  /\ UNCHANGED <<hostVars, failVars, dataVars>>

----------------------------------------------------------------------------
Instruction ==
  \/ ConstInsn \/ ReadState \/ WriteState \/ BinopInsn \/ CompareInsn
  \/ CastInsn \/ SelectInsn \/ LoadInsn \/ StoreInsn \/ CallInsn \/ HostCall

Terminator == Jump \/ Branch \/ IndirectJump \/ Trap \/ ReturnToCaller \/ RunReturns

\* What openrecomp_run does until it returns.
Running == Enter \/ OperationLimit \/ Instruction \/ Terminator \/ Unwind \/ RunFailed

Next == Generate \/ SetHostCallback \/ Reset \/ Running

Spec == Init /\ [][Next]_vars /\ WF_vars(Running)

----------------------------------------------------------------------------
(* A failure is silent: from the or_fail to the return of openrecomp_run   *)
(* no instruction is executed any more, neither in the function that       *)
(* failed nor in its callers, and the first error stays.                   *)
SilentUnwinding ==
  [][failed /\ failed' => UNCHANGED <<operations, state, memory, requests, error>>]_vars

(* openrecomp_run returns, whatever the guest program does and the host    *)
(* answers.                                                                *)
EveryRunReturns == phase = "entered" ~> phase = "idle"
=============================================================================
