------------------------- MODULE CoreExecutorProofs -------------------------
(***************************************************************************)
(* Proofs about CoreExecutor, for every set of documents, every host and   *)
(* every bound: first the stack and the budget, then, on top of them, what *)
(* is defined in every active frame and with which type (the validator's   *)
(* type rules are sound for the executor), that every value is a bit       *)
(* pattern of its type, and last, that the oracle of the RV32I bridge runs *)
(* every bridged module alike.                                             *)
(***************************************************************************)
EXTENDS OracleParity, IRTheory

----------------------------------------------------------------------------
(* Frames of an image whose shape the schema guarantees. *)

StackInv ==
  /\ document \in Documents
  /\ IsList(stack)
  /\ \A k \in 1..Len(stack) : FrameOK(stack[k])
  /\ phase = "running" <=> stack # <<>>

(* Every block the image has is well shaped. *)
LEMMA ImageBlock ==
  ASSUME document \in Documents, NEW n \in DOMAIN image.functions
  PROVE  LET f == image.functions[n]
         IN  /\ FunctionShaped(f)
             /\ IsList(f.blocks)
             /\ \A b \in DOMAIN f.blocks :
                  /\ IsList(f.blocks[b].insns)
                  /\ TermShaped(f.blocks[b].term)
                  /\ \A i \in DOMAIN f.blocks[b].insns : InsnShaped(f.blocks[b].insns[i])
<1> DEFINE f == image.functions[n]
<1>1. WellShaped(image)
  BY DocumentsAssumption DEF image
<1>2. FunctionShaped(f)
  BY <1>1 DEF WellShaped, Elements
<1> HIDE DEF f
<1>3. ASSUME NEW b \in DOMAIN f.blocks
      PROVE  /\ IsList(f.blocks[b].insns)
             /\ TermShaped(f.blocks[b].term)
             /\ \A i \in DOMAIN f.blocks[b].insns : InsnShaped(f.blocks[b].insns[i])
  <2>1. f.blocks[b] \in Elements(f.blocks)
    BY DEF Elements
  <2> QED BY <1>2, <2>1 DEF FunctionShaped, Elements
<1>4. IsList(f.blocks)
  BY <1>2 DEF FunctionShaped
<1> QED BY <1>2, <1>3, <1>4 DEF f

(* A frame stands at an instruction or at the terminator of its block. *)
LEMMA CodeShape ==
  ASSUME document \in Documents, NEW frame, FrameOK(frame)
  PROVE  LET insns == FnOf(frame).blocks[frame.blk].insns
         IN  /\ IsList(FnOf(frame).blocks)
             /\ IsList(insns)
             /\ frame.pc \in 1..(Len(insns) + 1)
             /\ \/ frame.pc <= Len(insns) /\ InsnShaped(CodeOf(frame))
                \/ frame.pc = Len(insns) + 1 /\ TermShaped(CodeOf(frame))
<1> DEFINE b == FnOf(frame).blocks[frame.blk]
<1>1. /\ IsList(FnOf(frame).blocks)
      /\ IsList(b.insns)
      /\ TermShaped(b.term)
      /\ \A i \in DOMAIN b.insns : InsnShaped(b.insns[i])
  BY ImageBlock DEF FrameOK, FnOf
<1>2. frame.pc \in 1..(Len(b.insns) + 1) /\ CodeOf(frame) = CodeAt(b, frame.pc)
  BY DEF FrameOK, CodeOf, FnOf
<1> HIDE DEF b
<1>3. Len(b.insns) \in Nat /\ DOMAIN b.insns = 1..Len(b.insns)
  BY <1>1, ListLen
<1>4. frame.pc <= Len(b.insns) => InsnShaped(CodeOf(frame))
  BY <1>1, <1>2, <1>3 DEF CodeAt
<1>5. frame.pc = Len(b.insns) + 1 => TermShaped(CodeOf(frame))
  BY <1>1, <1>2, <1>3 DEF CodeAt
<1>6. frame.pc <= Len(b.insns) \/ frame.pc = Len(b.insns) + 1
  BY <1>2, <1>3
<1> QED BY <1>1, <1>2, <1>4, <1>5, <1>6 DEF b

(* How the running frame, or a caller that is resumed, may move: past an    *)
(* instruction, or to the start of a block of the same function.            *)
Moved(old, new) ==
  /\ new.fn = old.fn
  /\ \/ new.blk = old.blk /\ new.pc = old.pc + 1 /\ CodeOf(old).op \in InsnOps
     \/ new.blk \in DOMAIN FnOf(old).blocks /\ new.pc = 1

(* A moved frame stands at code again: a block ends in a terminator, so an *)
(* instruction is always followed by something. *)
LEMMA MovedFrameOK ==
  ASSUME document \in Documents, NEW old, NEW new, FrameOK(old), Moved(old, new)
  PROVE  FrameOK(new)
<1> DEFINE f == FnOf(old)
<1>1. InsnOps \cap TermOps = {}
  BY DEF InsnOps, TermOps, CallOps, Arity
<1>2. FnOf(new) = f /\ new.fn \in DOMAIN image.functions
  BY DEF Moved, FrameOK, FnOf
<1>3. old.blk \in DOMAIN f.blocks
  BY DEF FrameOK
<1>4. CASE new.blk = old.blk /\ new.pc = old.pc + 1 /\ CodeOf(old).op \in InsnOps
  <2> DEFINE insns == f.blocks[old.blk].insns
  <2>1. old.pc <= Len(insns) /\ old.pc \in 1..(Len(insns) + 1) /\ IsList(insns)
    BY <1>1, <1>4, CodeShape DEF TermShaped
  <2>2. Len(insns) \in Nat
    BY <2>1, ListLen
  <2> HIDE DEF insns
  <2>3. new.pc \in 1..(Len(insns) + 1)
    BY <1>4, <2>1, <2>2
  <2> QED BY <1>2, <1>3, <1>4, <2>3 DEF FrameOK, insns
<1>5. CASE new.blk \in DOMAIN f.blocks /\ new.pc = 1
  <2>1. IsList(f.blocks[new.blk].insns)
    BY <1>2, <1>5, ImageBlock DEF FnOf, Moved
  <2>2. Len(f.blocks[new.blk].insns) \in Nat
    BY <2>1, ListLen
  <2> QED BY <1>2, <1>5, <2>2 DEF FrameOK
<1> QED BY <1>4, <1>5 DEF Moved

(* Passing an instruction that has no result moves the frame. *)
LEMMA AdvancedMoved ==
  ASSUME NEW frame, FrameOK(frame), CodeOf(frame).op \in InsnOps
  PROVE  Moved(frame, Advanced(frame))
BY DEF FrameOK, Advanced, Frame, Moved

(* So does passing one that stores its result. *)
LEMMA AssignedMoved ==
  ASSUME NEW frame, NEW insn, NEW v,
         FrameOK(frame), CodeOf(frame).op \in InsnOps
  PROVE  Moved(frame, Assigned(frame, insn, v))
BY DEF FrameOK, Assigned, With, Frame, Moved

(* And so does entering a block. *)
LEMMA BlockFrameMoved ==
  ASSUME NEW frame, NEW b \in DOMAIN FnOf(frame).blocks
  PROVE  Moved(frame, BlockFrame(frame, b))
BY DEF BlockFrame, Frame, Moved

----------------------------------------------------------------------------
(* What a step of a run does to the stack: it ends the run, moves the      *)
(* running frame, calls a function or resumes the caller.                  *)

Counted == /\ operations' = operations + 1
           /\ UNCHANGED loaderVars

Ends    == /\ stack' = <<>> /\ phase' = "ready" /\ OutcomeOK'
           /\ outcome' = LimitFault => Exhausted

Moves   == /\ \E frame : /\ Moved(Top, frame)
                         /\ stack' = [stack EXCEPT ![Len(stack)] = frame]
           /\ UNCHANGED <<phase, outcome>>

Calls   == /\ Code.op = "call" /\ ~TooDeep(Len(stack))
           /\ \E n \in DOMAIN image.functions : \E args :
                /\ image.functions[n].id = Code.name
                /\ stack' = Append(stack, EntryFrame(n, args))
           /\ phase' = "running" /\ outcome' = NoOutcome

Resumes == /\ Len(stack) > 1
           /\ \E frame : /\ Moved(stack[Len(stack) - 1], frame)
                         /\ stack' = Append(SubSeq(stack, 1, Len(stack) - 2), frame)
           /\ UNCHANGED <<phase, outcome>>

(* A CoreRuntimeError ends the run; only the step limit reports the limit. *)
LEMMA RaiseEnds ==
  ASSUME NEW f, NEW name, Raise(f, name), f = "operation-limit" => Exhausted
  PROVE  Ends
BY DEF Raise, Ends, OutcomeOK, Fault, LimitFault

(* The running frame stands at code. *)
LEMMA TopOK ==
  ASSUME StackInv, phase = "running"
  PROVE  FrameOK(Top) /\ Len(stack) \in Nat \ {0}
BY ListLen DEF StackInv, Top

(* Instructions with a result move the running frame, *)
LEMMA DefineMoves ==
  ASSUME StackInv, phase = "running", Code.op \in InsnOps, NEW v, Define(v)
  PROVE  Moves
BY TopOK, AssignedMoved DEF Define, Replace, Moves, Code

(* as do those without one; *)
LEMMA AdvanceMoves ==
  ASSUME StackInv, phase = "running", Code.op \in InsnOps, Replace(Advanced(Top))
  PROVE  Moves
BY TopOK, AdvancedMoved DEF Replace, Moves, Code

(* a jump to a block moves it there, unless the block does not exist. *)
LEMMA GoToMoves ==
  ASSUME StackInv, phase = "running", NEW id, GoTo(id)
  PROVE  Moves \/ Ends
<1>1. CASE id \in Ids(Fn.blocks)
  <2> DEFINE b == IndexOf(Fn.blocks, id)
  <2>1. b \in DOMAIN FnOf(Top).blocks
    BY <1>1, IndexOfId DEF Fn
  <2>2. Moved(Top, BlockFrame(Top, b))
    BY <2>1, TopOK, BlockFrameMoved
  <2>3. Replace(BlockFrame(Top, b))
    BY <1>1 DEF GoTo
  <2> QED BY <2>2, <2>3 DEF Replace, Moves
<1>2. CASE id \notin Ids(Fn.blocks)
  BY <1>2, RaiseEnds DEF GoTo
<1> QED BY <1>1, <1>2

(* A call either is refused or adds the frame of its callee. *)
LEMMA EnterCalls ==
  ASSUME NEW name, NEW args, NEW depth, Enter(name, args, depth)
  PROVE  \/ Ends
         \/ /\ ~TooDeep(depth)
            /\ \E n \in DOMAIN image.functions :
                 /\ image.functions[n].id = name
                 /\ stack' = Append(stack, EntryFrame(n, args))
            /\ phase' = "running" /\ outcome' = NoOutcome
<1> DEFINE n == IndexOf(image.functions, name)
<1>1. CASE /\ ~TooDeep(depth) /\ name \in Ids(image.functions)
           /\ Len(args) = Len(Callee(image, name).params)
  <2>1. n \in DOMAIN image.functions /\ image.functions[n].id = name
    BY <1>1, IndexOfId
  <2>2. /\ stack' = Append(stack, EntryFrame(n, args))
        /\ phase' = "running" /\ outcome' = NoOutcome
    BY <1>1 DEF Enter
  <2> QED BY <1>1, <2>1, <2>2
<1>2. CASE ~ (/\ ~TooDeep(depth) /\ name \in Ids(image.functions)
              /\ Len(args) = Len(Callee(image, name).params))
  BY <1>2, RaiseEnds DEF Enter
<1> QED BY <1>1, <1>2

(* A return ends the run or resumes the caller, which waits at a call. *)
LEMMA ReturnResumes ==
  ASSUME StackInv, CallStack, Return
  PROVE  Ends \/ Resumes
<1> DEFINE caller == stack[Len(stack) - 1]
           call   == CodeOf(caller)
<1>1. phase = "running" /\ Code.op = "return"
  BY DEF Return, At
<1>2. Len(stack) \in Nat \ {0} /\ FrameOK(Top)
  BY <1>1, TopOK
<1>3. Len(stack) = 1 => Ends
  <2>1. SUFFICES ASSUME Len(stack) = 1 PROVE Ends
    OBVIOUS
  <2>2. phase' = "ready" /\ stack' = <<>> /\ outcome' = Returned(ArgValues)
    BY <2>1 DEF Return
  <2>0. document \in Documents /\ Code.op \notin InsnOps
    BY <1>1 DEF StackInv, InsnOps, CallOps, Arity
  <2>3. TermShaped(Code)
    BY <1>2, <2>0, CodeShape DEF Code, InsnShaped
  <2>4. IsList(Code.args) /\ Len(Code.args) <= 1
    BY <1>1, <2>3 DEF TermShaped, ArgsShaped
  <2>5. Len(ArgValues) = Len(Code.args)
    BY <2>4, ListImage DEF ArgValues
  <2>6. OutcomeOK' /\ outcome' # LimitFault
    BY <2>2, <2>4, <2>5 DEF OutcomeOK, Returned, LimitFault, Fault
  <2> QED BY <2>2, <2>6 DEF Ends
<1>4. Len(stack) # 1 => Ends \/ Resumes
  <2>1. SUFFICES ASSUME Len(stack) # 1 PROVE Ends \/ Resumes
    OBVIOUS
  <2>2. Len(stack) > 1 /\ Len(stack) - 1 \in 1..Len(stack) /\ Len(stack) - 1 \in 1..(Len(stack) - 1)
    BY <1>2, <2>1
  <2>3. FrameOK(caller) /\ call.op \in InsnOps
    BY <2>2 DEF StackInv, CallStack, InsnOps, CallOps
  <2>4. Moved(caller, Advanced(caller)) /\ Moved(caller, Assigned(caller, call, Arg(1)))
    BY <2>3, AdvancedMoved, AssignedMoved
  <2>5. \/ Raise("void-callee", call.name)
        \/ \E frame \in {Advanced(caller), Assigned(caller, call, Arg(1))} :
             /\ stack' = Append(SubSeq(stack, 1, Len(stack) - 2), frame)
             /\ UNCHANGED <<phase, outcome>>
    BY <2>1 DEF Return
  <2> QED BY <2>2, <2>4, <2>5, RaiseEnds DEF Resumes
<1> QED BY <1>3, <1>4

(* Whatever a step executes, it counts one operation and does one of these *)
(* four things to the stack.                                               *)
LEMMA StepShape ==
  ASSUME StackInv, CallStack, Execute
  PROVE  Counted /\ (Ends \/ Moves \/ Calls \/ Resumes)
<1> DEFINE Shape == Counted /\ (Ends \/ Moves \/ Calls \/ Resumes)
<1>0. ASSUME NEW op, At(op)
      PROVE  Counted /\ phase = "running" /\ Code.op = op
  BY <1>0 DEF At, Counted
<1>1. OperationLimit => Shape
  BY RaiseEnds DEF OperationLimit, Counted
<1>2. UndefinedValue => Shape
  BY RaiseEnds DEF UndefinedValue, Counted
<1>3. ConstInsn => Shape
  BY <1>0, DefineMoves DEF ConstInsn, InsnOps, Arity
<1>4. ReadState => Shape
  BY <1>0, DefineMoves, RaiseEnds DEF ReadState, InsnOps, Arity
<1>5. WriteState => Shape
  BY <1>0, AdvanceMoves, RaiseEnds DEF WriteState, InsnOps, Arity
<1>6. BinopInsn => Shape
  BY <1>0, DefineMoves, RaiseEnds DEF BinopInsn, InsnOps, Arity
<1>7. CompareInsn => Shape
  BY <1>0, DefineMoves DEF CompareInsn, InsnOps, Arity
<1>8. CastInsn => Shape
  BY <1>0, DefineMoves DEF CastInsn, InsnOps, Arity
<1>9. SelectInsn => Shape
  BY <1>0, DefineMoves DEF SelectInsn, InsnOps, Arity
<1>10. LoadInsn => Shape
  BY <1>0, DefineMoves, RaiseEnds DEF LoadInsn, InsnOps, Arity, AccessFault
<1>11. StoreInsn => Shape
  BY <1>0, AdvanceMoves, RaiseEnds DEF StoreInsn, InsnOps, Arity, AccessFault
<1>12. CallInsn => Shape
  <2>1. SUFFICES ASSUME CallInsn PROVE Shape
    OBVIOUS
  <2>2. Counted /\ phase = "running" /\ Code.op = "call"
    BY <1>0, <2>1 DEF CallInsn
  <2>3. Enter(Code.name, ArgValues, Len(stack))
    BY <2>1, <2>2, TopOK DEF CallInsn, Depth
  <2> QED BY <2>2, <2>3, EnterCalls DEF Calls
<1>13. HostCall => Shape
  BY <1>0, DefineMoves, AdvanceMoves, RaiseEnds DEF HostCall, InsnOps, CallOps
<1>14. Jump => Shape
  BY <1>0, GoToMoves DEF Jump
<1>15. Branch => Shape
  BY <1>0, GoToMoves DEF Branch
<1>16. IndirectJump => Shape
  BY <1>0, GoToMoves, RaiseEnds DEF IndirectJump
<1>17. Trap => Shape
  BY <1>0, RaiseEnds DEF Trap
<1>18. Return => Shape
  BY <1>0, ReturnResumes DEF Return
<1> QED
  BY <1>1, <1>2, <1>3, <1>4, <1>5, <1>6, <1>7, <1>8, <1>9, <1>10, <1>11, <1>12, <1>13,
     <1>14, <1>15, <1>16, <1>17, <1>18 DEF Execute, Instruction, Terminator

----------------------------------------------------------------------------
(* The inductive invariant.                                                *)

Scalars ==
  /\ phase \in {"loading", "rejected", "image", "ready", "running"}
  /\ executors \in 0..MaxExecutors /\ runs \in 0..MaxRuns
  /\ operations \in Nat
  /\ OutcomeOK

(* Only an admissible image is executed, with the host it asks for, and a  *)
(* run in progress has not used up the step that its refusal would count.  *)
Admitted ==
  /\ phase \in {"image", "ready", "running"} => Admissible(image)
  /\ phase \in {"ready", "running"} => HostBound
  /\ phase = "running" => runs > 0 /\ operations < image.maxOperations + runs


Stacked == StackInv /\ CallStack

IInv == Stacked /\ Scalars /\ Admitted /\ OperationBudget

(* A frame stands where it stood as long as the image is the same. *)
LEMMA SameImage ==
  ASSUME document' = document, NEW frame
  PROVE  /\ image' = image
         /\ FrameOK(frame)' <=> FrameOK(frame)
         /\ CodeOf(frame)' = CodeOf(frame)
<1>1. image' = image
  BY DEF image
<1> QED BY <1>1 DEF FrameOK, CodeOf, FnOf

(* The two parts of Stacked', for the stack that a step leaves: sound      *)
(* frames, each but the last at the call of the next one.                  *)
LEMMA StackedAfter ==
  ASSUME Stacked, document' = document, IsList(stack'), Len(stack') <= image.maxCallDepth + 1,
         phase' = "running" <=> stack' # <<>>,
         \A k \in 1..Len(stack') : FrameOK(stack'[k]),
         \A k \in 1..(Len(stack') - 1) :
           /\ CodeOf(stack'[k]).op = "call"
           /\ image.functions[stack'[k + 1].fn].id = CodeOf(stack'[k]).name
  PROVE  Stacked'
<1>1. image' = image
  BY SameImage
<1>2. StackInv'
  BY SameImage DEF Stacked, StackInv
<1>3. CallStack'
  BY <1>1 DEF CallStack, CodeOf, FnOf
<1> QED BY <1>2, <1>3 DEF Stacked

(* The end of a run leaves no frame. *)
LEMMA EndsStacked ==
  ASSUME Stacked, Ends, document' = document
  PROVE  Stacked'
<1>1. stack' = <<>> /\ IsList(stack') /\ Len(stack') = 0
  BY SeqIsList, EmptySeq DEF Ends
<1>2. image.maxCallDepth \in Nat
  BY DocumentsAssumption DEF image, WellShaped, Stacked, StackInv
<1> QED BY <1>1, <1>2, StackedAfter DEF Ends

(* The running frame moves; its callers still wait where they were. *)
LEMMA MovesStacked ==
  ASSUME Stacked, Moves, document' = document, phase = "running"
  PROVE  Stacked'
<1> DEFINE n == Len(stack)
<1>0. IsList(stack) /\ stack # <<>>
  BY DEF Stacked, StackInv
<1>1. PICK frame : Moved(Top, frame) /\ stack' = [stack EXCEPT ![n] = frame]
  BY DEF Moves
<1>2. /\ IsList(stack') /\ Len(stack') = n /\ n \in Nat \ {0}
      /\ \A k \in 1..(n - 1) : stack'[k] = stack[k]
      /\ stack'[n] = frame
  <2>1. LET t == [stack EXCEPT ![Len(stack)] = frame]
        IN  /\ IsList(t)
            /\ Len(t) = Len(stack) /\ Len(stack) \in Nat \ {0}
            /\ \A k \in 1..(Len(stack) - 1) : t[k] = stack[k]
            /\ t[Len(stack)] = frame
    BY <1>0, ListReplace
  <2> QED BY <1>1, <2>1
<1>3. stack[n] = Top /\ frame.fn = Top.fn
  BY <1>1 DEF Top, Moved
<1>4. FrameOK(frame)
  BY <1>1, TopOK, MovedFrameOK DEF Stacked, StackInv
<1>5. n <= image.maxCallDepth + 1
  BY DEF Stacked, CallStack
<1> HIDE DEF n
<1>6. \A k \in 1..n : FrameOK(stack'[k]) /\ stack'[k].fn = stack[k].fn
  <2>1. SUFFICES ASSUME NEW k \in 1..n
                 PROVE  FrameOK(stack'[k]) /\ stack'[k].fn = stack[k].fn
    OBVIOUS
  <2>2. k = n \/ k \in 1..(n - 1)
    BY <1>2
  <2> QED BY <1>2, <1>3, <1>4, <2>2 DEF Stacked, StackInv, n
<1>7. \A k \in 1..(n - 1) : /\ CodeOf(stack'[k]).op = "call"
                             /\ image.functions[stack'[k + 1].fn].id = CodeOf(stack'[k]).name
  <2>1. SUFFICES ASSUME NEW k \in 1..(n - 1)
                 PROVE  /\ CodeOf(stack'[k]).op = "call"
                        /\ image.functions[stack'[k + 1].fn].id = CodeOf(stack'[k]).name
    OBVIOUS
  <2>2. k + 1 \in 1..n /\ stack'[k] = stack[k]
    BY <1>2
  <2>3. stack'[k + 1].fn = stack[k + 1].fn
    BY <1>6, <2>2
  <2> QED BY <2>2, <2>3 DEF Stacked, CallStack, n
<1>8. phase' = "running" <=> stack' # <<>>
  BY <1>2, ListLen DEF Moves
<1> QED BY <1>2, <1>5, <1>6, <1>7, <1>8, StackedAfter

(* A function is entered at the start of its first block. *)
LEMMA EntryFrameOK ==
  ASSUME document \in Documents, NEW n \in DOMAIN image.functions, NEW args
  PROVE  FrameOK(EntryFrame(n, args)) /\ EntryFrame(n, args).fn = n
<1> DEFINE f == image.functions[n]
<1>1. FunctionShaped(f) /\ \A b \in DOMAIN f.blocks : IsList(f.blocks[b].insns)
  BY ImageBlock
<1>2. 1 \in DOMAIN f.blocks
  BY <1>1, ListLen DEF FunctionShaped
<1>3. Len(f.blocks[1].insns) \in Nat
  BY <1>1, <1>2, ListLen
<1>4. /\ EntryFrame(n, args).fn = n
      /\ EntryFrame(n, args).blk = 1
      /\ EntryFrame(n, args).pc = 1
  BY DEF EntryFrame, Frame
<1> QED BY <1>2, <1>3, <1>4 DEF FrameOK, FnOf

(* A function called by the host or by the running frame. *)
LEMMA PushStacked ==
  ASSUME Stacked, document' = document,
         NEW n \in DOMAIN image.functions, NEW args,
         stack' = Append(stack, EntryFrame(n, args)),
         phase' = "running",
         Len(stack) <= image.maxCallDepth,
         stack # <<>> => Code.op = "call" /\ image.functions[n].id = Code.name
  PROVE  Stacked'
<1> DEFINE len == Len(stack)
           new == EntryFrame(n, args)
<1>1. IsList(stack) /\ document \in Documents
  BY DEF Stacked, StackInv
<1>2. LET t == Append(stack, new)
      IN  /\ IsList(t)
          /\ Len(t) = Len(stack) + 1
          /\ \A k \in 1..Len(stack) : t[k] = stack[k]
          /\ t[Len(stack) + 1] = new
  BY <1>1, ListAppend
<1>3. /\ IsList(stack') /\ Len(stack') = len + 1 /\ len \in Nat
      /\ \A k \in 1..len : stack'[k] = stack[k]
      /\ stack'[len + 1] = new
  BY <1>1, <1>2, ListLen
<1>4. FrameOK(new) /\ new.fn = n
  BY <1>1, EntryFrameOK
<1>5. image.maxCallDepth \in Nat
  BY <1>1, DocumentsAssumption DEF image, WellShaped
<1>6. /\ \A k \in 1..len : FrameOK(stack[k])
      /\ len <= image.maxCallDepth
      /\ len > 0 => Code = CodeOf(stack[len]) /\ stack # <<>>
      /\ \A k \in 1..(len - 1) :
           /\ CodeOf(stack[k]).op = "call"
           /\ image.functions[stack[k + 1].fn].id = CodeOf(stack[k]).name
  BY <1>1, ListLen DEF Stacked, StackInv, CallStack, Code, Top
<1> HIDE DEF len, new
<1>7. \A k \in 1..(len + 1) : FrameOK(stack'[k])
  <2>1. SUFFICES ASSUME NEW k \in 1..(len + 1) PROVE FrameOK(stack'[k])
    OBVIOUS
  <2>2. k = len + 1 \/ k \in 1..len
    BY <1>3
  <2> QED BY <1>3, <1>4, <1>6, <2>2
<1>8. \A k \in 1..len : /\ CodeOf(stack'[k]).op = "call"
                        /\ image.functions[stack'[k + 1].fn].id = CodeOf(stack'[k]).name
  <2>1. SUFFICES ASSUME NEW k \in 1..len
                 PROVE  /\ CodeOf(stack'[k]).op = "call"
                        /\ image.functions[stack'[k + 1].fn].id = CodeOf(stack'[k]).name
    OBVIOUS
  <2>2. \/ k = len /\ len > 0
        \/ k \in 1..(len - 1) /\ k + 1 \in 1..len
    BY <1>3
  <2> QED BY <1>3, <1>4, <1>6, <2>2
<1>9. /\ len + 1 <= image.maxCallDepth + 1 /\ (len + 1) - 1 = len
      /\ stack' # <<>>
  BY <1>3, <1>5, <1>6, ListLen
<1> QED BY <1>3, <1>7, <1>8, <1>9, StackedAfter

(* The caller is resumed after its call; its own callers still wait. *)
LEMMA ResumesStacked ==
  ASSUME Stacked, Resumes, document' = document, phase = "running"
  PROVE  Stacked'
<1> DEFINE n == Len(stack) - 1
<1>1. PICK frame : /\ Moved(stack[n], frame)
                   /\ stack' = Append(SubSeq(stack, 1, Len(stack) - 2), frame)
  BY DEF Resumes
<1>2. IsList(stack) /\ Len(stack) > 1 /\ document \in Documents /\ Len(stack) \in Nat
  BY ListLen DEF Stacked, StackInv, Resumes
<1>2a. n \in Nat \ {0} /\ n - 1 = Len(stack) - 2 /\ n + 1 = Len(stack)
  <2> DEFINE len == Len(stack)
  <2>1. len \in Nat /\ len > 1
    BY <1>2
  <2> HIDE DEF len
  <2>2. len - 1 \in Nat \ {0} /\ (len - 1) - 1 = len - 2 /\ (len - 1) + 1 = len
    BY <2>1
  <2> QED BY <2>2 DEF len
<1>3. LET t == Append(SubSeq(stack, 1, Len(stack) - 2), frame)
      IN  /\ IsList(t)
          /\ Len(t) = Len(stack) - 1
          /\ \A k \in 1..(Len(stack) - 2) : t[k] = stack[k]
          /\ t[Len(stack) - 1] = frame
  BY <1>2, ListPop
<1>4. /\ IsList(stack') /\ Len(stack') = n /\ n \in Nat \ {0}
      /\ \A k \in 1..(n - 1) : stack'[k] = stack[k]
      /\ stack'[n] = frame
  BY <1>1, <1>3, <1>2a
<1>5. image.maxCallDepth \in Nat
  BY <1>2, DocumentsAssumption DEF image, WellShaped
<1>6. /\ \A k \in 1..n : FrameOK(stack[k])
      /\ n <= image.maxCallDepth + 1
      /\ \A k \in 1..(n - 1) :
           /\ CodeOf(stack[k]).op = "call"
           /\ image.functions[stack[k + 1].fn].id = CodeOf(stack[k]).name
  BY <1>2, <1>5 DEF Stacked, StackInv, CallStack
<1> HIDE DEF n
<1>7. FrameOK(frame) /\ frame.fn = stack[n].fn
  BY <1>1, <1>2, <1>4, <1>6, MovedFrameOK DEF Moved
<1>8. \A k \in 1..n : FrameOK(stack'[k]) /\ stack'[k].fn = stack[k].fn
  <2>1. SUFFICES ASSUME NEW k \in 1..n
                 PROVE  FrameOK(stack'[k]) /\ stack'[k].fn = stack[k].fn
    OBVIOUS
  <2>2. k = n \/ k \in 1..(n - 1)
    BY <1>4
  <2> QED BY <1>4, <1>6, <1>7, <2>2
<1>9. \A k \in 1..(n - 1) : /\ CodeOf(stack'[k]).op = "call"
                             /\ image.functions[stack'[k + 1].fn].id = CodeOf(stack'[k]).name
  <2>1. SUFFICES ASSUME NEW k \in 1..(n - 1)
                 PROVE  /\ CodeOf(stack'[k]).op = "call"
                        /\ image.functions[stack'[k + 1].fn].id = CodeOf(stack'[k]).name
    OBVIOUS
  <2>2. k + 1 \in 1..n /\ stack'[k] = stack[k]
    BY <1>4
  <2> QED BY <1>6, <1>8, <2>2
<1>10. phase' = "running" <=> stack' # <<>>
  BY <1>4, ListLen DEF Resumes
<1> QED BY <1>4, <1>6, <1>8, <1>9, <1>10, StackedAfter

(* Nothing but loading depends on more than the image. *)
LEMMA AdmittedImage ==
  ASSUME IInv, document' = document, phase \in {"image", "ready", "running"}
  PROVE  /\ image' = image /\ Admissible(image)' /\ HostBound' = HostBound
         /\ image.maxOperations \in Nat /\ image.maxCallDepth \in Nat \ {0}
<1>1. image' = image
  BY SameImage
<1>2. image.maxOperations \in Nat /\ image.maxCallDepth \in Nat \ {0}
  BY DocumentsAssumption DEF image, WellShaped, IInv, Stacked, StackInv
<1>3. Admissible(image) /\ Admissible(image)' = Admissible(image)
  BY <1>1 DEF IInv, Admitted
<1> QED BY <1>1, <1>2, <1>3 DEF HostBound

(* Nothing is loaded yet. *)
LEMMA InitIInv ==
  Init => IInv
<1> SUFFICES ASSUME Init PROVE IInv
  OBVIOUS
<1>1. stack = <<>> /\ IsList(stack) /\ Len(stack) = 0
  BY SeqIsList, EmptySeq DEF Init
<1>2. image.maxOperations \in Nat /\ image.maxCallDepth \in Nat
  BY DocumentsAssumption DEF Init, image, WellShaped
<1>3. Stacked
  BY <1>1, <1>2 DEF Init, Stacked, StackInv, CallStack
<1>4. Scalars
  BY BoundsAssumption DEF Init, Scalars, OutcomeOK, NoOutcome
<1>5. Admitted /\ OperationBudget
  BY <1>2 DEF Init, Admitted, OperationBudget, LimitFault, Fault, NoOutcome
<1> QED BY <1>3, <1>4, <1>5 DEF IInv

(* A step of a run: within the budget, or the one that the limit refuses. *)
LEMMA ExecuteBudget ==
  ASSUME Execute
  PROVE  /\ phase = "running"
         /\ Exhausted => /\ phase' = "ready" /\ outcome' = LimitFault
                         /\ UNCHANGED dataVars
<1>1. OperationLimit \/ (phase = "running" /\ ~Exhausted)
  BY DEF Execute, Instruction, Terminator, UndefinedValue, At, ConstInsn, ReadState, WriteState,
         BinopInsn, CompareInsn, CastInsn, SelectInsn, LoadInsn, StoreInsn, CallInsn, HostCall,
         Jump, Branch, IndirectJump, Trap, Return
<1> QED BY <1>1 DEF OperationLimit, Raise, LimitFault

(* A step of a run preserves the invariant. *)
LEMMA ExecuteIInv ==
  IInv /\ Execute => IInv'
<1> SUFFICES ASSUME IInv, Execute PROVE IInv'
  OBVIOUS
<1>1. phase = "running"
  BY ExecuteBudget
<1>2. Counted /\ (Ends \/ Moves \/ Calls \/ Resumes)
  BY StepShape DEF IInv, Stacked
<1>3. /\ image' = image /\ Admissible(image)' /\ HostBound' = HostBound
      /\ image.maxOperations \in Nat /\ image.maxCallDepth \in Nat \ {0}
  BY <1>1, <1>2, AdmittedImage DEF Counted, loaderVars
<1>4. /\ operations \in Nat /\ operations' = operations + 1
      /\ runs \in 0..MaxRuns /\ MaxRuns \in Nat /\ runs' = runs /\ document' = document
  BY <1>2, BoundsAssumption DEF Counted, loaderVars, IInv, Scalars
<1>5. phase' \in {"ready", "running"} /\ OutcomeOK' /\ (outcome' = LimitFault => Exhausted)
  <2>1. Ends => phase' \in {"ready", "running"} /\ OutcomeOK' /\ (outcome' = LimitFault => Exhausted)
    BY DEF Ends
  <2>2. outcome = LimitFault => Exhausted
    BY <1>3, <1>4 DEF IInv, OperationBudget, Exhausted
  <2>3. UNCHANGED <<phase, outcome>> => phase' \in {"ready", "running"} /\ OutcomeOK'
    BY <1>1 DEF IInv, Scalars, OutcomeOK
  <2>4. Calls => phase' \in {"ready", "running"} /\ OutcomeOK' /\ outcome' # LimitFault
    BY DEF Calls, OutcomeOK, NoOutcome, LimitFault, Fault
  <2> QED BY <1>2, <2>1, <2>2, <2>3, <2>4 DEF Moves, Resumes
<1>6. Stacked'
  <2>1. Stacked /\ document' = document
    BY <1>4 DEF IInv
  <2>2. Calls => Stacked'
    <3>1. SUFFICES ASSUME Calls PROVE Stacked'
      OBVIOUS
    <3>2. PICK n, args :
            /\ n \in DOMAIN image.functions
            /\ image.functions[n].id = Code.name
            /\ stack' = Append(stack, EntryFrame(n, args))
      BY <3>1 DEF Calls
    <3>3. Code.op = "call" /\ Len(stack) <= image.maxCallDepth /\ phase' = "running"
      <4>1. Len(stack) \in Nat
        BY <1>1, TopOK DEF IInv, Stacked
      <4> QED BY <1>3, <3>1, <4>1 DEF Calls, TooDeep
    <3> QED BY <2>1, <3>2, <3>3, PushStacked
  <2> QED BY <1>1, <1>2, <2>1, <2>2, EndsStacked, MovesStacked, ResumesStacked
<1>7. Exhausted => phase' = "ready" /\ outcome' = LimitFault
  BY ExecuteBudget
<1>8. Admitted'
  BY <1>1, <1>3, <1>4, <1>5, <1>7 DEF IInv, Admitted, Exhausted
<1>9. OperationBudget'
  BY <1>1, <1>3, <1>4, <1>5, <1>7 DEF IInv, Admitted, OperationBudget, Exhausted, LimitFault
<1>10. Scalars'
  BY <1>2, <1>4, <1>5 DEF IInv, Scalars, Counted, loaderVars
<1> QED BY <1>6, <1>8, <1>9, <1>10 DEF IInv

(* A step that touches neither the stack nor the phase of a run. *)
LEMMA IdleStacked ==
  ASSUME Stacked, document' = document, stack' = stack,
         phase' = "running" <=> phase = "running"
  PROVE  Stacked'
<1>1. StackInv'
  BY SameImage DEF Stacked, StackInv
<1>2. CallStack'
  BY SameImage DEF Stacked, CallStack, CodeOf, FnOf
<1> QED BY <1>1, <1>2 DEF Stacked

(* Admission decides what may be executed and starts nothing. *)
LEMMA LoadIInv ==
  IInv /\ Load => IInv'
<1> SUFFICES ASSUME IInv, Load PROVE IInv'
  OBVIOUS
<1>1. /\ UNCHANGED <<document, executors, runs, operations, stack, outcome>>
      /\ phase = "loading"
      /\ phase' = IF Admissible(image) THEN "image" ELSE "rejected"
  BY DEF Load, loaderVars
<1>2. image' = image
  BY <1>1, SameImage
<1>3. Stacked'
  BY <1>1, IdleStacked DEF IInv
<1>4. Scalars' /\ OperationBudget'
  BY <1>1, <1>2 DEF IInv, Scalars, OutcomeOK, OperationBudget, LimitFault, Fault
<1>5. Admitted'
  BY <1>1, <1>2 DEF IInv, Admitted
<1> QED BY <1>3, <1>4, <1>5 DEF IInv

(* A new executor starts with a full budget, on a bound host. *)
LEMMA ConstructIInv ==
  IInv /\ Construct => IInv'
<1> SUFFICES ASSUME IInv, Construct PROVE IInv'
  OBVIOUS
<1>1. /\ UNCHANGED <<document, runs, stack>>
      /\ phase \in {"image", "ready"}
      /\ executors < MaxExecutors /\ executors' = executors + 1
      /\ \/ HostBound /\ phase' = "ready" /\ operations' = 0 /\ outcome' = NoOutcome
         \/ /\ ~HostBound /\ UNCHANGED <<phase, operations>>
            /\ outcome' = Fault("host-binding", NoName)
  BY DEF Construct
<1>2. /\ image' = image /\ Admissible(image)' /\ HostBound' = HostBound
      /\ image.maxOperations \in Nat
  BY <1>1, AdmittedImage
<1>3. Stacked'
  BY <1>1, IdleStacked DEF IInv
<1>4. /\ executors' \in 0..MaxExecutors /\ runs \in Nat
      /\ phase' \in {"image", "ready"} /\ operations' \in Nat
  BY <1>1, BoundsAssumption DEF IInv, Scalars
<1>5. Scalars'
  BY <1>1, <1>4 DEF IInv, Scalars, OutcomeOK, NoOutcome, Fault
<1>6. Admitted'
  BY <1>1, <1>2, <1>4 DEF IInv, Admitted
<1>7. OperationBudget'
  BY <1>1, <1>2, <1>4 DEF IInv, Admitted, OperationBudget, LimitFault, Fault, NoOutcome
<1> QED BY <1>3, <1>5, <1>6, <1>7 DEF IInv

(* run() begins a run or is refused for its arguments; it counts nothing. *)
LEMMA RunIInv ==
  IInv /\ Run => IInv'
<1> SUFFICES ASSUME IInv, Run PROVE IInv'
  OBVIOUS
<1>1. /\ UNCHANGED <<document, executors, operations>>
      /\ phase = "ready" /\ runs < MaxRuns /\ runs' = runs + 1
  BY DEF Run
<1>2. /\ image' = image /\ Admissible(image)' /\ HostBound' = HostBound
      /\ image.maxOperations \in Nat /\ image.maxCallDepth \in Nat \ {0}
  BY <1>1, AdmittedImage
<1>3. /\ operations \in Nat /\ runs \in Nat /\ runs' \in 0..MaxRuns
      /\ executors \in 0..MaxExecutors
  BY <1>1, BoundsAssumption DEF IInv, Scalars
<1>4. image.entry \in Ids(image.functions)
  BY <1>1 DEF IInv, Admitted, Admissible, ValidIR
<1> DEFINE n == IndexOf(image.functions, image.entry)
<1>5. PICK args \in RunArgs : Enter(image.entry, args, 0)
  BY DEF Run
(* Depth 0 is never too deep and the entry exists: only the arguments can  *)
(* be in the way.                                                          *)
<1>6. \/ Raise("argument-count", image.entry)
      \/ /\ stack' = Append(stack, EntryFrame(n, args))
         /\ phase' = "running" /\ outcome' = NoOutcome
  <2>1. ~TooDeep(0)
    BY <1>2 DEF TooDeep
  <2> QED BY <1>4, <1>5, <2>1 DEF Enter
<1>7. stack = <<>> /\ Len(stack) = 0
  BY <1>1, EmptySeq DEF IInv, Stacked, StackInv
<1>8. Stacked'
  <2>1. n \in DOMAIN image.functions
    BY <1>4, IndexOfId
  <2>2. Raise("argument-count", image.entry) => Stacked'
    BY <1>1, EndsStacked, RaiseEnds DEF IInv
  <2> HIDE DEF n
  <2>3. stack' = Append(stack, EntryFrame(n, args)) /\ phase' = "running" => Stacked'
    BY <1>1, <1>2, <1>7, <2>1, PushStacked DEF IInv
  <2> QED BY <1>6, <2>2, <2>3
<1>9. Scalars'
  BY <1>1, <1>3, <1>6 DEF IInv, Scalars, OutcomeOK, NoOutcome, Raise, Fault
<1>10. operations <= image.maxOperations + runs
  BY DEF IInv, OperationBudget
<1>11. Admitted'
  BY <1>1, <1>2, <1>3, <1>6, <1>10 DEF IInv, Admitted, Raise
<1>12. OperationBudget'
  BY <1>1, <1>2, <1>3, <1>6, <1>10 DEF OperationBudget, LimitFault, Fault, NoOutcome, Raise
<1> QED BY <1>8, <1>9, <1>11, <1>12 DEF IInv

(* The host may do nothing. *)
LEMMA StutterIInv ==
  IInv /\ UNCHANGED vars => IInv'
<1> SUFFICES ASSUME IInv, UNCHANGED vars PROVE IInv'
  OBVIOUS
<1>1. image' = image
  BY DEF vars, image
<1>2. Stacked'
  BY IdleStacked DEF IInv, vars
<1>3. Scalars' /\ OperationBudget'
  BY <1>1 DEF IInv, vars, Scalars, OutcomeOK, OperationBudget, LimitFault, Fault
<1>4. Admitted'
  BY <1>1 DEF IInv, vars, Admitted, HostBound
<1> QED BY <1>2, <1>3, <1>4 DEF IInv

----------------------------------------------------------------------------
(* The theorems.                                                           *)

(* The inductive invariant holds in every state of every execution. *)
THEOREM Inductive == Spec => []IInv
<1>1. IInv /\ [Next]_vars => IInv'
  BY LoadIInv, ConstructIInv, RunIInv, ExecuteIInv, StutterIInv DEF Next
<1> QED BY <1>1, InitIInv, PTL DEF Spec

(* Whatever the module, the host and the bounds, a run is in progress       *)
(* exactly while there are frames and every frame stands at an instruction  *)
(* or terminator of its function.                                           *)
THEOREM TypeCorrect == Spec => []TypeOK
<1>1. IInv => TypeOK
  BY ListLen DEF IInv, Stacked, StackInv, Scalars, TypeOK
<1> QED BY <1>1, Inductive, PTL

(* Every frame but the last waits at the call of the next one, and calls    *)
(* nest no deeper than max_call_depth.                                      *)
THEOREM CallChain == Spec => []CallStack
<1>1. IInv => CallStack
  BY DEF IInv, Stacked
<1> QED BY <1>1, Inductive, PTL

(* The counter passes max_operations by at most one for each run; a run is  *)
(* refused for the limit only when it has been passed, and once it has, a   *)
(* run that begins is refused.                                              *)
THEOREM Budget == Spec => []OperationBudget
<1>1. IInv => OperationBudget
  BY DEF IInv
<1> QED BY <1>1, Inductive, PTL

(* The step that passes the limit leaves guest state, memory and host alone. *)
THEOREM RefusedStepHasNoEffect == Spec => NoEffectBeyondBudget
<1>1. IInv /\ [Next]_vars => [operations' > image.maxOperations => UNCHANGED dataVars]_vars
  <2>1. SUFFICES ASSUME IInv, Next, operations' > image.maxOperations
                 PROVE  UNCHANGED dataVars
    OBVIOUS
  <2>2. Execute => UNCHANGED dataVars
    <3>1. SUFFICES ASSUME Execute PROVE UNCHANGED dataVars
      OBVIOUS
    <3>2. operations' = operations + 1
      BY <2>1, <3>1, StepShape DEF IInv, Stacked, Counted
    <3>3. Exhausted
      BY <2>1, <3>2 DEF Exhausted
    <3> QED BY <3>1, <3>3, ExecuteBudget
  <2>3. Load \/ Run => UNCHANGED dataVars
    BY DEF Load, Run, dataVars
  <2>4. Construct => UNCHANGED dataVars
    <3>1. SUFFICES ASSUME Construct PROVE UNCHANGED dataVars
      OBVIOUS
    <3>2. image.maxOperations \in Nat
      BY <2>1, DocumentsAssumption DEF image, WellShaped, IInv, Stacked, StackInv
    <3>3. operations' # 0
      BY <2>1, <3>2
    <3> QED BY <3>1, <3>3 DEF Construct, dataVars
  <2> QED BY <2>1, <2>2, <2>3, <2>4 DEF Next
<1> QED BY <1>1, Inductive, PTL DEF Spec, NoEffectBeyondBudget

----------------------------------------------------------------------------
(* The definitions in scope at a position of a block. *)

Block(frame) == FnOf(frame).blocks[frame.blk]
Scope(frame) == Defined(FnOf(frame), frame.blk, frame.pc)

----------------------------------------------------------------------------
(* The code of a frame obeys the type rules. *)

(* Every instruction and terminator that a frame of an admitted image can  *)
(* stand at was accepted by the validator with the scope it executes in.   *)
LEMMA CodeTyped ==
  ASSUME document \in Documents, Admissible(image), NEW frame, FrameOK(frame)
  PROVE  /\ FunctionOK(image, FnOf(frame))
         /\ IsList(Block(frame).insns)
         /\ CodeOf(frame).op \in InsnOps \cup TermOps
         /\ CodeOf(frame).op \in InsnOps =>
              /\ frame.pc \in DOMAIN Block(frame).insns
              /\ CodeOf(frame) = Block(frame).insns[frame.pc]
              /\ InsnShaped(CodeOf(frame))
              /\ InsnOK(image, Scope(frame), CodeOf(frame))
         /\ CodeOf(frame).op \in TermOps =>
              /\ TermShaped(CodeOf(frame))
              /\ TermOK(image, FnOf(frame), Scope(frame), CodeOf(frame))
<1> DEFINE f     == FnOf(frame)
           insns == Block(frame).insns
           code  == CodeOf(frame)
<1>1. InsnOps \cap TermOps = {}
  BY DEF InsnOps, TermOps, CallOps, Arity
<1>2. FunctionOK(image, f) /\ frame.blk \in DOMAIN f.blocks
  BY DEF Admissible, ValidIR, FrameOK, FnOf
<1>3. BlockOK(image, f, frame.blk)
  BY <1>2 DEF FunctionOK
<1>4. /\ IsList(insns) /\ frame.pc \in 1..(Len(insns) + 1)
      /\ \/ frame.pc <= Len(insns) /\ InsnShaped(code)
         \/ frame.pc = Len(insns) + 1 /\ TermShaped(code)
  BY CodeShape DEF Block
<1>5. Len(insns) \in Nat /\ DOMAIN insns = 1..Len(insns)
  BY <1>4, ListLen
<1>6. code = IF frame.pc <= Len(insns) THEN insns[frame.pc] ELSE Block(frame).term
  BY DEF CodeOf, CodeAt, Block
<1>7. /\ \A k \in DOMAIN insns : InsnOK(image, Defined(f, frame.blk, k), insns[k])
      /\ TermOK(image, f, Defined(f, frame.blk, Len(insns) + 1), Block(frame).term)
  BY <1>3 DEF BlockOK, Block
<1> HIDE DEF f, insns, code
<1>8. CASE frame.pc <= Len(insns) /\ InsnShaped(code)
  <2>1. frame.pc \in DOMAIN insns /\ code = insns[frame.pc]
    BY <1>4, <1>5, <1>6, <1>8
  <2>2. code.op \in InsnOps /\ code.op \notin TermOps
    BY <1>1, <1>8 DEF InsnShaped
  <2> QED BY <1>2, <1>4, <1>7, <1>8, <2>1, <2>2 DEF f, insns, code, Scope
<1>9. CASE frame.pc = Len(insns) + 1 /\ TermShaped(code)
  <2>1. code = Block(frame).term
    BY <1>5, <1>6, <1>9
  <2>2. code.op \in TermOps /\ code.op \notin InsnOps
    BY <1>1, <1>9 DEF TermShaped
  <2> QED BY <1>2, <1>4, <1>7, <1>9, <2>1, <2>2 DEF f, insns, code, Scope
<1> QED BY <1>4, <1>8, <1>9

(* Every operand of an instruction or terminator was given a type. *)
LEMMA ArgsTyped ==
  ASSUME document \in Documents, Admissible(image), NEW frame, FrameOK(frame),
         NEW a \in DOMAIN CodeOf(frame).args
  PROVE  \E t : HasType(Scope(frame), CodeOf(frame).args[a], t)
<1> DEFINE code == CodeOf(frame)
<1>1. IsList(code.args)
  BY CodeTyped DEF InsnShaped, TermShaped, ArgsShaped
<1>2. Len(code.args) \in Nat /\ a \in 1..Len(code.args)
  BY <1>1, ListLen
<1>3. CASE code.op \in InsnOps
  <2>1. InsnShaped(code) /\ InsnOK(image, Scope(frame), code)
    BY <1>3, CodeTyped
  <2>2. code.op \in CallOps => \E t : HasType(Scope(frame), code.args[a], t)
    BY <2>1 DEF InsnOK, CallOps, CallOK, HostCallOK, HasSomeType
  <2>3. code.op \notin CallOps => a \in 1..Arity[code.op]
    BY <1>2, <2>1 DEF InsnShaped
  <2> HIDE DEF code
  <2>4. code.op \notin CallOps => \E t : HasType(Scope(frame), code.args[a], t)
    BY <1>2, <1>3, <2>1, <2>3
       DEF InsnOK, CallOps, InsnOps, Arity, WriteStateOK, BinopOK, CompareOK, CastOK,
           SelectOK, LoadOK, StoreOK
  <2> QED BY <2>2, <2>4 DEF code
<1>4. CASE code.op \in TermOps
  <2>1. /\ TermShaped(code) /\ TermOK(image, FnOf(frame), Scope(frame), code)
    BY <1>4, CodeTyped
  <2> HIDE DEF code
  <2>2. code.args # <<>> /\ Len(code.args) > 0
    BY <1>1, <1>2, ListLen
  <2>3. a = 1
    <3>1. code.op \in TermOps /\ code.op \notin {"jump", "trap"}
      BY <2>1, <2>2 DEF TermShaped
    <3>2. code.op \in {"branch", "return", "indirect_jump"}
      BY <3>1 DEF TermOps
    <3>3. Len(code.args) = 1 \/ Len(code.args) <= 1
      BY <2>1, <3>2, Zenon DEF TermShaped
    <3> DEFINE len == Len(code.args)
    <3>4. len \in Nat /\ a \in 1..len /\ (len = 1 \/ len <= 1)
      BY <1>2, <3>3
    <3> HIDE DEF len
    <3> QED BY <3>4
  <2> QED BY <2>1, <2>2, <2>3 DEF TermShaped, TermOps, TermOK, code
<1> QED BY <1>3, <1>4, CodeTyped

----------------------------------------------------------------------------
(* What a frame has defined is what its position promises.                 *)

(* A frame defines the results before its position, with their types, and  *)
(* nothing that is not in scope. *)
TypedFrame(frame) ==
  /\ ResultsBefore(Block(frame), frame.pc) \subseteq Typed(frame.vals)
  /\ Typed(frame.vals) \subseteq Scope(frame)

(* The frames of a running admitted image. *)
Sound(frame) ==
  /\ document \in Documents /\ Admissible(image)
  /\ FrameOK(frame) /\ TypedFrame(frame)

(* The value of a name in scope has the type of the name. *)
LEMMA DefinedType ==
  ASSUME NEW frame, Sound(frame), NEW n \in DOMAIN frame.vals, NEW t,
         <<n, t>> \in Scope(frame)
  PROVE  frame.vals[n].type = t
<1>1. <<n, frame.vals[n].type>> \in Scope(frame)
  BY DEF Sound, TypedFrame, Typed
<1>2. FunctionOK(image, FnOf(frame)) /\ frame.blk \in DOMAIN FnOf(frame).blocks
  BY CodeTyped DEF Sound, FrameOK
<1> QED BY <1>1, <1>2, OneType DEF Scope

(* A name in scope without a value is a parameter of the function. *)
LEMMA UndefinedIsParameter ==
  ASSUME NEW frame, Sound(frame), NEW n, n \notin DOMAIN frame.vals, NEW t,
         <<n, t>> \in Scope(frame)
  PROVE  n \in ParameterNames
<1>1. <<n, t>> \notin ResultsBefore(Block(frame), frame.pc)
  BY DEF Sound, TypedFrame, Typed
<1>2. <<n, t>> \in Params(FnOf(frame))
  BY <1>1 DEF Scope, Defined, Block
<1>3. n \in Ids(FnOf(frame).params)
  BY <1>2 DEF Params, Elements, Ids
<1>4. FnOf(frame) \in Elements(image.functions)
  BY DEF Sound, FrameOK, FnOf, Elements
<1> QED BY <1>3, <1>4 DEF ParameterNames

(* The same of the operands of the running frame. *)
LEMMA OperandType ==
  ASSUME Sound(Top), NEW o, NEW t, HasType(Scope(Top), o, t)
  PROVE  IF Known(o) THEN TypeOf(o) = t ELSE o.ref \in ParameterNames
<1>1. CASE o.ref = NoName
  BY <1>1 DEF HasType, Known, TypeOf
<1>2. CASE o.ref # NoName
  BY <1>2, DefinedType, UndefinedIsParameter DEF HasType, Known, TypeOf
<1> QED BY <1>1, <1>2

----------------------------------------------------------------------------
(* The moves of a frame keep it typed.                                     *)

(* Past an instruction that has no result; *)
LEMMA AdvancedTyped ==
  ASSUME NEW frame, Sound(frame), CodeOf(frame).op \in InsnOps, CodeOf(frame).result = NoName
  PROVE  TypedFrame(Advanced(frame))
<1> DEFINE new == Advanced(frame)
<1>1. /\ new.fn = frame.fn /\ new.blk = frame.blk /\ new.pc = frame.pc + 1
      /\ new.vals = frame.vals
  BY DEF Advanced, Frame
<1>2. ResultsBefore(Block(frame), frame.pc + 1) = ResultsBefore(Block(frame), frame.pc)
  <2>1. /\ IsList(Block(frame).insns) /\ frame.pc \in DOMAIN Block(frame).insns
        /\ Block(frame).insns[frame.pc].result = NoName
    BY CodeTyped DEF Sound
  <2> DEFINE block == Block(frame)
             k     == frame.pc
  <2>2. IsList(block.insns) /\ k \in DOMAIN block.insns /\ block.insns[k].result = NoName
    BY <2>1
  <2> HIDE DEF block, k
  <2>3. ResultsBefore(block, k + 1) =
           ResultsBefore(block, k) \cup
             (IF block.insns[k].result = NoName THEN {}
              ELSE {<<block.insns[k].result, block.insns[k].type>>})
    BY <2>2, OneMore
  <2>4. ResultsBefore(block, k + 1) = ResultsBefore(block, k)
    BY <2>2, <2>3
  <2> QED BY <2>4 DEF block, k
<1> HIDE DEF new
<1>3. Block(new) = Block(frame) /\ Scope(new) = Scope(frame)
  BY <1>1, <1>2 DEF Block, Scope, FnOf, Defined
<1> QED BY <1>1, <1>2, <1>3 DEF TypedFrame, Sound, new

(* past one that defines its result, which no earlier instruction did; *)
LEMMA AssignedTyped ==
  ASSUME NEW frame, Sound(frame), CodeOf(frame).op \in InsnOps,
         CodeOf(frame).result # NoName, NEW v
  PROVE  TypedFrame(Assigned(frame, CodeOf(frame), v))
<1> DEFINE insn  == CodeOf(frame)
           block == Block(frame)
           new   == Assigned(frame, insn, v)
           pair  == <<insn.result, insn.type>>
<1>1. /\ new.fn = frame.fn /\ new.blk = frame.blk /\ new.pc = frame.pc + 1
      /\ DOMAIN new.vals = DOMAIN frame.vals \cup {insn.result}
      /\ new.vals[insn.result].type = insn.type
      /\ \A n \in DOMAIN frame.vals : n # insn.result => new.vals[n] = frame.vals[n]
  BY DEF Assigned, With, Frame
<1>2. /\ UniqueResults(FnOf(frame)) /\ IsList(block.insns)
      /\ frame.blk \in DOMAIN FnOf(frame).blocks /\ block = FnOf(frame).blocks[frame.blk]
      /\ frame.pc \in DOMAIN block.insns /\ insn = block.insns[frame.pc]
  BY CodeTyped DEF Sound, FunctionOK, FrameOK, Block
<1>3. frame.pc \in Nat
  BY <1>2, ListLen
<1>4. ResultsBefore(block, frame.pc + 1) = ResultsBefore(block, frame.pc) \cup {pair}
  BY <1>2, OneMore
<1>5. \A x \in ResultsBefore(block, frame.pc) : x \in Typed(new.vals)
  <2>1. SUFFICES ASSUME NEW x \in ResultsBefore(block, frame.pc) PROVE x \in Typed(new.vals)
    OBVIOUS
  <2>2. PICK j \in DOMAIN block.insns :
          /\ j < frame.pc /\ block.insns[j].result # NoName
          /\ x = <<block.insns[j].result, block.insns[j].type>>
    BY ComputedEarlier
  <2>3. j # frame.pc
    BY <1>2, <1>3, <2>2, ListLen
  <2>4a. block.insns[j].result # insn.result
    BY SMTT(30), <1>2, <2>2, <2>3 DEF UniqueResults
  <2>4. x \in Typed(frame.vals)
    BY DEF Sound, TypedFrame
  <2>5. PICK n \in DOMAIN frame.vals : x = <<n, frame.vals[n].type>>
    BY <2>4 DEF Typed
  <2>6. n # insn.result
    BY <2>2, <2>4a, <2>5
  <2> QED BY <1>1, <2>5, <2>6 DEF Typed
<1>6. pair \in Typed(new.vals)
  BY <1>1 DEF Typed
<1>7. Typed(new.vals) \subseteq Typed(frame.vals) \cup {pair}
  BY <1>1 DEF Typed
<1> HIDE DEF new, pair, block, insn
<1>8. Block(new) = block
  BY <1>1 DEF Block, FnOf, block
<1>9. Scope(new) = Scope(frame) \cup {pair}
  BY <1>1, <1>2, <1>4 DEF Scope, Defined, FnOf
<1> QED BY <1>1, <1>4, <1>5, <1>6, <1>7, <1>8, <1>9 DEF TypedFrame, Sound, new, insn

(* to the start of a block, with no values; *)
LEMMA BlockFrameTyped ==
  ASSUME NEW frame, Sound(frame), NEW b \in DOMAIN FnOf(frame).blocks
  PROVE  TypedFrame(BlockFrame(frame, b))
<1> DEFINE new == BlockFrame(frame, b)
<1>1. new.fn = frame.fn /\ new.blk = b /\ new.pc = 1 /\ new.vals = NoValues
  BY DEF BlockFrame, Frame
<1>2. IsList(Block(new).insns)
  BY <1>1, ImageBlock DEF Sound, FrameOK, Block, FnOf
<1>3. ResultsBefore(Block(new), 1) = {}
  BY <1>2, NothingBefore
<1>4. Typed(new.vals) = {}
  BY <1>1 DEF Typed, NoValues
<1> QED BY <1>1, <1>3, <1>4 DEF TypedFrame

(* into a function, with its parameters. *)
LEMMA EntryFrameTyped ==
  ASSUME document \in Documents, NEW n \in DOMAIN image.functions, NEW args
  PROVE  TypedFrame(EntryFrame(n, args))
<1> DEFINE new    == EntryFrame(n, args)
           params == image.functions[n].params
<1>1. /\ new.fn = n /\ new.blk = 1 /\ new.pc = 1
      /\ DOMAIN new.vals = Ids(params)
      /\ \A p \in Ids(params) : new.vals[p].type = params[IndexOf(params, p)].type
  BY DEF EntryFrame, Frame
<1>2. IsList(Block(new).insns)
  <2>1. FrameOK(new)
    BY EntryFrameOK
  <2> QED BY <2>1, CodeShape DEF Block
<1>3. ResultsBefore(Block(new), 1) = {}
  BY <1>2, NothingBefore
<1>4. Typed(new.vals) \subseteq Params(FnOf(new))
  <2>1. SUFFICES ASSUME NEW p \in Ids(params)
                 PROVE  <<p, new.vals[p].type>> \in Params(FnOf(new))
    BY <1>1 DEF Typed
  <2>2. IndexOf(params, p) \in DOMAIN params /\ params[IndexOf(params, p)].id = p
    BY IndexOfId
  <2>3. <<p, params[IndexOf(params, p)].type>> \in Params(image.functions[n])
    BY <2>2 DEF Params, Elements
  <2> QED BY <1>1, <2>3 DEF FnOf
<1> QED BY <1>1, <1>3, <1>4 DEF TypedFrame, Scope, Defined

----------------------------------------------------------------------------
(* What a step of a run does to a typed stack.                             *)

TypedStep ==
  \/ stack' = <<>> /\ AdmittedModulesDoNotGoWrong'
  \/ \E frame : /\ TypedFrame(frame)
                /\ stack' = [stack EXCEPT ![Len(stack)] = frame]
                /\ outcome' = outcome
  \/ \E n \in DOMAIN image.functions : \E args :
       stack' = Append(stack, EntryFrame(n, args)) /\ outcome' = NoOutcome
  \/ /\ Len(stack) > 1
     /\ \E frame : /\ TypedFrame(frame)
                   /\ stack' = Append(SubSeq(stack, 1, Len(stack) - 2), frame)
                   /\ outcome' = outcome

(* A run may end by any fault but the ones validation excludes. *)
LEMMA RaiseTyped ==
  ASSUME NEW f, NEW name, Raise(f, name), document' = document,
         f \in InternalFaults =>
           \/ f = "undefined-value" /\ name \in ParameterNames
           \/ f = "argument-count" /\ name = image.entry
  PROVE  TypedStep
<1>1. image' = image
  BY SameImage
<1>2. outcome' = Fault(f, name) /\ stack' = <<>>
  BY DEF Raise
<1>3. AdmittedModulesDoNotGoWrong'
  BY <1>1, <1>2 DEF AdmittedModulesDoNotGoWrong, Fault, ParameterNames
<1> QED BY <1>2, <1>3 DEF TypedStep

(* An instruction with a result defines it; *)
LEMMA DefineTyped ==
  ASSUME Sound(Top), Code.op \in InsnOps, Code.result # NoName, NEW v, Define(v)
  PROVE  TypedStep
BY AssignedTyped DEF Define, Replace, TypedStep, Code

(* one without defines nothing; *)
LEMMA AdvanceTyped ==
  ASSUME Sound(Top), Code.op \in InsnOps, Code.result = NoName, Replace(Advanced(Top))
  PROVE  TypedStep
BY AdvancedTyped DEF Replace, TypedStep, Code

(* a jump finds its block. *)
LEMMA GoToTyped ==
  ASSUME Sound(Top), NEW id, id \in Ids(Fn.blocks), GoTo(id)
  PROVE  TypedStep
<1> DEFINE b == IndexOf(Fn.blocks, id)
<1>1. b \in DOMAIN FnOf(Top).blocks
  BY IndexOfId DEF Fn
<1>2. TypedFrame(BlockFrame(Top, b))
  BY <1>1, BlockFrameTyped
<1>3. Replace(BlockFrame(Top, b))
  BY DEF GoTo
<1> QED BY <1>2, <1>3 DEF TypedStep, Replace

(* The running frame may lack a value only if it is a parameter's. *)
LEMMA UndefinedTyped ==
  ASSUME Sound(Top), UndefinedValue
  PROVE  TypedStep
<1>1. document' = document
  BY DEF UndefinedValue, loaderVars
<1>2. PICK k \in DOMAIN Evaluated(Code) :
        /\ ~Known(Evaluated(Code)[k])
        /\ Raise("undefined-value", Evaluated(Code)[k].ref)
  BY DEF UndefinedValue
<1> DEFINE o == Evaluated(Code)[k]
<1>3. \E a \in DOMAIN Code.args : o = Code.args[a]
  <2>1. CASE Evaluated(Code) = Code.args
    BY <2>1
  <2>2. CASE Evaluated(Code) # Code.args
    <3>1. Code.op = "select"
      BY <2>2 DEF Evaluated
    <3>2. Code.op \in InsnOps \ CallOps /\ Arity[Code.op] = 3
      BY <3>1 DEF InsnOps, CallOps, Arity
    <3>3. InsnShaped(Code)
      BY <3>2, CodeTyped DEF Sound, Code
    <3>4. IsList(Code.args) /\ Len(Code.args) = 3
      BY <3>2, <3>3 DEF InsnShaped, ArgsShaped
    <3>5. 1 \in DOMAIN Code.args /\ 2 \in DOMAIN Code.args /\ 3 \in DOMAIN Code.args
      BY <3>4, ListLen
    <3>6. o = Code.args[1] \/ o = Code.args[2] \/ o = Code.args[3]
      BY <2>2 DEF Evaluated
    <3> QED BY <3>5, <3>6
  <2> QED BY <2>1, <2>2
<1>4. PICK t : HasType(Scope(Top), o, t)
  BY <1>3, ArgsTyped DEF Sound, Code
<1> HIDE DEF o
<1>5. ~Known(o) /\ Raise("undefined-value", o.ref)
  BY <1>2 DEF o
<1>6. o.ref \in ParameterNames
  BY <1>4, <1>5, OperandType
<1> QED BY <1>1, <1>5, <1>6, RaiseTyped

(* A call of an admitted image finds its function and its arguments.       *)
LEMMA CallTyped ==
  ASSUME Sound(Top), CallInsn
  PROVE  TypedStep
<1>1. Code.op = "call" /\ document' = document /\ Enter(Code.name, ArgValues, Depth(stack) + 1)
  BY DEF CallInsn, At, loaderVars
<1>2. InsnShaped(Code) /\ InsnOK(image, Scope(Top), Code)
  BY <1>1, CodeTyped DEF Sound, Code, InsnOps, CallOps
<1>3. /\ Code.name \in Ids(image.functions)
      /\ Len(Code.args) = Len(Callee(image, Code.name).params)
  BY <1>1, <1>2 DEF InsnOK, CallOK
<1>4. Len(ArgValues) = Len(Code.args)
  BY <1>2, ListImage DEF InsnShaped, ArgsShaped, ArgValues
<1>5. \/ Raise("call-depth", Code.name)
      \/ /\ stack' = Append(stack, EntryFrame(IndexOf(image.functions, Code.name), ArgValues))
         /\ outcome' = NoOutcome
  BY <1>1, <1>3, <1>4 DEF Enter
<1>6. IndexOf(image.functions, Code.name) \in DOMAIN image.functions
  BY <1>3, IndexOfId
<1>7. Raise("call-depth", Code.name) => TypedStep
  BY <1>1, RaiseTyped DEF InternalFaults
<1> QED BY <1>5, <1>6, <1>7 DEF TypedStep

(* A return finds the result its caller asks for: the callee's return type *)
(* is the type of that result, which is not void.                          *)
LEMMA ReturnTyped ==
  ASSUME IInv, phase = "running", \A k \in 1..Len(stack) : Sound(stack[k]), Return
  PROVE  TypedStep
<1> DEFINE n      == Len(stack) - 1
           caller == stack[n]
           call   == CodeOf(caller)
<1>1. Len(stack) \in Nat \ {0} /\ Sound(Top)
  BY TopOK DEF IInv, Stacked, StackInv, Top
<1>2. Code.op = "return" /\ document' = document
  BY DEF Return, At, loaderVars
<1>3. CASE Len(stack) = 1
  <2>1. stack' = <<>> /\ outcome' = Returned(ArgValues)
    BY <1>3 DEF Return
  <2> QED BY <2>1 DEF TypedStep, AdmittedModulesDoNotGoWrong, Returned
<1>4. CASE Len(stack) # 1
  <2>1. n \in 1..Len(stack) /\ n \in 1..(Len(stack) - 1) /\ n + 1 = Len(stack) /\ Len(stack) > 1
    BY <1>1, <1>4
  <2>2. Sound(caller) /\ call.op = "call" /\ image.functions[Top.fn].id = call.name
    BY <2>1 DEF IInv, Stacked, CallStack, Top
  <2> HIDE DEF n
  <2>3. InsnShaped(call) /\ InsnOK(image, Scope(caller), call) /\ call.op \in InsnOps
    BY <2>2, CodeTyped DEF Sound, InsnOps, CallOps
  <2>4. call.type \in IntTypes /\ (call.result # NoName => call.type = Callee(image, call.name).returnType)
    BY <2>2, <2>3 DEF InsnShaped, InsnOK, CallOK
  <2>5. Callee(image, call.name) = Fn
    <3>1. Top.fn \in DOMAIN image.functions /\ UniqueIds(image.functions)
      BY <1>1 DEF Sound, FrameOK, Admissible, ValidIR
    <3>2. call.name \in Ids(image.functions)
      BY <2>2, <3>1 DEF Ids
    <3>3. IndexOf(image.functions, call.name) = Top.fn
      BY <2>2, <3>1, <3>2, IndexOfId DEF UniqueIds
    <3> QED BY <3>3 DEF Callee, Fn, FnOf
  <2>6. call.result # NoName => Code.args # <<>>
    <3>1. TermOK(image, Fn, Scope(Top), Code)
      BY <1>1, <1>2, CodeTyped DEF Sound, Code, Fn, TermOps
    <3>2. Fn.returnType = Void \/ Code.args # <<>>
      BY <1>2, <3>1 DEF TermOK
    <3>3. Void \notin IntTypes
      BY DEF Void, IntTypes
    <3> QED BY <2>4, <2>5, <3>2, <3>3
  <2>7. /\ call.result = NoName => TypedFrame(Advanced(caller))
        /\ call.result # NoName => TypedFrame(Assigned(caller, call, Arg(1)))
    BY <2>2, <2>3, AdvancedTyped, AssignedTyped
  <2>8. \E frame \in {Advanced(caller), Assigned(caller, call, Arg(1))} :
          /\ TypedFrame(frame)
          /\ stack' = Append(SubSeq(stack, 1, Len(stack) - 2), frame)
          /\ outcome' = outcome
    <3>1. CASE call.result = NoName
      BY <1>4, <2>7, <3>1 DEF Return, n
    <3>2. CASE call.result # NoName
      BY <1>4, <2>6, <2>7, <3>2 DEF Return, n
    <3> QED BY <3>1, <3>2
  <2> QED BY <2>1, <2>8 DEF TypedStep
<1> QED BY <1>3, <1>4

----------------------------------------------------------------------------
(* The inductive invariant.                                                *)

TypedStack == \A k \in 1..Len(stack) : TypedFrame(stack[k])

(* An executor's guest state has exactly the declared slots.               *)
SlotsDeclared == phase \in {"ready", "running"} => DOMAIN state = Ids(image.slots)

TInv == IInv /\ TypedStack /\ SlotsDeclared /\ AdmittedModulesDoNotGoWrong

(* Every frame of a run is sound. *)
LEMMA RunningSound ==
  ASSUME TInv, phase = "running"
  PROVE  (\A k \in 1..Len(stack) : Sound(stack[k])) /\ Sound(Top) /\ Len(stack) \in Nat \ {0}
<1>1. \A k \in 1..Len(stack) : Sound(stack[k])
  BY DEF TInv, IInv, Stacked, StackInv, Admitted, TypedStack, Sound
<1>2. Len(stack) \in Nat \ {0}
  BY TopOK DEF TInv, IInv, Stacked
<1> QED BY <1>1, <1>2 DEF Top

(* Reading and writing a slot that validation found declared. *)
LEMMA SlotTyped ==
  ASSUME TInv, ReadState \/ WriteState
  PROVE  TypedStep /\ SlotsDeclared'
<1>1. /\ phase = "running" /\ document' = document
      /\ Code.op = "read_state" \/ Code.op = "write_state"
  BY DEF ReadState, WriteState, At, loaderVars
<1>2. Sound(Top) /\ Code.op \in InsnOps
  BY <1>1, RunningSound DEF InsnOps, Arity
<1>3. InsnShaped(Code) /\ InsnOK(image, Scope(Top), Code)
  BY <1>2, CodeTyped DEF Sound, Code
<1>4. Code.name \in DOMAIN state
  BY <1>1, <1>3 DEF InsnOK, ReadStateOK, WriteStateOK, TInv, SlotsDeclared
<1>5. image' = image
  BY <1>1, SameImage
<1>6. CASE ReadState
  <2>1. Code.result # NoName /\ Define(state[Code.name])
    BY <1>3, <1>4, <1>6 DEF ReadState, At, InsnShaped, CallOps
  <2> QED BY <1>1, <1>2, <1>5, <1>6, <2>1, DefineTyped
          DEF ReadState, dataVars, TInv, SlotsDeclared
<1>7. CASE WriteState
  <2>1. Code.result = NoName /\ Replace(Advanced(Top)) /\ DOMAIN state' = DOMAIN state
    BY <1>3, <1>4, <1>7 DEF WriteState, At, InsnShaped
  <2> QED BY <1>1, <1>2, <1>5, <2>1, AdvanceTyped DEF TInv, SlotsDeclared
<1> QED BY <1>6, <1>7

(* Loading and storing at an address of the address type. *)
LEMMA AccessTyped ==
  ASSUME TInv, LoadInsn \/ StoreInsn
  PROVE  TypedStep
<1>1. /\ phase = "running" /\ document' = document
      /\ Code.op = "load" \/ Code.op = "store"
  BY DEF LoadInsn, StoreInsn, At, loaderVars
<1>2. Sound(Top) /\ Code.op \in InsnOps
  BY <1>1, RunningSound DEF InsnOps, Arity
<1>3. InsnShaped(Code) /\ InsnOK(image, Scope(Top), Code)
  BY <1>2, CodeTyped DEF Sound, Code
<1>4. Code.op \in InsnOps \ CallOps /\ Arity[Code.op] = IF Code.op = "load" THEN 1 ELSE 2
  BY <1>1 DEF InsnOps, CallOps, Arity
<1>5. IsList(Code.args) /\ Len(Code.args) = IF Code.op = "load" THEN 1 ELSE 2
  BY <1>3, <1>4 DEF InsnShaped, ArgsShaped
<1>6. 1 \in DOMAIN Code.args /\ (Code.op = "store" => 2 \in DOMAIN Code.args)
  BY <1>1, <1>5, ListLen
<1>7. ASSUME NEW f, f \in {"misalignment", "memory-fault"}, Raise(f, NoName)
      PROVE  TypedStep
  BY <1>1, <1>7, RaiseTyped DEF InternalFaults
<1>8. \A address : AccessFault(image, Code, address) \in {NoName, "misalignment", "memory-fault"}
  BY DEF AccessFault
<1>9. CASE LoadInsn
  <2>1. At("load") /\ Code.op = "load"
    BY <1>9 DEF LoadInsn, At
  <2>2. Known(Code.args[1])
    BY <1>6, <2>1 DEF At, Evaluated
  <2>3. HasType(Scope(Top), Code.args[1], image.addressType) /\ Code.result # NoName
    BY <1>3, <2>1 DEF InsnOK, LoadOK, InsnShaped, CallOps
  <2>4. TypeOf(Code.args[1]) = image.addressType
    BY <1>2, <2>2, <2>3, OperandType
  <2>5. \/ Raise(AccessFault(image, Code, Arg(1)), NoName) /\ AccessFault(image, Code, Arg(1)) # NoName
        \/ Define(LoadValue(image, memory, Code, Arg(1)))
    BY <1>9, <2>4 DEF LoadInsn
  <2> QED BY <1>2, <1>7, <1>8, <2>3, <2>5, DefineTyped
<1>10. CASE StoreInsn
  <2>1. At("store") /\ Code.op = "store"
    BY <1>10 DEF StoreInsn, At
  <2>2. Known(Code.args[2])
    BY <1>6, <2>1 DEF At, Evaluated
  <2>3. HasType(Scope(Top), Code.args[2], image.addressType) /\ Code.result = NoName
    BY <1>3, <2>1 DEF InsnOK, StoreOK, InsnShaped
  <2>4. TypeOf(Code.args[2]) = image.addressType
    BY <1>2, <2>2, <2>3, OperandType
  <2>5. \/ Raise(AccessFault(image, Code, Arg(2)), NoName) /\ AccessFault(image, Code, Arg(2)) # NoName
        \/ Replace(Advanced(Top))
    BY <1>10, <2>4 DEF StoreInsn
  <2> QED BY <1>2, <1>7, <1>8, <2>3, <2>5, AdvanceTyped
<1> QED BY <1>9, <1>10

(* The instructions that only compute. *)
LEMMA ComputeTyped ==
  ASSUME TInv, ConstInsn \/ BinopInsn \/ CompareInsn \/ CastInsn \/ SelectInsn
  PROVE  TypedStep
<1>1. /\ phase = "running" /\ document' = document
      /\ Code.op \in {"const", "binop", "compare", "cast", "select"}
  BY DEF ConstInsn, BinopInsn, CompareInsn, CastInsn, SelectInsn, At, loaderVars
<1>2. Sound(Top) /\ Code.op \in InsnOps
  BY <1>1, RunningSound DEF InsnOps, Arity
<1>3. InsnShaped(Code)
  BY <1>2, CodeTyped DEF Sound, Code
<1>4. Code.result # NoName
  BY <1>1, <1>3 DEF InsnShaped, CallOps
<1>5. Raise("shift-count", NoName) \/ \E v : Define(v)
  BY DEF ConstInsn, BinopInsn, CompareInsn, CastInsn, SelectInsn
<1>6. Raise("shift-count", NoName) => TypedStep
  BY <1>1, RaiseTyped DEF InternalFaults
<1> QED BY <1>2, <1>4, <1>5, <1>6, DefineTyped

(* A host call returns what the module asks for, or fails as the host.     *)
LEMMA HostCallTyped ==
  ASSUME TInv, HostCall
  PROVE  TypedStep
<1>1. phase = "running" /\ document' = document /\ Code.op = "host_call"
  BY DEF HostCall, At, loaderVars
<1>2. Sound(Top) /\ Code.op \in InsnOps
  BY <1>1, RunningSound DEF InsnOps, CallOps
<1>3. \/ Raise("host-failure", Code.name) \/ Raise("host-void", Code.name)
      \/ Code.result = NoName /\ Replace(Advanced(Top))
      \/ Code.result # NoName /\ \E v : Define(v)
  BY DEF HostCall
<1>4. Raise("host-failure", Code.name) \/ Raise("host-void", Code.name) => TypedStep
  BY <1>1, RaiseTyped DEF InternalFaults
<1> QED BY <1>2, <1>3, <1>4, DefineTyped, AdvanceTyped

(* The targets of a terminator are blocks of the function. *)
LEMMA JumpTyped ==
  ASSUME TInv, Jump \/ Branch \/ IndirectJump
  PROVE  TypedStep
<1>1. /\ phase = "running" /\ document' = document
      /\ Code.op \in {"jump", "branch", "indirect_jump"}
  BY DEF Jump, Branch, IndirectJump, At, loaderVars
<1>2. Sound(Top) /\ Code.op \in TermOps
  BY <1>1, RunningSound DEF TermOps
<1>3. /\ TermShaped(Code) /\ TermOK(image, Fn, Scope(Top), Code)
  BY <1>2, CodeTyped DEF Sound, Code, Fn
<1>4. \A n \in DOMAIN Code.targets : Code.targets[n] \in Ids(Fn.blocks)
  BY <1>3 DEF TermOK
<1>5. IsList(Code.targets)
  BY <1>3 DEF TermShaped
<1>6. CASE Jump
  <2>1. Len(Code.targets) = 1 /\ GoTo(Code.targets[1])
    BY <1>3, <1>6 DEF Jump, At, TermShaped
  <2>2. 1 \in DOMAIN Code.targets
    BY <1>5, <2>1, ListLen
  <2> QED BY <1>2, <1>4, <2>1, <2>2, GoToTyped
<1>7. CASE Branch
  <2>1. /\ Len(Code.targets) = 2
        /\ GoTo(Code.targets[1]) \/ GoTo(Code.targets[2])
    BY <1>3, <1>7 DEF Branch, At, TermShaped
  <2>2. 1 \in DOMAIN Code.targets /\ 2 \in DOMAIN Code.targets
    BY <1>5, <2>1, ListLen
  <2> QED BY <1>2, <1>4, <2>1, <2>2, GoToTyped
<1>8. CASE IndirectJump
  <2>1. \/ Raise("indirect-target", NoName)
        \/ \E id \in Elements(Code.targets) : GoTo(id)
    BY <1>8 DEF IndirectJump
  <2>2. Raise("indirect-target", NoName) => TypedStep
    BY <1>1, RaiseTyped DEF InternalFaults
  <2>3. \A id \in Elements(Code.targets) : id \in Ids(Fn.blocks)
    BY <1>4 DEF Elements
  <2> QED BY <1>2, <2>1, <2>2, <2>3, GoToTyped
<1> QED BY <1>6, <1>7, <1>8

(* Whatever a step of an admitted module executes, the stack stays typed   *)
(* and no fault is one that validation excludes.                           *)
LEMMA StepTyped ==
  ASSUME TInv, Execute
  PROVE  TypedStep /\ SlotsDeclared'
<1>1. phase = "running"
  BY ExecuteBudget
<1>2. (\A k \in 1..Len(stack) : Sound(stack[k])) /\ Sound(Top)
  BY <1>1, RunningSound
<1>3. document' = document
  BY StepShape DEF TInv, IInv, Stacked, Counted, loaderVars
<1>4. (OperationLimit \/ Trap) => TypedStep
  BY <1>3, RaiseTyped DEF OperationLimit, Trap, InternalFaults
<1>5. TypedStep
  BY <1>1, <1>2, <1>4, UndefinedTyped, ComputeTyped, SlotTyped, AccessTyped, CallTyped,
     HostCallTyped, JumpTyped, ReturnTyped
     DEF Execute, Instruction, Terminator, TInv
<1>6. ReadState \/ WriteState \/ state' = state
  BY DEF Execute, Instruction, Terminator, OperationLimit, UndefinedValue, ConstInsn,
         BinopInsn, CompareInsn, CastInsn, SelectInsn, LoadInsn, StoreInsn, CallInsn, HostCall,
         Jump, Branch, IndirectJump, Trap, Return, dataVars
<1>7. SlotsDeclared'
  <2>1. image' = image
    BY <1>3, SameImage
  <2>2. state' = state => SlotsDeclared'
    BY <1>1, <2>1 DEF TInv, SlotsDeclared
  <2> QED BY <1>6, <2>2, SlotTyped
<1> QED BY <1>5, <1>7

(* A frame is typed as long as the image is the same. *)
LEMMA SameTyped ==
  ASSUME document' = document, NEW frame
  PROVE  TypedFrame(frame)' <=> TypedFrame(frame)
<1>1. image' = image
  BY SameImage
<1> QED BY <1>1 DEF TypedFrame, Block, Scope, FnOf

(* So the stack is typed when each of its frames is. *)
LEMMA TypedAfter ==
  ASSUME document' = document, \A k \in 1..Len(stack') : TypedFrame(stack'[k])
  PROVE  TypedStack'
BY SameTyped DEF TypedStack

(* A fault that was in order stays in order. *)
LEMMA SameOutcome ==
  ASSUME document' = document, outcome' = NoOutcome \/
           (outcome' = outcome /\ AdmittedModulesDoNotGoWrong)
  PROVE  AdmittedModulesDoNotGoWrong'
<1>1. image' = image
  BY SameImage
<1> QED BY <1>1 DEF AdmittedModulesDoNotGoWrong, NoOutcome, ParameterNames

(* The four things a step may do to the stack keep it typed. *)
LEMMA TypedStepTyped ==
  ASSUME TInv, phase = "running", TypedStep, document' = document
  PROVE  TypedStack' /\ AdmittedModulesDoNotGoWrong'
<1> DEFINE Goal == TypedStack' /\ AdmittedModulesDoNotGoWrong'
           len  == Len(stack)
<1>1. /\ IsList(stack) /\ stack # <<>> /\ len \in Nat \ {0}
      /\ \A k \in 1..len : TypedFrame(stack[k])
      /\ document \in Documents
  BY TopOK DEF TInv, IInv, Stacked, StackInv, TypedStack
<1>2. CASE stack' = <<>> /\ AdmittedModulesDoNotGoWrong'
  <2>1. Len(stack') = 0
    BY <1>2, EmptySeq
  <2> QED BY <1>2, <2>1, TypedAfter
<1>3. CASE \E frame : /\ TypedFrame(frame)
                      /\ stack' = [stack EXCEPT ![Len(stack)] = frame]
                      /\ outcome' = outcome
  <2>1. PICK frame : TypedFrame(frame) /\ stack' = [stack EXCEPT ![Len(stack)] = frame]
    BY <1>3
  <2>2. LET t == [stack EXCEPT ![Len(stack)] = frame]
        IN  /\ Len(t) = Len(stack)
            /\ \A k \in 1..(Len(stack) - 1) : t[k] = stack[k]
            /\ t[Len(stack)] = frame
    BY <1>1, ListReplace
  <2>3. /\ Len(stack') = len /\ stack'[len] = frame
        /\ \A k \in 1..(len - 1) : stack'[k] = stack[k]
    BY <2>1, <2>2
  <2> HIDE DEF len
  <2>4. \A k \in 1..len : k = len \/ k \in 1..(len - 1)
    BY <1>1
  <2>5. \A k \in 1..Len(stack') : TypedFrame(stack'[k])
    BY <1>1, <2>1, <2>3, <2>4
  <2> QED BY <1>3, <2>5, TypedAfter, SameOutcome DEF TInv
<1>4. CASE \E n \in DOMAIN image.functions : \E args :
             stack' = Append(stack, EntryFrame(n, args)) /\ outcome' = NoOutcome
  <2>1. PICK n, args : /\ n \in DOMAIN image.functions
                       /\ stack' = Append(stack, EntryFrame(n, args))
    BY <1>4
  <2> DEFINE new == EntryFrame(n, args)
  <2>2. TypedFrame(new)
    BY <1>1, <2>1, EntryFrameTyped
  <2> HIDE DEF new
  <2>3. LET t == Append(stack, new)
        IN  /\ Len(t) = Len(stack) + 1
            /\ \A k \in 1..Len(stack) : t[k] = stack[k]
            /\ t[Len(stack) + 1] = new
    BY <1>1, ListAppend
  <2>4. /\ Len(stack') = len + 1 /\ stack'[len + 1] = new
        /\ \A k \in 1..len : stack'[k] = stack[k]
    BY <2>1, <2>3 DEF new
  <2> HIDE DEF len
  <2>5. \A k \in 1..(len + 1) : k = len + 1 \/ k \in 1..len
    BY <1>1
  <2>6. \A k \in 1..Len(stack') : TypedFrame(stack'[k])
    BY <1>1, <2>2, <2>4, <2>5
  <2> QED BY <1>4, <2>6, TypedAfter, SameOutcome
<1>5. CASE /\ Len(stack) > 1
           /\ \E frame : /\ TypedFrame(frame)
                         /\ stack' = Append(SubSeq(stack, 1, Len(stack) - 2), frame)
                         /\ outcome' = outcome
  <2>1. PICK frame : /\ TypedFrame(frame)
                     /\ stack' = Append(SubSeq(stack, 1, Len(stack) - 2), frame)
    BY <1>5
  <2>2. LET t == Append(SubSeq(stack, 1, Len(stack) - 2), frame)
        IN  /\ Len(t) = Len(stack) - 1
            /\ \A k \in 1..(Len(stack) - 2) : t[k] = stack[k]
            /\ t[Len(stack) - 1] = frame
    BY <1>1, <1>5, ListPop
  <2>3. /\ Len(stack') = len - 1 /\ stack'[len - 1] = frame
        /\ \A k \in 1..(len - 2) : stack'[k] = stack[k]
    BY <2>1, <2>2
  <2> HIDE DEF len
  <2>4. \A k \in 1..(len - 1) : k = len - 1 \/ (k \in 1..(len - 2) /\ k \in 1..len)
    BY <1>1
  <2>5. \A k \in 1..Len(stack') : TypedFrame(stack'[k])
    BY <1>1, <2>1, <2>3, <2>4
  <2> QED BY <1>5, <2>5, TypedAfter, SameOutcome DEF TInv
<1> QED BY <1>2, <1>3, <1>4, <1>5 DEF TypedStep

(* A step of a run, *)
LEMMA ExecuteTInv ==
  TInv /\ Execute => TInv'
<1> SUFFICES ASSUME TInv, Execute PROVE TInv'
  OBVIOUS
<1>1. phase = "running" /\ document' = document
  BY ExecuteBudget, StepShape DEF TInv, IInv, Stacked, Counted, loaderVars
<1>2. IInv'
  BY ExecuteIInv DEF TInv
<1>3. TypedStep /\ SlotsDeclared'
  BY StepTyped
<1> QED BY <1>1, <1>2, <1>3, TypedStepTyped DEF TInv

(* the admission of a module, *)
LEMMA LoadTInv ==
  TInv /\ Load => TInv'
<1> SUFFICES ASSUME TInv, Load PROVE TInv'
  OBVIOUS
<1>1. IInv'
  BY LoadIInv DEF TInv
<1>2. /\ document' = document /\ stack' = stack /\ outcome' = outcome
      /\ phase' \in {"image", "rejected"}
  BY DEF Load, loaderVars
<1>3. TypedStack'
  BY <1>2, TypedAfter DEF TInv, TypedStack
<1> QED BY <1>1, <1>2, <1>3, SameOutcome DEF TInv, SlotsDeclared

(* the construction of an executor, *)
LEMMA ConstructTInv ==
  TInv /\ Construct => TInv'
<1> SUFFICES ASSUME TInv, Construct PROVE TInv'
  OBVIOUS
<1>1. IInv'
  BY ConstructIInv DEF TInv
<1>2. /\ document' = document /\ stack' = stack
      /\ \/ state' = InitialState /\ outcome' = NoOutcome
         \/ state' = state /\ phase' = phase /\ outcome' = Fault("host-binding", NoName)
  BY DEF Construct, dataVars
<1>3. TypedStack'
  BY <1>2, TypedAfter DEF TInv, TypedStack
<1>4. image' = image
  BY <1>2, SameImage
<1>5. SlotsDeclared'
  BY <1>2, <1>4 DEF TInv, SlotsDeclared, InitialState
<1>6. AdmittedModulesDoNotGoWrong'
  BY <1>2, <1>4 DEF AdmittedModulesDoNotGoWrong, NoOutcome, Fault, InternalFaults
<1> QED BY <1>1, <1>3, <1>5, <1>6 DEF TInv

(* and the beginning of a run preserve the invariant. *)
LEMMA RunTInv ==
  TInv /\ Run => TInv'
<1> SUFFICES ASSUME TInv, Run PROVE TInv'
  OBVIOUS
<1>1. IInv'
  BY RunIInv DEF TInv
<1>2. /\ document' = document /\ state' = state /\ phase = "ready"
      /\ \E args \in RunArgs : Enter(image.entry, args, 0)
  BY DEF Run, dataVars
<1>3. /\ stack = <<>> /\ IsList(stack) /\ Len(stack) = 0 /\ document \in Documents
      /\ image.maxCallDepth \in Nat /\ image.entry \in Ids(image.functions)
  BY <1>2, EmptySeq, DocumentsAssumption
     DEF TInv, IInv, Stacked, StackInv, Admitted, Admissible, ValidIR, image, WellShaped
<1>4. image' = image
  BY <1>2, SameImage
<1> DEFINE n == IndexOf(image.functions, image.entry)
<1>5. n \in DOMAIN image.functions
  BY <1>3, IndexOfId
<1> HIDE DEF n
<1>6. \/ Raise("argument-count", image.entry)
      \/ \E args : stack' = Append(stack, EntryFrame(n, args)) /\ outcome' = NoOutcome
  BY <1>2, <1>3 DEF Enter, TooDeep, n
<1>7. CASE Raise("argument-count", image.entry)
  <2>1. stack' = <<>> /\ Len(stack') = 0
    BY <1>7, EmptySeq DEF Raise
  <2>2. AdmittedModulesDoNotGoWrong'
    BY <1>4, <1>7 DEF Raise, Fault, AdmittedModulesDoNotGoWrong
  <2> QED BY <1>1, <1>2, <1>4, <2>1, <2>2, TypedAfter DEF TInv, SlotsDeclared
<1>8. CASE \E args : stack' = Append(stack, EntryFrame(n, args)) /\ outcome' = NoOutcome
  <2>1. PICK args : stack' = Append(stack, EntryFrame(n, args)) /\ outcome' = NoOutcome
    BY <1>8
  <2> DEFINE new == EntryFrame(n, args)
  <2>2. TypedFrame(new)
    BY <1>3, <1>5, EntryFrameTyped
  <2> HIDE DEF new
  <2>3. Len(stack') = 1 /\ stack'[1] = new
    <3>1. LET t == Append(stack, new)
          IN  Len(t) = Len(stack) + 1 /\ t[Len(stack) + 1] = new
      BY <1>3, ListAppend
    <3> QED BY <1>3, <2>1, <3>1 DEF new
  <2>4. \A k \in 1..Len(stack') : TypedFrame(stack'[k])
    BY <2>2, <2>3
  <2> QED BY <1>1, <1>2, <1>4, <2>1, <2>4, TypedAfter, SameOutcome DEF TInv, SlotsDeclared
<1> QED BY <1>6, <1>7, <1>8

(* So do the initial state and the host that does nothing. *)
LEMMA InitTInv ==
  Init => TInv
<1> SUFFICES ASSUME Init PROVE TInv
  OBVIOUS
<1>1. Len(stack) = 0
  BY EmptySeq DEF Init
<1> QED BY <1>1, InitIInv
        DEF Init, TInv, TypedStack, SlotsDeclared, AdmittedModulesDoNotGoWrong, NoOutcome

LEMMA StutterTInv ==
  TInv /\ UNCHANGED vars => TInv'
<1> SUFFICES ASSUME TInv, UNCHANGED vars PROVE TInv'
  OBVIOUS
<1>1. IInv'
  BY StutterIInv DEF TInv
<1>2. /\ document' = document /\ stack' = stack /\ outcome' = outcome
      /\ state' = state /\ phase' = phase
  BY DEF vars
<1>3. TypedStack' /\ AdmittedModulesDoNotGoWrong'
  BY <1>2, TypedAfter, SameOutcome DEF TInv, TypedStack
<1>4. SlotsDeclared'
  BY <1>2, SameImage DEF TInv, SlotsDeclared
<1> QED BY <1>1, <1>3, <1>4 DEF TInv

----------------------------------------------------------------------------
(* The theorems.                                                           *)

(* What is defined in every frame, with which type, is inductive. *)
THEOREM TypedInductive == Spec => []TInv
<1>1. TInv /\ [Next]_vars => TInv'
  BY StutterTInv, LoadTInv, ConstructTInv, RunTInv, ExecuteTInv DEF Next
<1> QED BY <1>1, InitTInv, PTL DEF Spec

(* Temporaries are block-local: in every active frame exactly the results  *)
(* of the instructions already executed in the block are defined, with     *)
(* their types, and besides them at most the parameters, in the entry block. *)
THEOREM BlockLocality == Spec => []BlockLocalValues
<1>1. TInv => BlockLocalValues
  BY ListLen DEF TInv, IInv, Stacked, StackInv, TypedStack, TypedFrame, Block, Scope,
                 BlockLocalValues
<1> QED BY <1>1, TypedInductive, PTL

(* Soundness of the validator: whatever an admitted module, its host and   *)
(* the arguments are, no run fails for an undefined temporary, an          *)
(* undeclared slot, an unknown function or block, mismatched arguments of  *)
(* a call, an address of a wrong type or a missing result.  The entry's    *)
(* own arguments and a parameter used after control came back to the entry *)
(* block are the only exceptions.                                          *)
THEOREM ValidatorSound == Spec => []AdmittedModulesDoNotGoWrong
<1>1. TInv => AdmittedModulesDoNotGoWrong
  BY DEF TInv
<1> QED BY <1>1, TypedInductive, PTL

(* An executor reads and writes exactly the slots its module declares. *)
THEOREM StateIsDeclared == Spec => []SlotsDeclared
<1>1. TInv => SlotsDeclared
  BY DEF TInv
<1> QED BY <1>1, TypedInductive, PTL

----------------------------------------------------------------------------
(* Every value a program can observe is a bit pattern of its type.         *)

FittingFrame(frame) ==
  \A n \in DOMAIN frame.vals :
    frame.vals[n].type \in IntTypes /\ Fits(frame.vals[n].value, frame.vals[n].type)

StateFits == \A slot \in DOMAIN state : Fits(state[slot], SlotType(image, slot))

MemoryFits ==
  /\ phase \in {"ready", "running"} => DOMAIN memory = Addresses(image)
  /\ \A a \in DOMAIN memory : memory[a] \in Byte

StackFits == \A k \in 1..Len(stack) : FittingFrame(stack[k])

VInv == TInv /\ StateFits /\ MemoryFits /\ StackFits

(* A result is masked when it is assigned, *)
LEMMA AssignedFits ==
  ASSUME NEW frame, FittingFrame(frame), NEW insn, insn.type \in IntTypes, NEW v \in Int
  PROVE  FittingFrame(Assigned(frame, insn, v))
<1> DEFINE new == Assigned(frame, insn, v)
           w   == Mask(v, TypeBits[insn.type])
<1>1. Fits(w, insn.type)
  BY MaskedFits
<1>2. /\ DOMAIN new.vals = DOMAIN frame.vals \cup {insn.result}
      /\ new.vals[insn.result] = [value |-> w, type |-> insn.type]
      /\ \A n \in DOMAIN frame.vals : n # insn.result => new.vals[n] = frame.vals[n]
  BY DEF Assigned, With, Frame
<1> HIDE DEF new, w
<1> QED BY <1>1, <1>2 DEF FittingFrame, new

(* and so is an argument when a function is entered.                       *)
LEMMA EntryFrameFits ==
  ASSUME document \in Documents, NEW n \in DOMAIN image.functions, NEW args,
         \A k \in DOMAIN image.functions[n].params : args[k] \in Int
  PROVE  FittingFrame(EntryFrame(n, args))
<1> DEFINE new    == EntryFrame(n, args)
           params == image.functions[n].params
<1>1. \A k \in DOMAIN params : params[k].type \in IntTypes
  BY ImageBlock DEF FunctionShaped, Named, Elements
<1>2. /\ DOMAIN new.vals = Ids(params)
      /\ \A p \in Ids(params) :
           new.vals[p] = [value |-> Mask(args[IndexOf(params, p)],
                                         TypeBits[params[IndexOf(params, p)].type]),
                          type  |-> params[IndexOf(params, p)].type]
  BY DEF EntryFrame, Frame
<1> HIDE DEF new
<1>3. ASSUME NEW p \in Ids(params)
      PROVE  new.vals[p].type \in IntTypes /\ Fits(new.vals[p].value, new.vals[p].type)
  <2>1. IndexOf(params, p) \in DOMAIN params
    BY IndexOfId
  <2>2. args[IndexOf(params, p)] \in Int /\ params[IndexOf(params, p)].type \in IntTypes
    BY <1>1, <2>1
  <2> DEFINE t == params[IndexOf(params, p)].type
             v == args[IndexOf(params, p)]
  <2>3. new.vals[p].type = t /\ new.vals[p].value = Mask(v, TypeBits[t])
    <3>1. new.vals[p] = [value |-> Mask(v, TypeBits[t]), type |-> t]
      BY <1>2
    <3> HIDE DEF t, v
    <3> QED BY <3>1
  <2>4. t \in IntTypes /\ v \in Int
    BY <2>2
  <2> HIDE DEF t, v
  <2>5. Fits(Mask(v, TypeBits[t]), t)
    BY <2>4, MaskedFits
  <2> QED BY <2>3, <2>4, <2>5
<1> QED BY <1>2, <1>3 DEF FittingFrame, new

(* What a step does to the frames: it ends the run, moves the running      *)
(* frame, calls a function or resumes the caller.                          *)
FittingStep ==
  \/ stack' = <<>>
  \/ /\ stack # <<>>
     /\ \E frame : FittingFrame(frame) /\ stack' = [stack EXCEPT ![Len(stack)] = frame]
  \/ \E frame : FittingFrame(frame) /\ stack' = Append(stack, frame)
  \/ /\ Len(stack) > 1
     /\ \E frame : /\ FittingFrame(frame)
                   /\ stack' = Append(SubSeq(stack, 1, Len(stack) - 2), frame)

LEMMA FittingStepFits ==
  ASSUME IsList(stack), StackFits, FittingStep
  PROVE  StackFits'
<1> DEFINE len == Len(stack)
<1>1. len \in Nat /\ (stack # <<>> => len \in Nat \ {0})
  BY ListLen
<1>2. CASE stack' = <<>>
  <2>1. Len(stack') = 0
    BY <1>2, EmptySeq
  <2> QED BY <2>1 DEF StackFits
<1>3. ASSUME stack # <<>>, NEW frame, FittingFrame(frame),
             stack' = [stack EXCEPT ![Len(stack)] = frame]
      PROVE  StackFits'
  <2>1. LET t == [stack EXCEPT ![Len(stack)] = frame]
        IN  /\ Len(t) = Len(stack)
            /\ \A k \in 1..(Len(stack) - 1) : t[k] = stack[k]
            /\ t[Len(stack)] = frame
    BY <1>1, <1>3, ListReplace
  <2>2. /\ Len(stack') = len /\ stack'[len] = frame
        /\ \A k \in 1..(len - 1) : stack'[k] = stack[k]
    BY <1>3, <2>1
  <2>3. \A k \in 1..len : FittingFrame(stack[k])
    BY DEF StackFits
  <2> HIDE DEF len
  <2>4. \A k \in 1..len : k = len \/ k \in 1..(len - 1)
    BY <1>1
  <2> QED BY <1>3, <2>2, <2>3, <2>4 DEF StackFits
<1>4. ASSUME NEW frame, FittingFrame(frame), stack' = Append(stack, frame)
      PROVE  StackFits'
  <2>1. LET t == Append(stack, frame)
        IN  /\ Len(t) = Len(stack) + 1
            /\ \A k \in 1..Len(stack) : t[k] = stack[k]
            /\ t[Len(stack) + 1] = frame
    BY ListAppend
  <2>2. /\ Len(stack') = len + 1 /\ stack'[len + 1] = frame
        /\ \A k \in 1..len : stack'[k] = stack[k]
    BY <1>4, <2>1
  <2>3. \A k \in 1..len : FittingFrame(stack[k])
    BY DEF StackFits
  <2> HIDE DEF len
  <2>4. \A k \in 1..(len + 1) : k = len + 1 \/ k \in 1..len
    BY <1>1
  <2> QED BY <1>4, <2>2, <2>3, <2>4 DEF StackFits
<1>5. ASSUME Len(stack) > 1, NEW frame, FittingFrame(frame),
             stack' = Append(SubSeq(stack, 1, Len(stack) - 2), frame)
      PROVE  StackFits'
  <2>1. LET t == Append(SubSeq(stack, 1, Len(stack) - 2), frame)
        IN  /\ Len(t) = Len(stack) - 1
            /\ \A k \in 1..(Len(stack) - 2) : t[k] = stack[k]
            /\ t[Len(stack) - 1] = frame
    BY ZenonT(60), <1>5, ListPop
  <2>2. /\ Len(stack') = len - 1 /\ stack'[len - 1] = frame
        /\ \A k \in 1..(len - 2) : stack'[k] = stack[k]
    BY <1>5, <2>1
  <2>3. \A k \in 1..len : FittingFrame(stack[k])
    BY DEF StackFits
  <2> HIDE DEF len
  <2>4. \A k \in 1..(len - 1) : k = len - 1 \/ (k \in 1..(len - 2) /\ k \in 1..len)
    BY <1>1
  <2> QED BY <1>5, <2>2, <2>3, <2>4 DEF StackFits
<1> QED BY <1>2, <1>3, <1>4, <1>5 DEF FittingStep

----------------------------------------------------------------------------
(* The operands of the running frame.                                      *)

(* A running executor has an admissible module, a typed frame and fitting  *)
(* values.                                                                 *)
Running == /\ VInv /\ phase = "running"
           /\ Sound(Top) /\ FittingFrame(Top)
           /\ WellShaped(image)

LEMMA RunningFits ==
  ASSUME VInv, phase = "running"
  PROVE  Running
<1>1. Len(stack) \in Nat \ {0} /\ IsList(stack)
  BY TopOK DEF VInv, TInv, IInv, Stacked, StackInv
<1>2. Sound(Top)
  BY RunningSound DEF VInv
<1>3. FittingFrame(Top)
  BY <1>1 DEF VInv, StackFits, Top
<1>4. WellShaped(image)
  BY <1>2, DocumentsAssumption DEF Sound, image
<1> QED BY <1>2, <1>3, <1>4 DEF Running

(* A defined operand is a bit pattern of the type it was validated with.   *)
LEMMA OperandFits ==
  ASSUME Running, NEW a \in DOMAIN Code.args, Known(Code.args[a])
  PROVE  /\ TypeOf(Code.args[a]) \in IntTypes
         /\ Fits(Arg(a), TypeOf(Code.args[a])) /\ Arg(a) \in Nat
         /\ \A t : HasType(Scope(Top), Code.args[a], t) => TypeOf(Code.args[a]) = t
<1> DEFINE o == Code.args[a]
<1>1. PICK t : HasType(Scope(Top), o, t)
  BY ArgsTyped DEF Running, Sound, Code
<1>2. \A u : HasType(Scope(Top), o, u) => TypeOf(o) = u
  BY OperandType DEF Running
<1>3. Arg(a) = Value(o)
  BY DEF Arg
<1>4. o.ref = NoName => o.type \in IntTypes
  BY CodeTyped DEF Running, Sound, Code, InsnShaped, TermShaped, ArgsShaped, Elements
<1> HIDE DEF o
<1>5. CASE o.ref = NoName
  <2>1. o.const \in Int /\ TypeOf(o) = o.type /\ Value(o) = Mask(o.const, TypeBits[o.type])
    BY <1>1, <1>5 DEF HasType, Fits, TypeOf, Value
  <2>2. Fits(Value(o), TypeOf(o))
    BY <1>4, <1>5, <2>1, MaskedFits
  <2> QED BY <1>2, <1>3, <1>4, <1>5, <2>1, <2>2 DEF Fits, o
<1>6. CASE o.ref # NoName
  <2>1. o.ref \in DOMAIN Top.vals /\ TypeOf(o) = Top.vals[o.ref].type
        /\ Value(o) = Top.vals[o.ref].value
    BY <1>6 DEF Known, TypeOf, Value, o
  <2>2. TypeOf(o) \in IntTypes /\ Fits(Value(o), TypeOf(o))
    BY <2>1 DEF Running, FittingFrame
  <2> QED BY <1>2, <1>3, <2>2 DEF Fits, o
<1> QED BY <1>5, <1>6

(* An executed instruction but a select has all its operands defined.      *)
LEMMA OperandsKnown ==
  ASSUME NEW op, op # "select", At(op)
  PROVE  \A a \in DOMAIN Code.args : Known(Code.args[a])
BY DEF At, Evaluated

(* An instruction that defines an integer leaves a fitting frame, *)
LEMMA DefineFits ==
  ASSUME Running, Code.op \in InsnOps, NEW v \in Int, Define(v)
  PROVE  FittingStep
<1>1. Code.type \in IntTypes
  BY CodeTyped DEF Running, Sound, Code, InsnShaped
<1>2. FittingFrame(Assigned(Top, Code, v))
  BY <1>1, AssignedFits DEF Running
<1>3. stack # <<>>
  BY DEF Running, VInv, TInv, IInv, Stacked, StackInv
<1> QED BY <1>2, <1>3 DEF Define, Replace, FittingStep

(* as does one that defines nothing, *)
LEMMA AdvanceFits ==
  ASSUME Running, Replace(Advanced(Top))
  PROVE  FittingStep
<1>1. FittingFrame(Advanced(Top))
  BY DEF Running, FittingFrame, Advanced, Frame
<1>2. stack # <<>>
  BY DEF Running, VInv, TInv, IInv, Stacked, StackInv
<1> QED BY <1>1, <1>2 DEF Replace, FittingStep

(* and a jump.                                                             *)
LEMMA GoToFits ==
  ASSUME Running, NEW id, GoTo(id)
  PROVE  FittingStep
<1>1. \A b : FittingFrame(BlockFrame(Top, b))
  BY DEF FittingFrame, BlockFrame, Frame, NoValues
<1>2. stack # <<>>
  BY DEF Running, VInv, TInv, IInv, Stacked, StackInv
<1> QED BY <1>1, <1>2 DEF GoTo, Replace, Raise, FittingStep

----------------------------------------------------------------------------
(* The instructions, one by one.                                           *)

(* Those that only compute. *)
LEMMA ComputeFits ==
  ASSUME VInv, ConstInsn \/ BinopInsn \/ CompareInsn \/ CastInsn \/ SelectInsn
  PROVE  FittingStep
<1>1. /\ phase = "running"
      /\ Code.op \in {"const", "binop", "compare", "cast", "select"}
  BY DEF ConstInsn, BinopInsn, CompareInsn, CastInsn, SelectInsn, At
<1>2. Running /\ Code.op \in InsnOps /\ Code.op \notin CallOps
  BY <1>1, RunningFits DEF InsnOps, Arity, CallOps
<1>3. InsnShaped(Code) /\ InsnOK(image, Scope(Top), Code) /\ Code.type \in IntTypes
  BY <1>2, CodeTyped DEF Running, Sound, Code, InsnShaped
<1>4. \A a \in 1..Arity[Code.op] : a \in DOMAIN Code.args
  BY <1>2, <1>3, ListLen DEF InsnShaped, ArgsShaped
<1>5. \A t \in IntTypes : TypeBits[t] \in 1..HostBits
  BY TypeWidths DEF Positive
<1>6. CASE ConstInsn
  <2>1. Code.imm \in Int /\ Define(Code.imm)
    BY <1>3, <1>6 DEF ConstInsn, At, InsnOK, ConstOK, Fits
  <2> QED BY <1>2, <2>1, DefineFits
<1>7. CASE BinopInsn
  <2>1. /\ Code.op = "binop" /\ Code.kind \in BinopKinds \cup DivremKinds
        /\ 1 \in DOMAIN Code.args /\ 2 \in DOMAIN Code.args
    BY <1>3, <1>4, <1>7 DEF BinopInsn, At, InsnShaped, Arity
  <2>2. Known(Code.args[1]) /\ Known(Code.args[2])
    BY <1>7, <2>1, OperandsKnown DEF BinopInsn
  <2>3. \A a \in {1, 2} : HasType(Scope(Top), Code.args[a], Code.type)
    BY <1>3, <2>1 DEF InsnOK, BinopOK
  <2>4. Fits(Arg(1), Code.type) /\ Fits(Arg(2), Code.type)
    BY <1>2, <2>1, <2>2, <2>3, OperandFits
  <2>5. BinopV11(Code.kind, Arg(1), Arg(2), TypeBits[Code.type]) \in Int
    BY <1>3, <1>5, <2>1, <2>4, BinopIsInteger DEF Fits, Pattern
  <2>6. Raise("shift-count", NoName)
          \/ Define(BinopV11(Code.kind, Arg(1), Arg(2), TypeBits[Code.type]))
    BY <1>7 DEF BinopInsn
  <2> QED BY <1>2, <2>5, <2>6, DefineFits DEF Raise, FittingStep
<1>8. CASE CompareInsn
  <2>1. PICK v \in {0, 1} : Define(v)
    BY <1>8 DEF CompareInsn, Compare
  <2> QED BY <1>2, <2>1, DefineFits
<1>9. CASE CastInsn
  <2>1. 1 \in DOMAIN Code.args
    BY <1>4, <1>9 DEF CastInsn, At, Arity
  <2>2. Known(Code.args[1])
    BY <1>9, <2>1, OperandsKnown DEF CastInsn
  <2> DEFINE from == TypeBits[TypeOf(Code.args[1])]
             to   == TypeBits[Code.type]
             x    == IF Code.kind = "sext" THEN SignedValue(Arg(1), from) ELSE Arg(1)
  <2>3. Arg(1) \in Int /\ from \in Positive /\ to \in Nat
    BY <1>2, <1>3, <2>1, <2>2, OperandFits, TypeWidths DEF Positive
  <2>4. Define(Mask(x, to))
    BY <1>9 DEF CastInsn, Cast
  <2> HIDE DEF from, to
  <2>5. x \in Int
    BY <2>3, SignedRange
  <2> HIDE DEF x
  <2>6. Mask(x, to) \in Int
    BY <2>3, <2>5, MaskFits
  <2> QED BY <1>2, <2>4, <2>6, DefineFits
<1>10. CASE SelectInsn
  <2>1. Code.op = "select" /\ \A a \in {1, 2, 3} : a \in DOMAIN Code.args
    BY <1>4, <1>10 DEF SelectInsn, At, Arity
  <2>2. \A k \in DOMAIN Evaluated(Code) : Known(Evaluated(Code)[k])
    BY <1>10 DEF SelectInsn, At
  <2>3. Known(Code.args[1])
    <3>1. CASE ~Known(Code.args[1])
      <4>1. Evaluated(Code) = Code.args
        BY <3>1 DEF Evaluated
      <4> QED BY <2>1, <2>2, <4>1
    <3> QED BY <3>1
  <2>4. Evaluated(Code) =
          <<Code.args[1], IF Value(Code.args[1]) # 0 THEN Code.args[2] ELSE Code.args[3]>>
    BY <2>1, <2>3 DEF Evaluated
  <2>5. Known(IF Arg(1) # 0 THEN Code.args[2] ELSE Code.args[3])
    BY <2>2, <2>4 DEF Arg
  <2>6. (IF Arg(1) # 0 THEN Arg(2) ELSE Arg(3)) \in Int
    BY <1>2, <2>1, <2>5, OperandFits
  <2> QED BY <1>2, <1>10, <2>6, DefineFits DEF SelectInsn
<1> QED BY <1>6, <1>7, <1>8, <1>9, <1>10

(* What a run reads and writes in a slot fits the slot. *)
LEMMA SlotFits ==
  ASSUME VInv, ReadState \/ WriteState
  PROVE  FittingStep /\ \A slot \in DOMAIN state' : Fits(state'[slot], SlotType(image, slot))
<1>1. phase = "running" /\ Code.op \in {"read_state", "write_state"}
  BY DEF ReadState, WriteState, At
<1>2. Running /\ Code.op \in InsnOps
  BY <1>1, RunningFits DEF InsnOps, Arity
<1>3. InsnShaped(Code) /\ InsnOK(image, Scope(Top), Code)
  BY <1>2, CodeTyped DEF Running, Sound, Code
<1>4. CASE ReadState
  <2>1. \/ Code.name \in DOMAIN state /\ Define(state[Code.name])
        \/ Raise("undeclared-slot", Code.name)
    BY <1>4 DEF ReadState
  <2>2. Code.name \in DOMAIN state => state[Code.name] \in Int
    BY DEF VInv, StateFits, Fits
  <2>3. state' = state
    BY <1>4 DEF ReadState, dataVars
  <2> QED BY <1>2, <2>1, <2>2, <2>3, DefineFits DEF Raise, FittingStep, VInv, StateFits
<1>5. CASE WriteState
  <2> DEFINE t == SlotType(image, Code.name)
  <2>1. /\ Code.name \in Ids(image.slots) /\ HasType(Scope(Top), Code.args[1], t)
        /\ 1 \in DOMAIN Code.args
    BY <1>3, <1>5, ListLen
       DEF WriteState, At, InsnOK, WriteStateOK, InsnShaped, ArgsShaped, Arity, CallOps
  <2>2. Known(Code.args[1])
    BY <1>5, <2>1, OperandsKnown DEF WriteState
  <2>3. t \in IntTypes /\ Arg(1) \in Int
    <3>1. HasType(Scope(Top), Code.args[1], t)
      BY <2>1
    <3> HIDE DEF t
    <3> QED BY <1>2, <2>1, <2>2, <3>1, OperandFits
  <2>4. Fits(Mask(Arg(1), TypeBits[t]), t)
    BY <2>3, MaskedFits
  <2>5. \/ state' = [state EXCEPT ![Code.name] = Mask(Arg(1), TypeBits[t])] /\ Replace(Advanced(Top))
        \/ state' = state /\ Raise("undeclared-slot", Code.name)
    BY <1>5 DEF WriteState
  <2> DEFINE w == Mask(Arg(1), TypeBits[t])
  <2>6. FittingStep
    BY <1>2, <2>5, AdvanceFits DEF Raise, FittingStep
  <2>7. Fits(w, SlotType(image, Code.name))
    BY <2>4
  <2>8. state' = state \/ state' = [state EXCEPT ![Code.name] = w]
    BY <2>5
  <2> HIDE DEF w, t
  <2> QED BY <2>6, <2>7, <2>8 DEF VInv, StateFits
<1> QED BY <1>4, <1>5

(* What it loads is a pattern of the loaded type; what it stores is bytes. *)
LEMMA AccessFits ==
  ASSUME VInv, LoadInsn \/ StoreInsn
  PROVE  /\ FittingStep
         /\ DOMAIN memory' = DOMAIN memory
         /\ \A a \in DOMAIN memory' : memory'[a] \in Byte
<1>1. phase = "running" /\ Code.op \in {"load", "store"}
  BY DEF LoadInsn, StoreInsn, At
<1>2. Running /\ Code.op \in InsnOps
  BY <1>1, RunningFits DEF InsnOps, Arity
<1>3. InsnShaped(Code) /\ Code.type \in IntTypes /\ Code.width \in AccessWidths
  BY <1>1, <1>2, CodeTyped DEF Running, Sound, Code, InsnShaped, AccessWidths
<1>4. /\ image.bigEndian \in BOOLEAN /\ image.memorySize \in Nat
  BY <1>2 DEF Running, WellShaped
<1>5. /\ DOMAIN memory = Addresses(image) /\ DOMAIN memory \subseteq Int
      /\ \A a \in DOMAIN memory : memory[a] \in Byte
  BY <1>1, <1>4 DEF VInv, MemoryFits, Addresses
<1>6. \A a \in DOMAIN memory : memory[a] \in Int
  BY <1>5 DEF Byte
<1>7. \A a \in 1..Arity[Code.op] : a \in DOMAIN Code.args
  BY <1>1, <1>3, ListLen DEF InsnShaped, ArgsShaped, CallOps
<1>8. CASE LoadInsn
  <2>1. 1 \in DOMAIN Code.args
    BY <1>7, <1>8 DEF LoadInsn, At, Arity
  <2>2. Known(Code.args[1])
    BY <1>8, <2>1, OperandsKnown DEF LoadInsn
  <2>3. Arg(1) \in Nat
    BY <1>2, <2>1, <2>2, OperandFits
  <2>4. \/ \E f : Raise(f, NoName)
        \/ /\ AccessFault(image, Code, Arg(1)) = NoName
           /\ Define(LoadValue(image, memory, Code, Arg(1)))
    BY <1>8 DEF LoadInsn
  <2>5. AccessFault(image, Code, Arg(1)) = NoName =>
          LoadValue(image, memory, Code, Arg(1)) \in Int
    BY <1>3, <1>4, <1>5, <1>6, <2>3, SameLoad
  <2>6. memory' = memory
    BY <1>8 DEF LoadInsn, dataVars
  <2> QED BY <1>2, <1>5, <2>4, <2>5, <2>6, DefineFits DEF Raise, FittingStep
<1>9. CASE StoreInsn
  <2>1. 1 \in DOMAIN Code.args /\ 2 \in DOMAIN Code.args
    BY <1>7, <1>9 DEF StoreInsn, At, Arity
  <2>2. Known(Code.args[1]) /\ Known(Code.args[2])
    BY <1>9, <2>1, OperandsKnown DEF StoreInsn
  <2>3. Arg(1) \in Int /\ Arg(2) \in Nat
    BY <1>2, <2>1, <2>2, OperandFits
  <2> DEFINE x     == Arg(1)
             width == Code.width
  <2>4. Mask(x, width) \in Int
    <3>1. width \in Nat
      BY <1>3, AccessSize
    <3>2. x \in Int
      BY <2>3
    <3> HIDE DEF x, width
    <3> QED BY <3>1, <3>2, MaskFits
  <2> DEFINE v == Mask(Arg(1), Code.width)
  <2>5. \/ memory' = memory /\ \E f : Raise(f, NoName)
        \/ memory' = Stored(image, memory, Code, Arg(2), v) /\ Replace(Advanced(Top))
    BY <1>9 DEF StoreInsn
  <2>6. v \in Int
    BY <2>4
  <2> HIDE DEF v
  <2>7. LET new == Stored(image, memory, Code, Arg(2), v)
        IN  DOMAIN new = DOMAIN memory /\ \A a \in DOMAIN memory : new[a] \in Byte
    BY <1>3, <1>4, <1>5, <2>3, <2>6, StoredBytes
  <2>8. FittingStep
    BY <1>2, <2>5, AdvanceFits DEF Raise, FittingStep
  <2>9. DOMAIN memory' = DOMAIN memory /\ \A a \in DOMAIN memory' : memory'[a] \in Byte
    BY <1>5, <2>5, <2>7
  <2> QED BY <2>8, <2>9
<1> QED BY <1>8, <1>9

(* The arguments of a call are integers, which the callee's frame masks. *)
LEMMA CallFits ==
  ASSUME VInv, CallInsn
  PROVE  FittingStep
<1>1. phase = "running" /\ Code.op = "call"
  BY DEF CallInsn, At
<1>2. Running /\ Code.op \in InsnOps
  BY <1>1, RunningFits DEF InsnOps, CallOps
<1>3. InsnShaped(Code)
  BY <1>2, CodeTyped DEF Running, Sound, Code
<1>4. \A a \in DOMAIN Code.args : ArgValues[a] \in Int
  BY <1>1, <1>2, OperandsKnown, OperandFits DEF CallInsn, ArgValues
<1>5. Len(ArgValues) = Len(Code.args) /\ DOMAIN Code.args = 1..Len(Code.args)
  BY <1>3, ListImage, ListLen DEF InsnShaped, ArgsShaped, ArgValues
<1> DEFINE n == IndexOf(image.functions, Code.name)
<1>6. \/ stack' = <<>>
      \/ /\ Code.name \in Ids(image.functions)
         /\ Len(ArgValues) = Len(Callee(image, Code.name).params)
         /\ stack' = Append(stack, EntryFrame(n, ArgValues))
  BY DEF CallInsn, Enter, Raise
<1>7. ASSUME Code.name \in Ids(image.functions),
             Len(ArgValues) = Len(Callee(image, Code.name).params)
      PROVE  FittingFrame(EntryFrame(n, ArgValues))
  <2>1. n \in DOMAIN image.functions
    BY <1>7, IndexOfId
  <2>2. IsList(image.functions[n].params)
    BY <1>2, <2>1, ImageBlock DEF Running, Sound, FunctionShaped, Named
  <2>3. DOMAIN image.functions[n].params = 1..Len(ArgValues)
    BY <1>7, <2>2, ListLen DEF Callee
  <2>4. \A k \in DOMAIN image.functions[n].params : ArgValues[k] \in Int
    BY <1>4, <1>5, <2>3
  <2> HIDE DEF n
  <2> QED BY <1>2, <2>1, <2>4, EntryFrameFits DEF Running, Sound
<1> QED BY <1>6, <1>7 DEF FittingStep

(* A host's reply is masked like any result. *)
LEMMA HostCallFits ==
  ASSUME VInv, HostCall
  PROVE  FittingStep
<1>1. phase = "running" /\ Code.op = "host_call"
  BY DEF HostCall, At
<1>2. Running /\ Code.op \in InsnOps
  BY <1>1, RunningFits DEF InsnOps, CallOps
<1>3. \/ \E f : Raise(f, Code.name)
      \/ Replace(Advanced(Top))
      \/ \E reply \in HostReplies : reply # <<>> /\ Define(reply[1])
  BY DEF HostCall
<1> QED BY <1>2, <1>3, DefineFits, AdvanceFits, IntegersAssumption DEF Raise, FittingStep

(* What a callee returns is masked for its caller. *)
LEMMA ReturnFits ==
  ASSUME VInv, Return
  PROVE  FittingStep
<1> DEFINE caller == stack[Len(stack) - 1]
           call   == CodeOf(caller)
<1>1. phase = "running" /\ Code.op = "return"
  BY DEF Return, At
<1>2. Running /\ Len(stack) \in Nat \ {0} /\ Code.op \in TermOps
  BY <1>1, RunningFits, TopOK DEF VInv, TInv, IInv, Stacked, TermOps
<1>3. \/ stack' = <<>>
      \/ /\ Len(stack) # 1
         /\ \/ stack' = Append(SubSeq(stack, 1, Len(stack) - 2), Advanced(caller))
            \/ /\ Code.args # <<>>
               /\ stack' = Append(SubSeq(stack, 1, Len(stack) - 2), Assigned(caller, call, Arg(1)))
  BY DEF Return, Raise
<1>4. ASSUME Len(stack) # 1
      PROVE  /\ Len(stack) > 1 /\ FittingFrame(caller)
             /\ call.type \in IntTypes
  <2> DEFINE n == Len(stack) - 1
  <2>1. n \in 1..Len(stack) /\ n \in 1..(Len(stack) - 1) /\ Len(stack) > 1
    <3> DEFINE len == Len(stack)
    <3>1. len \in Nat \ {0} /\ len # 1
      BY <1>2, <1>4
    <3> HIDE DEF len
    <3>2. len - 1 \in 1..len /\ len - 1 \in 1..(len - 1) /\ len > 1
      BY <3>1
    <3> QED BY <3>2 DEF len
  <2>2. Sound(caller) /\ call.op = "call"
    BY <1>1, <2>1, RunningSound DEF VInv, TInv, IInv, Stacked, CallStack
  <2>3. FittingFrame(caller)
    BY <2>1 DEF VInv, StackFits
  <2> HIDE DEF n
  <2>4. InsnShaped(call)
    BY <2>2, CodeTyped DEF Sound, InsnOps, CallOps
  <2> QED BY <2>1, <2>3, <2>4 DEF InsnShaped
<1>5. ASSUME Code.args # <<>> PROVE Arg(1) \in Int
  <2>1. IsList(Code.args)
    BY <1>2, CodeTyped DEF Running, Sound, Code, TermShaped, ArgsShaped
  <2>2. 1 \in DOMAIN Code.args
    BY <1>5, <2>1, ListLen
  <2> QED BY <1>1, <1>2, <2>2, OperandsKnown, OperandFits DEF Return
<1>6. ASSUME Len(stack) # 1
      PROVE  /\ FittingFrame(Advanced(caller))
             /\ Code.args # <<>> => FittingFrame(Assigned(caller, call, Arg(1)))
  <2>1. FittingFrame(Advanced(caller))
    BY <1>4, <1>6 DEF FittingFrame, Advanced, Frame
  <2> QED BY <1>4, <1>5, <1>6, <2>1, AssignedFits
<1> QED BY <1>3, <1>4, <1>6 DEF FittingStep

(* Every step of a run keeps every value a pattern of its type. *)
LEMMA StepFits ==
  ASSUME VInv, Execute
  PROVE  /\ FittingStep
         /\ \A slot \in DOMAIN state' : Fits(state'[slot], SlotType(image, slot))
         /\ DOMAIN memory' = DOMAIN memory
         /\ \A a \in DOMAIN memory' : memory'[a] \in Byte
<1>1. Running
  BY ExecuteBudget, RunningFits
<1>2. OperationLimit \/ UndefinedValue \/ Trap => FittingStep
  BY DEF OperationLimit, UndefinedValue, Trap, Raise, FittingStep
<1>3. Jump \/ Branch \/ IndirectJump => FittingStep
  BY <1>1, GoToFits DEF Jump, Branch, IndirectJump, Raise, FittingStep
<1>4. FittingStep
  BY <1>2, <1>3, ComputeFits, SlotFits, AccessFits, CallFits, HostCallFits, ReturnFits
     DEF Execute, Instruction, Terminator
<1>5. /\ ReadState \/ WriteState \/ state' = state
      /\ LoadInsn \/ StoreInsn \/ memory' = memory
  BY DEF Execute, Instruction, Terminator, OperationLimit, UndefinedValue, ConstInsn, ReadState,
         WriteState, BinopInsn, CompareInsn, CastInsn, SelectInsn, LoadInsn, StoreInsn, CallInsn,
         HostCall, Jump, Branch, IndirectJump, Trap, Return, dataVars
<1>6. \A slot \in DOMAIN state' : Fits(state'[slot], SlotType(image, slot))
  BY <1>5, SlotFits DEF VInv, StateFits
<1>7. /\ DOMAIN memory' = DOMAIN memory
      /\ \A a \in DOMAIN memory' : memory'[a] \in Byte
  BY <1>5, AccessFits DEF VInv, MemoryFits
<1> QED BY <1>4, <1>6, <1>7

----------------------------------------------------------------------------
(* What an executor starts from.                                           *)

(* A slot starts with its initial value or with zero. *)
LEMMA InitialStateFits ==
  ASSUME document \in Documents, Admissible(image)
  PROVE  \A slot \in DOMAIN InitialState : Fits(InitialState[slot], SlotType(image, slot))
<1> SUFFICES ASSUME NEW slot \in Ids(image.slots)
             PROVE  Fits(InitialState[slot], SlotType(image, slot))
  BY DEF InitialState
<1> DEFINE t == SlotType(image, slot)
           given == {v \in Elements(image.initialState) : v.slot = slot}
           chosen == CHOOSE v \in given : TRUE
<1>1. t \in IntTypes
  <2>1. IndexOf(image.slots, slot) \in DOMAIN image.slots
    BY IndexOfId
  <2> QED BY <2>1, DocumentsAssumption DEF SlotType, image, WellShaped, Named, Elements
<1>2. InitialState[slot] = IF given = {} THEN 0 ELSE Mask(chosen.value, TypeBits[t])
  BY DEF InitialState
<1>3. given # {} => chosen \in given
  OBVIOUS
<1>4. chosen \in given => chosen.value \in Int
  BY DEF Admissible, InitialStateOK, Fits
<1>5. Fits(0, t)
  <2>1. TypeBits[t] \in Nat
    BY <1>1, TypeWidths DEF Positive
  <2>2. Pow2[TypeBits[t]] \in Positive
    BY <2>1, Power
  <2> QED BY <2>2 DEF Fits, Positive
<1> DEFINE x == chosen.value
<1>6. x \in Int => Fits(Mask(x, TypeBits[t]), t)
  <2> HIDE DEF x, t
  <2> QED BY <1>1, MaskedFits
<1>7. InitialState[slot] = IF given = {} THEN 0 ELSE Mask(x, TypeBits[t])
  BY <1>2
<1>8. given # {} => x \in Int
  BY <1>3, <1>4
<1> HIDE DEF x, t, given
<1>9. Fits(InitialState[slot], t)
  BY <1>5, <1>6, <1>7, <1>8
<1> QED BY <1>9 DEF t

----------------------------------------------------------------------------
(* The invariant is kept by every step. *)

LEMMA ExecuteVInv ==
  VInv /\ Execute => VInv'
<1> SUFFICES ASSUME VInv, Execute PROVE VInv'
  OBVIOUS
<1>1. phase = "running" /\ document' = document
  BY ExecuteBudget, StepShape DEF VInv, TInv, IInv, Stacked, Counted, loaderVars
<1>2. TInv'
  BY ExecuteTInv DEF VInv
<1>3. image' = image
  BY <1>1, SameImage
<1>4. StackFits'
  BY StepFits, FittingStepFits DEF VInv, TInv, IInv, Stacked, StackInv
<1>5. StateFits'
  BY <1>3, StepFits DEF StateFits
<1>6. MemoryFits'
  BY <1>1, <1>3, StepFits DEF VInv, MemoryFits
<1> QED BY <1>2, <1>4, <1>5, <1>6 DEF VInv

LEMMA LoadVInv ==
  VInv /\ Load => VInv'
<1> SUFFICES ASSUME VInv, Load PROVE VInv'
  OBVIOUS
<1>1. /\ UNCHANGED <<document, state, memory, stack>>
      /\ phase' \in {"image", "rejected"}
  BY DEF Load, loaderVars, dataVars
<1>2. TInv' /\ image' = image
  BY <1>1, LoadTInv, SameImage DEF VInv
<1> QED BY <1>1, <1>2 DEF VInv, StateFits, MemoryFits, StackFits

LEMMA ConstructVInv ==
  VInv /\ Construct => VInv'
<1> SUFFICES ASSUME VInv, Construct PROVE VInv'
  OBVIOUS
<1>1. /\ UNCHANGED <<document, stack>> /\ phase \in {"image", "ready"}
      /\ \/ state' = InitialState /\ memory' = InitialMemory(image)
         \/ UNCHANGED <<state, memory, phase>>
  BY DEF Construct, dataVars
<1>2. TInv' /\ image' = image
  BY <1>1, ConstructTInv, SameImage DEF VInv
<1>3. document \in Documents /\ Admissible(image)
  BY <1>1 DEF VInv, TInv, IInv, Stacked, StackInv, Admitted
<1>4. StateFits'
  BY <1>1, <1>2, <1>3, InitialStateFits DEF VInv, StateFits
<1>5. MemoryFits'
  BY <1>1, <1>2, <1>3, InitialMemoryFits, DocumentsAssumption DEF image, VInv, MemoryFits
<1>6. StackFits'
  BY <1>1 DEF VInv, StackFits
<1> QED BY <1>2, <1>4, <1>5, <1>6 DEF VInv

LEMMA RunVInv ==
  VInv /\ Run => VInv'
<1> SUFFICES ASSUME VInv, Run PROVE VInv'
  OBVIOUS
<1>1. UNCHANGED <<document, state, memory>> /\ phase = "ready"
  BY DEF Run, dataVars
<1>2. TInv' /\ image' = image
  BY <1>1, RunTInv, SameImage DEF VInv
<1>3. document \in Documents /\ IsList(stack)
  BY DEF VInv, TInv, IInv, Stacked, StackInv
<1>4. PICK args \in RunArgs : Enter(image.entry, args, 0)
  BY DEF Run
<1> DEFINE n == IndexOf(image.functions, image.entry)
<1>5. \/ stack' = <<>>
      \/ /\ image.entry \in Ids(image.functions)
         /\ Len(args) = Len(Callee(image, image.entry).params)
         /\ stack' = Append(stack, EntryFrame(n, args))
  BY <1>4 DEF Enter, Raise
<1>6. ASSUME image.entry \in Ids(image.functions),
             Len(args) = Len(Callee(image, image.entry).params)
      PROVE  FittingFrame(EntryFrame(n, args))
  <2>1. n \in DOMAIN image.functions
    BY <1>6, IndexOfId
  <2>2. IsList(image.functions[n].params)
    BY <1>3, <2>1, ImageBlock DEF FunctionShaped, Named
  <2>3. DOMAIN image.functions[n].params = 1..Len(args)
    BY <1>6, <2>2, ListLen DEF Callee
  <2>4. DOMAIN args = 1..Len(args) /\ \A k \in DOMAIN args : args[k] \in Int
    <3>1. args \in Seq(Int)
      BY IntegersAssumption
    <3>2. IsList(args)
      BY <3>1, SeqIsList
    <3> QED BY <3>1, <3>2, ListLen
  <2>5. \A k \in DOMAIN image.functions[n].params : args[k] \in Int
    BY <2>3, <2>4
  <2> HIDE DEF n
  <2> QED BY <1>3, <2>1, <2>5, EntryFrameFits
<1>7. FittingStep
  BY <1>5, <1>6 DEF FittingStep
<1>8. StackFits'
  BY <1>3, <1>7, FittingStepFits DEF VInv
<1> QED BY <1>1, <1>2, <1>8 DEF VInv, StateFits, MemoryFits

(* Every value is a pattern of its type, inductively. *)
THEOREM ValuesInductive == Spec => []VInv
<1>1. Init => VInv
  <2>1. SUFFICES ASSUME Init PROVE VInv
    OBVIOUS
  <2>2. TInv
    BY <2>1, InitTInv
  <2>3. Len(stack) = 0
    BY <2>1, EmptySeq DEF Init
  <2> QED BY <2>1, <2>2, <2>3 DEF Init, VInv, StateFits, MemoryFits, StackFits, NoValues
<1>2. VInv /\ UNCHANGED vars => VInv'
  <2>1. SUFFICES ASSUME VInv, UNCHANGED vars PROVE VInv'
    OBVIOUS
  <2>2. /\ document' = document /\ stack' = stack /\ state' = state
        /\ memory' = memory /\ phase' = phase
    BY <2>1 DEF vars
  <2>3. TInv'
    BY <2>1, StutterTInv DEF VInv
  <2> QED BY <2>1, <2>2, <2>3, SameImage DEF VInv, StateFits, MemoryFits, StackFits
<1>3. VInv /\ [Next]_vars => VInv'
  BY <1>2, LoadVInv, ConstructVInv, RunVInv, ExecuteVInv DEF Next
<1> QED BY <1>1, <1>3, PTL DEF Spec

(* State slots, memory bytes and temporaries hold bit patterns of their    *)
(* declared types, whatever the program computes and the host replies.     *)
THEOREM ValuesAreNormalized == Spec => []ValuesFit
<1>1. VInv => ValuesFit
  BY ListLen DEF VInv, TInv, IInv, Stacked, StackInv, StateFits, MemoryFits, StackFits,
                 FittingFrame, ValuesFit
<1> QED BY <1>1, ValuesInductive, PTL

----------------------------------------------------------------------------
(* The Core API and the oracle of the RV32I bridge, on the modules that    *)
(* the bridge writes.                                                      *)

(* Two lists with the same elements are the same. *)
LEMMA SameList ==
  ASSUME NEW s, NEW t, IsList(s), IsList(t), Len(s) = Len(t),
         \A k \in 1..Len(s) : s[k] = t[k]
  PROVE  s = t
<1>1. Len(s) \in Nat /\ s \in [1..Len(s) -> Elements(s)] /\ t \in [1..Len(s) -> Elements(t)]
  BY LenProperties DEF IsList
<1> QED BY <1>1

(* The machine of the oracle that has executed what the executor has.      *)
OracleFault == IF outcome.kind = "fault" THEN outcome.fault ELSE NoName

Machine(o, s, m, f, v, x) ==
  [operations |-> o, state |-> s, memory |-> m, frames |-> f, services |-> v, fault |-> x]

Mirrored == Machine(operations, state, memory, stack, services, OracleFault)

\* What the oracle's machine is once it has counted a step, and once the
\* step has also changed the data and the services.
Ticked  == Machine(operations + 1, state, memory, stack, services, NoName)
Pending == Machine(operations', state', memory', stack, services', NoName)

\* A frame and nothing else.
IsFrame(f) == f = Frame(f.fn, f.blk, f.pc, f.vals)

(* Before the run: the two sides accept and prepare the same package.      *)
Prepared ==
  /\ runs \in {0, 1}
  /\ phase \in {"loading", "rejected", "image"} => runs = 0
  /\ phase = "loading" => oracle = NoOracle
  /\ phase = "rejected" => ~Admissible(image)
  /\ phase \in {"image", "ready"} /\ runs = 0 => oracle = NewOracle
  /\ phase = "ready" /\ runs = 0 =>
       /\ state = InitialState /\ memory = InitialMemory(image)
       /\ operations = 0 /\ outcome = NoOutcome

(* From then on the oracle is the executor's mirror image: a run that goes *)
(* on has not failed, and the services are new until it starts.            *)
InStep ==
  /\ phase = "running" => runs = 1 /\ outcome = NoOutcome
  /\ runs = 0 => services = Services(Contract)
  /\ runs = 1 => oracle = Mirrored
  /\ \A k \in 1..Len(stack) : IsFrame(stack[k])

(* The inductive invariant.  That of the validator's soundness is part of  *)
(* it, for the oracle does not test for what the validator excludes.       *)
OInv ==
  /\ TInv /\ package = image /\ ModuleBridged(image)
  /\ Prepared /\ InStep

(* A frame whose position and values have changed. *)
LEMMA PassedFrame ==
  ASSUME NEW f, IsFrame(f), NEW p, NEW v
  PROVE  [f EXCEPT !.pc = p, !.vals = v] = Frame(f.fn, f.blk, p, v)
<1> DEFINE g == [f EXCEPT !.pc = p]
<1>1. [f EXCEPT !.pc = p, !.vals = v] = [g EXCEPT !.vals = v]
  OBVIOUS
<1>2. g = Frame(f.fn, f.blk, p, f.vals)
  BY DEF IsFrame, Frame
<1> HIDE DEF g
<1> QED BY <1>1, <1>2 DEF Frame

(* A machine that has faulted. *)
LEMMA FaultedMachine ==
  ASSUME NEW o, NEW s, NEW m, NEW f, NEW v, NEW x, NEW y
  PROVE  Faulted(Machine(o, s, m, f, v, x), y) = Machine(o, s, m, <<>>, v, y)
<1> DEFINE a == Machine(o, s, m, f, v, x)
           b == [a EXCEPT !.fault = y]
<1>1. Faulted(a, y) = [b EXCEPT !.frames = <<>>]
  BY DEF Faulted
<1>2. b = Machine(o, s, m, f, v, y)
  BY DEF Machine
<1> HIDE DEF b
<1> QED BY <1>1, <1>2 DEF Machine

(* What the helpers of the executor do is what those of the oracle do: an  *)
(* error,                                                                  *)
LEMMA RaiseMirrored ==
  ASSUME NEW f, NEW name, Raise(f, name)
  PROVE  Mirrored' = Faulted(Pending, f) /\ Len(stack') = 0
<1>1. stack' = <<>> /\ OracleFault' = f
  BY DEF Raise, Fault, OracleFault
<1>2. Mirrored' = Machine(operations', state', memory', stack', services', f)
  BY <1>1 DEF Mirrored, Machine
<1> QED BY <1>1, <1>2, EmptySeq, FaultedMachine DEF Pending

(* the running frame replaced,                                             *)
LEMMA ReplaceMirrored ==
  ASSUME NEW frame, Replace(frame), OInv, phase = "running", IsFrame(frame)
  PROVE  /\ Mirrored' = OnTop(Pending, frame)
         /\ \A k \in 1..Len(stack') : IsFrame(stack'[k])
<1>1. OracleFault' = NoName
  BY DEF Replace, OracleFault, OInv, InStep, NoOutcome
<1>2. stack' = [stack EXCEPT ![Len(stack)] = frame]
  BY DEF Replace
<1>3. Mirrored' = OnTop(Pending, frame)
  BY <1>1, <1>2 DEF Mirrored, Machine, Pending, OnTop
<1>4. IsList(stack) /\ stack # <<>>
  BY DEF OInv, TInv, IInv, Stacked, StackInv
<1>5. /\ Len(stack') = Len(stack) /\ Len(stack) \in Nat \ {0}
      /\ \A k \in 1..(Len(stack) - 1) : stack'[k] = stack[k]
      /\ stack'[Len(stack)] = frame
  BY <1>2, <1>4, ListReplace
<1>6. \A k \in 1..Len(stack) : IsFrame(stack[k])
  BY DEF OInv, InStep
<1> QED BY <1>3, <1>5, <1>6

(* The frame that runs, and its code, as the oracle sees them.             *)
LEMMA TopIsFrame ==
  ASSUME OInv, phase = "running"
  PROVE  /\ Len(stack) \in Nat \ {0} /\ IsFrame(Top) /\ Sound(Top)
         /\ Current(Ticked) = Top /\ Current(Pending) = Top /\ Current(Mirrored) = Top
         /\ Pointed(Top) = Code /\ FunctionOf(Top) = Fn
<1>1. Len(stack) \in Nat \ {0} /\ Sound(Top)
  BY RunningSound DEF OInv
<1>2. IsFrame(Top)
  BY <1>1 DEF OInv, InStep, Top
<1>3. Current(Ticked) = Top /\ Current(Pending) = Top /\ Current(Mirrored) = Top
  BY DEF Current, Ticked, Pending, Mirrored, Machine, Top
<1>4. Pointed(Top) = Code /\ FunctionOf(Top) = Fn
  BY DEF Pointed, FunctionOf, Code, CodeOf, FnOf, Fn, OInv
<1> QED BY <1>1, <1>2, <1>3, <1>4

(* past an instruction without a result,                                   *)
LEMMA AdvanceMirrored ==
  ASSUME OInv, phase = "running", Replace(Advanced(Top))
  PROVE  /\ Mirrored' = Skip(Pending)
         /\ \A k \in 1..Len(stack') : IsFrame(stack'[k])
<1>1. IsFrame(Advanced(Top))
  BY DEF IsFrame, Advanced, Frame
<1>2. [Top EXCEPT !.pc = Top.pc + 1] = Advanced(Top)
  BY TopIsFrame DEF IsFrame, Advanced, Frame
<1>3. Skip(Pending) = OnTop(Pending, Advanced(Top))
  BY <1>2, TopIsFrame DEF Skip
<1> QED BY <1>1, <1>3, ReplaceMirrored

(* past one with a result,                                                 *)
LEMMA DefineMirrored ==
  ASSUME OInv, phase = "running", NEW v, Define(v)
  PROVE  /\ Mirrored' = Defining(Pending, v)
         /\ \A k \in 1..Len(stack') : IsFrame(stack'[k])
<1> DEFINE new == Assigned(Top, Code, v)
           vals == [n \in DOMAIN Top.vals \cup {Code.result} |->
                      IF n = Code.result
                      THEN [value |-> Mask(v, TypeBits[Code.type]), type |-> Code.type]
                      ELSE Top.vals[n]]
<1>1. new = Frame(Top.fn, Top.blk, Top.pc + 1, vals)
  BY DEF Assigned, With
<1>2. Defining(Pending, v) = OnTop(Pending, [Top EXCEPT !.pc = Top.pc + 1, !.vals = vals])
  BY TopIsFrame DEF Defining
<1> HIDE DEF vals
<1>3. IsFrame(Top)
  BY TopIsFrame
<1>5. [Top EXCEPT !.pc = Top.pc + 1, !.vals = vals] = Frame(Top.fn, Top.blk, Top.pc + 1, vals)
  BY <1>3, PassedFrame
<1>4. IsFrame(new)
  BY <1>1 DEF IsFrame, Frame
<1> QED BY <1>1, <1>2, <1>4, <1>5, ReplaceMirrored DEF Define

(* to a block,                                                             *)
LEMMA GoToMirrored ==
  ASSUME OInv, phase = "running", NEW id \in Ids(Fn.blocks), GoTo(id)
  PROVE  /\ Mirrored' = GoingTo(Pending, id)
         /\ \A k \in 1..Len(stack') : IsFrame(stack'[k])
<1> DEFINE b == IndexOf(Fn.blocks, id)
           new == BlockFrame(Top, b)
<1>1. new = Frame(Top.fn, b, 1, NoValues) /\ IsFrame(new)
  BY DEF BlockFrame, IsFrame, Frame
<1>2. Empty = NoValues
  BY DEF Empty, NoValues
<1>3. [Top EXCEPT !.blk = b, !.pc = 1, !.vals = Empty] = Frame(Top.fn, b, 1, Empty)
  <2> DEFINE there == [Top EXCEPT !.blk = b]
  <2>1. [Top EXCEPT !.blk = b, !.pc = 1, !.vals = Empty] = [there EXCEPT !.pc = 1, !.vals = Empty]
    OBVIOUS
  <2>2. there = Frame(Top.fn, b, Top.pc, Top.vals)
    BY TopIsFrame DEF IsFrame, Frame
  <2> HIDE DEF there, b, new
  <2>3. IsFrame(there) /\ there.fn = Top.fn /\ there.blk = b
    BY <2>2 DEF IsFrame, Frame
  <2>4. [there EXCEPT !.pc = 1, !.vals = Empty] = Frame(there.fn, there.blk, 1, Empty)
    BY <2>3, PassedFrame
  <2> QED BY <2>1, <2>3, <2>4
<1>4. GoingTo(Pending, id) = OnTop(Pending, new)
  BY <1>1, <1>2, <1>3, TopIsFrame DEF GoingTo
<1> QED BY <1>1, <1>4, ReplaceMirrored DEF GoTo

(* into a function, at the same depth,                                     *)
LEMMA EnterMirrored ==
  ASSUME OInv, NEW name \in Ids(image.functions),
         Enter(name, <<>>, Len(stack))
  PROVE  /\ Mirrored' = Entered(Pending, name)
         /\ \A k \in 1..Len(stack') : IsFrame(stack'[k])
         /\ phase' = "running" => outcome' = NoOutcome
<1> DEFINE n == IndexOf(image.functions, name)
           new == Frame(n, 1, 1, Empty)
<1>1. n \in DOMAIN image.functions
  BY IndexOfId
<1>2. image.functions[n].params = <<>>
  BY <1>1 DEF OInv, ModuleBridged, FunctionBridged, Elements
<1>3. Ids(image.functions[n].params) = {} /\ Len(<<>>) = 0
  BY <1>2, EmptySeq DEF Ids
<1>4. EntryFrame(n, <<>>) = new
  BY <1>3 DEF EntryFrame, Empty
<1>5. image.maxCallDepth = OracleDepth /\ package = image
  BY DEF OInv, ModuleBridged
<1>6. CASE TooDeep(Len(stack))
  <2>1. Raise("call-depth", name)
    BY <1>6 DEF Enter
  <2>2. Entered(Pending, name) = Faulted(Pending, "call-depth")
    BY <1>5, <1>6 DEF Entered, Faulted, TooDeep, Pending, Machine
  <2> QED BY <2>1, <2>2, RaiseMirrored DEF Raise
<1>7. CASE ~TooDeep(Len(stack))
  <2>1. stack' = Append(stack, new) /\ outcome' = NoOutcome
    BY <1>2, <1>3, <1>4, <1>7 DEF Enter, Callee
  <2>2. OracleFault' = NoName
    BY <2>1 DEF OracleFault, NoOutcome
  <2>3. Entered(Pending, name) = [Pending EXCEPT !.frames = Append(stack, new)]
    BY <1>5, <1>7 DEF Entered, TooDeep, Pending, Machine, Frame
  <2>4. Mirrored' = Entered(Pending, name)
    BY <2>1, <2>2, <2>3 DEF Mirrored, Pending, Machine
  <2>5. IsList(stack) /\ Len(stack) \in Nat /\ \A k \in 1..Len(stack) : IsFrame(stack[k])
    BY ListLen DEF OInv, TInv, IInv, Stacked, StackInv, InStep
  <2> HIDE DEF new
  <2>6. /\ Len(stack') = Len(stack) + 1
        /\ \A k \in 1..Len(stack) : stack'[k] = stack[k]
        /\ stack'[Len(stack) + 1] = new
    BY <2>1, <2>5, ListAppend
  <2>7. IsFrame(new)
    BY DEF new, IsFrame, Frame
  <2> QED BY <2>1, <2>4, <2>5, <2>6, <2>7
<1> QED BY <1>6, <1>7

(* What a frame of a bridged module stands at is one of the bridge's. *)
LEMMA CodeBridged ==
  ASSUME document \in Documents, ModuleBridged(image), NEW frame, FrameOK(frame)
  PROVE  /\ CodeOf(frame).op \in InsnOps => InsnBridged(CodeOf(frame))
         /\ CodeOf(frame).op \in TermOps => CodeOf(frame).op \in {"jump", "branch", "return"}
<1> DEFINE b == FnOf(frame).blocks[frame.blk]
<1>1. FunctionBridged(FnOf(frame))
  BY DEF ModuleBridged, FrameOK, FnOf, Elements
<1>2. b \in Elements(FnOf(frame).blocks)
  BY DEF FrameOK, Elements
<1>3. /\ \A i \in Elements(b.insns) : InsnBridged(i)
      /\ b.term.op \in {"jump", "branch", "return"}
  BY <1>1, <1>2 DEF FunctionBridged
<1>4. /\ IsList(b.insns)
      /\ frame.pc \in 1..(Len(b.insns) + 1)
      /\ \/ frame.pc <= Len(b.insns) /\ InsnShaped(CodeOf(frame))
         \/ frame.pc = Len(b.insns) + 1 /\ TermShaped(CodeOf(frame))
  BY CodeShape
<1>5. CodeOf(frame) = IF frame.pc <= Len(b.insns) THEN b.insns[frame.pc] ELSE b.term
  BY DEF CodeOf, CodeAt
<1>6. InsnOps \cap TermOps = {}
  BY DEF InsnOps, TermOps, CallOps, Arity
<1> HIDE DEF b
<1>7. Len(b.insns) \in Nat /\ DOMAIN b.insns = 1..Len(b.insns)
  BY <1>4, ListLen
<1>8. CASE frame.pc <= Len(b.insns) /\ InsnShaped(CodeOf(frame))
  <2>1. CodeOf(frame) \in Elements(b.insns) /\ CodeOf(frame).op \in InsnOps
    BY <1>4, <1>5, <1>7, <1>8 DEF Elements, InsnShaped
  <2> QED BY <1>3, <1>6, <2>1
<1>9. CASE frame.pc = Len(b.insns) + 1 /\ TermShaped(CodeOf(frame))
  <2>1. CodeOf(frame) = b.term /\ CodeOf(frame).op \in TermOps
    BY <1>4, <1>5, <1>7, <1>9 DEF TermShaped
  <2> QED BY <1>3, <1>6, <2>1
<1> QED BY <1>4, <1>8, <1>9

(* and back: the oracle drops the frame and advances its caller, the executor *)
(* rebuilds the end of its stack.                                          *)
LEMMA ReturnMirrored ==
  ASSUME OInv, Return
  PROVE  /\ Mirrored' = Returning(Pending)
         /\ \A k \in 1..Len(stack') : IsFrame(stack'[k])
         /\ phase' = "running" => outcome' = NoOutcome
<1>1. phase = "running" /\ Code.op = "return"
  BY DEF Return, At
<1>2. /\ IsList(stack) /\ Len(stack) \in Nat \ {0}
      /\ \A k \in 1..Len(stack) : IsFrame(stack[k])
      /\ \A k \in 1..Len(stack) : FrameOK(stack[k])
      /\ outcome = NoOutcome /\ document \in Documents /\ ModuleBridged(image)
      /\ image = package
  BY <1>1, TopIsFrame DEF OInv, TInv, IInv, Stacked, StackInv, InStep
<1> DEFINE left   == SubSeq(stack, 1, Len(stack) - 1)
           resumed == Append(SubSeq(stack, 1, Len(stack) - 2), Advanced(stack[Len(stack) - 1]))
<1>3. IsList(left) /\ Len(left) = Len(stack) - 1
      /\ \A k \in 1..(Len(stack) - 1) : left[k] = stack[k]
  BY <1>2, ListPrefix
<1>4. left = <<>> <=> Len(stack) = 1
  <2> HIDE DEF left
  <2> QED BY <1>2, <1>3, ListLen
<1>5. Pending.frames = stack
  BY DEF Pending, Machine
<1>6. CASE Len(stack) = 1
  <2>1. stack' = <<>> /\ outcome' = Returned(ArgValues) /\ phase' = "ready"
    BY <1>6 DEF Return
  <2>2. OracleFault' = NoName
    BY <2>1 DEF OracleFault, Returned
  <2>3. Returning(Pending) = [Pending EXCEPT !.frames = left]
    BY <1>4, <1>5, <1>6 DEF Returning
  <2> HIDE DEF left
  <2>4. Mirrored' = Returning(Pending)
    BY <1>4, <1>6, <2>1, <2>2, <2>3 DEF Mirrored, Pending, Machine
  <2> QED BY <2>1, <2>4, EmptySeq
<1>7. CASE Len(stack) # 1
  <2> DEFINE caller == stack[Len(stack) - 1]
             call   == CodeOf(caller)
  <2>1. Len(stack) > 1 /\ Len(stack) - 1 \in 1..Len(stack) /\ Len(stack) - 1 \in 1..(Len(stack) - 1)
    BY <1>2, <1>7
  <2>2. call.op = "call" /\ call.op \in InsnOps /\ FrameOK(caller)
    BY <1>2, <2>1 DEF OInv, TInv, IInv, Stacked, CallStack, InsnOps, CallOps
  <2>3. call.result = NoName
    BY <1>2, <2>2, CodeBridged DEF InsnBridged
  <2>4. stack' = resumed /\ outcome' = outcome
    BY <1>7, <2>3 DEF Return
  <2>5. IsFrame(caller)
    BY <1>2, <2>1
  <2> HIDE DEF call
  <2>6. [caller EXCEPT !.pc = caller.pc + 1] = Advanced(caller) /\ IsFrame(Advanced(caller))
    BY <2>5 DEF IsFrame, Advanced, Frame
  <2>7. left[Len(left)] = caller /\ left # <<>>
    BY <1>3, <1>4, <1>7, <2>1
  <2> DEFINE moved == [left EXCEPT ![Len(left)] = Advanced(caller)]
  <2>8. Returning(Pending) = [Pending EXCEPT !.frames = moved]
    <3> DEFINE popped == [Pending EXCEPT !.frames = left]
    <3>1. Returning(Pending) = Skip(popped)
      BY <1>5, <2>7 DEF Returning
    <3> HIDE DEF left
    <3>2. popped.frames = left
      BY DEF Pending, Machine
    <3>3. Current(popped) = caller
      BY <2>7, <3>2 DEF Current
    <3>4. Skip(popped) = [popped EXCEPT !.frames = moved]
      BY <2>6, <3>2, <3>3 DEF Skip, OnTop
    <3>5. [popped EXCEPT !.frames = moved] = [Pending EXCEPT !.frames = moved]
      BY DEF Pending, Machine
    <3> QED BY <3>1, <3>4, <3>5
  <2> HIDE DEF left
  <2>9. /\ IsList(moved) /\ Len(moved) = Len(left) /\ moved[Len(left)] = Advanced(caller)
        /\ \A k \in 1..(Len(left) - 1) : moved[k] = left[k]
    BY <1>3, <2>7, ListReplace
  <2>10. /\ IsList(resumed) /\ Len(resumed) = Len(stack) - 1
         /\ \A k \in 1..(Len(stack) - 2) : resumed[k] = stack[k]
         /\ resumed[Len(stack) - 1] = Advanced(caller)
    BY <1>2, <2>1, ListPop
  <2> HIDE DEF resumed, moved
  <2>11. Len(moved) = Len(resumed) /\ \A k \in 1..Len(resumed) : moved[k] = resumed[k]
    BY <1>2, <1>3, <2>1, <2>9, <2>10
  <2>12. moved = resumed
    BY <2>9, <2>10, <2>11, SameList
  <2>13. OracleFault' = NoName
    BY <1>2, <2>4 DEF OracleFault, NoOutcome
  <2>14. Mirrored' = Returning(Pending)
    BY <2>4, <2>8, <2>12, <2>13 DEF Mirrored, Pending, Machine
  <2>15. \A k \in 1..Len(resumed) : IsFrame(resumed[k])
    BY <1>2, <2>1, <2>6, <2>10
  <2> QED BY <1>2, <2>4, <2>14, <2>15
<1> QED BY <1>6, <1>7

(* The executor raises none of the faults that validation excludes.        *)
LEMMA NoInternalFault ==
  ASSUME OInv, TInv', document' = document, NEW f, NEW name, Raise(f, name),
         f \in InternalFaults, f # "argument-count"
  PROVE  FALSE
<1>1. image' = image
  BY SameImage
<1>2. outcome' = Fault(f, name)
  BY DEF Raise
<1>3. name \in ParameterNames'
  BY <1>2 DEF TInv, AdmittedModulesDoNotGoWrong, Fault
<1>4. \A g \in Elements(image.functions) : Ids(g.params) = {}
  BY DEF OInv, ModuleBridged, FunctionBridged, Ids
<1>5. ParameterNames = {}
  BY <1>4 DEF ParameterNames
<1>6. ParameterNames' = {}
  BY <1>1, <1>5 DEF ParameterNames
<1> QED BY <1>3, <1>6

\* The step that an instruction takes on either side.
OneStep(op) ==
  /\ OInv /\ TInv' /\ At(op)

(* What holds of any instruction that is executed.                         *)
LEMMA InsnStep ==
  ASSUME NEW op, OneStep(op)
  PROVE  /\ phase = "running" /\ Code.op = op /\ ~Exhausted
         /\ document' = document /\ operations' = operations + 1
         /\ \A o : Val(Ticked, o) = Value(o) /\ TypeOfOp(Ticked, o) = TypeOf(o)
         /\ op \in InsnOps => InsnBridged(Code) /\ InsnShaped(Code)
         /\ op \in TermOps => TermShaped(Code) /\ TermOK(image, Fn, Scope(Top), Code)
         /\ image = package
<1>1. /\ phase = "running" /\ Code.op = op /\ ~Exhausted
      /\ document' = document /\ operations' = operations + 1
  BY DEF OneStep, At, loaderVars
<1>2. \A o : Val(Ticked, o) = Value(o) /\ TypeOfOp(Ticked, o) = TypeOf(o)
  BY <1>1, TopIsFrame DEF OneStep, Val, Value, TypeOfOp, TypeOf
<1>3. Sound(Top) /\ ModuleBridged(image) /\ image = package
  BY <1>1, TopIsFrame DEF OneStep, OInv
<1>4. op \in InsnOps => InsnBridged(Code) /\ InsnShaped(Code)
  BY <1>1, <1>3, CodeBridged, CodeTyped DEF Sound, Code
<1>5. op \in TermOps => TermShaped(Code) /\ TermOK(image, Fn, Scope(Top), Code)
  BY <1>1, <1>3, CodeTyped DEF Sound, Code, Fn
<1> QED BY <1>1, <1>2, <1>3, <1>4, <1>5

(* The step has the effect the oracle gives the same code.                 *)
Alike ==
  /\ Mirrored' = Effect(Ticked, Code)
  /\ \A k \in 1..Len(stack') : IsFrame(stack'[k])
  /\ phase' = "running" => outcome' = NoOutcome

(* An instruction that fails, that defines its result or that has none is  *)
(* alike when its effect is.                                               *)
LEMMA RaiseAlike ==
  ASSUME NEW f, NEW name, Raise(f, name), Effect(Ticked, Code) = Faulted(Ticked, f), Pending = Ticked
  PROVE  Alike
BY RaiseMirrored DEF Alike, Raise

LEMMA DefineAlike ==
  ASSUME OInv, phase = "running", NEW v, Define(v), Effect(Ticked, Code) = Defining(Pending, v)
  PROVE  Alike
BY DefineMirrored DEF Alike, Define, Replace, OInv, InStep

LEMMA AdvanceAlike ==
  ASSUME OInv, phase = "running", Replace(Advanced(Top)), Effect(Ticked, Code) = Skip(Pending)
  PROVE  Alike
BY AdvanceMirrored DEF Alike, Replace, OInv, InStep

(* Every instruction of a bridged module has the effect it has in the oracle. *)
LEMMA ConstAlike ==
  ASSUME OInv, TInv', ConstInsn, UNCHANGED services
  PROVE  Alike
<1>1. OneStep("const") /\ Define(Code.imm) /\ Pending = Ticked
  BY DEF ConstInsn, OneStep, Pending, Ticked, At, dataVars
<1>2. Effect(Ticked, Code) = Defining(Ticked, Code.imm)
  BY <1>1, InsnStep DEF Effect, Arithmetic
<1> QED BY <1>1, <1>2, InsnStep, DefineAlike

LEMMA ReadStateAlike ==
  ASSUME OInv, TInv', ReadState, UNCHANGED services
  PROVE  Alike
<1>1. OneStep("read_state") /\ Pending = Ticked
  BY DEF ReadState, OneStep, Pending, Ticked, At, dataVars
<1>2. Effect(Ticked, Code) = Defining(Ticked, state[Code.name])
  BY <1>1, InsnStep DEF Effect, Arithmetic, Ticked, Machine
<1>3. ~Raise("undeclared-slot", Code.name)
  BY <1>1, InsnStep, NoInternalFault DEF InternalFaults
<1>4. Define(state[Code.name])
  BY <1>3 DEF ReadState
<1> QED BY <1>1, <1>2, <1>4, InsnStep, DefineAlike

LEMMA WriteStateAlike ==
  ASSUME OInv, TInv', WriteState, UNCHANGED services
  PROVE  Alike
<1> DEFINE new == [state EXCEPT ![Code.name] = Mask(Arg(1), TypeBits[SlotType(image, Code.name)])]
<1>1. OneStep("write_state") /\ memory' = memory
  BY DEF WriteState, OneStep
<1>2. ~Raise("undeclared-slot", Code.name)
  BY <1>1, InsnStep, NoInternalFault DEF InternalFaults
<1>3. state' = new /\ Replace(Advanced(Top))
  BY <1>2 DEF WriteState
<1>4. Pending = [Ticked EXCEPT !.state = new]
  BY <1>1, <1>3, InsnStep DEF Pending, Ticked, Machine
<1>5. Effect(Ticked, Code) = Skip([Ticked EXCEPT !.state = new])
  BY <1>1, InsnStep DEF Effect, Arithmetic, Ticked, Machine, Arg
<1> QED BY <1>1, <1>3, <1>4, <1>5, InsnStep, AdvanceAlike

LEMMA BinopAlike ==
  ASSUME OInv, TInv', BinopInsn, UNCHANGED services
  PROVE  Alike
<1> DEFINE bits == TypeBits[Code.type]
           v    == Binop(Code.kind, Arg(1), Arg(2), bits)
<1>1. OneStep("binop") /\ Pending = Ticked
  BY DEF BinopInsn, OneStep, Pending, Ticked, At, dataVars
<1>2. Code.kind \in BinopKinds
  BY <1>1, InsnStep DEF InsnBridged, InsnOps, Arity
<1>3. Effect(Ticked, Code) = IF ShiftFault(Code.kind, Arg(2), bits) THEN Faulted(Ticked, "shift-count")
                             ELSE Defining(Ticked, v)
  BY <1>1, InsnStep DEF Effect, Arithmetic, Arg
<1>4. BinopV11(Code.kind, Arg(1), Arg(2), bits) = v
  BY <1>2 DEF BinopV11, BinopKinds, ShiftKinds, DivremKinds
<1>5. IF ShiftFault(Code.kind, Arg(2), bits) THEN Raise("shift-count", NoName) ELSE Define(v)
  BY <1>4 DEF BinopInsn
<1> QED BY <1>1, <1>3, <1>5, InsnStep, DefineAlike, RaiseAlike

LEMMA CompareAlike ==
  ASSUME OInv, TInv', CompareInsn, UNCHANGED services
  PROVE  Alike
<1> DEFINE v == Compare(Code.kind, Arg(1), Arg(2), TypeBits[TypeOf(Code.args[1])])
<1>1. OneStep("compare") /\ Define(v) /\ Pending = Ticked
  BY DEF CompareInsn, OneStep, Pending, Ticked, At, dataVars
<1>2. Effect(Ticked, Code) = Defining(Ticked, v)
  BY <1>1, InsnStep DEF Effect, Arithmetic, Arg
<1> QED BY <1>1, <1>2, InsnStep, DefineAlike

(* A load and a store have their operands, and an address of the right type. *)
LEMMA AccessIsTyped ==
  ASSUME OInv, TInv', OneStep("load") \/ OneStep("store")
  PROVE  /\ IsList(Code.args) /\ Len(Code.args) = IF Code.op = "load" THEN 1 ELSE 2
         /\ ~Raise("address-type", NoName)
<1>1. /\ phase = "running" /\ document' = document /\ InsnShaped(Code)
      /\ Code.op = "load" \/ Code.op = "store"
  BY InsnStep DEF InsnOps, Arity
<1>2. Code.op \notin CallOps /\ Arity[Code.op] = IF Code.op = "load" THEN 1 ELSE 2
  BY <1>1 DEF CallOps, Arity
<1>3. IsList(Code.args) /\ Len(Code.args) = IF Code.op = "load" THEN 1 ELSE 2
  BY <1>1, <1>2 DEF InsnShaped, ArgsShaped
<1>4. ~Raise("address-type", NoName)
  BY <1>1, NoInternalFault DEF InternalFaults
<1> QED BY <1>3, <1>4

(* A load reads the same bytes or fails for the same reason,               *)
LEMMA LoadAlike ==
  ASSUME OInv, TInv', LoadInsn, UNCHANGED services
  PROVE  Alike
<1> DEFINE fault == AccessFault(image, Code, Arg(1))
           v     == LoadValue(image, memory, Code, Arg(1))
<1>1. OneStep("load") /\ Pending = Ticked /\ Code.op = "load"
  BY DEF LoadInsn, OneStep, Pending, Ticked, At, dataVars
<1>2. Effect(Ticked, Code) = MemoryAccess(Ticked, Code)
  BY <1>1 DEF Effect
<1>3. Len(Code.args) = 1 /\ Val(Ticked, Code.args[1]) = Arg(1) /\ image = package
  BY <1>1, InsnStep, AccessIsTyped DEF Arg
<1>4. Effect(Ticked, Code) = IF fault # NoName THEN Faulted(Ticked, fault) ELSE Defining(Ticked, v)
  BY <1>1, <1>2, <1>3 DEF MemoryAccess, Ticked, Machine
<1>5. IF fault # NoName THEN Raise(fault, NoName) ELSE Define(v)
  BY <1>1, AccessIsTyped DEF LoadInsn
<1> HIDE DEF fault, v
<1> QED BY <1>1, <1>4, <1>5, InsnStep, DefineAlike, RaiseAlike

(* and so does a store: the oracle tests alignment and bounds in the same  *)
(* order, before it writes.                                                *)
LEMMA StoreAlike ==
  ASSUME OInv, TInv', StoreInsn, UNCHANGED services
  PROVE  Alike
<1> DEFINE fault == AccessFault(image, Code, Arg(2))
           new   == Stored(image, memory, Code, Arg(2), Mask(Arg(1), Code.width))
<1>1. OneStep("store") /\ state' = state /\ Code.op = "store"
  BY DEF StoreInsn, OneStep, At
<1>2. Effect(Ticked, Code) = MemoryAccess(Ticked, Code)
  BY <1>1 DEF Effect
<1>3. /\ Len(Code.args) = 2 /\ image = package
      /\ Val(Ticked, Code.args[1]) = Arg(1) /\ Val(Ticked, Code.args[2]) = Arg(2)
  BY <1>1, InsnStep, AccessIsTyped DEF Arg
<1>4. Effect(Ticked, Code) = IF fault # NoName THEN Faulted(Ticked, fault)
                             ELSE Skip([Ticked EXCEPT !.memory = new])
  BY <1>1, <1>2, <1>3 DEF MemoryAccess, Ticked, Machine
<1>5. IF fault # NoName THEN Raise(fault, NoName) /\ memory' = memory
      ELSE memory' = new /\ Replace(Advanced(Top))
  BY <1>1, AccessIsTyped DEF StoreInsn
<1> HIDE DEF fault, new
<1>6. CASE fault # NoName
  <2>1. Pending = Ticked
    BY <1>1, <1>5, <1>6, InsnStep DEF Pending, Ticked
  <2> QED BY <1>4, <1>5, <1>6, <2>1, RaiseAlike
<1>7. CASE fault = NoName
  <2>1. Pending = [Ticked EXCEPT !.memory = new]
    BY <1>1, <1>5, <1>7, InsnStep DEF Pending, Ticked, Machine
  <2> QED BY <1>1, <1>4, <1>5, <1>7, <2>1, InsnStep, AdvanceAlike
<1> QED BY <1>6, <1>7

(* A call of a function without parameters.                                *)
LEMMA CallAlike ==
  ASSUME OInv, TInv', CallInsn, UNCHANGED services
  PROVE  Alike
<1>1. OneStep("call") /\ Pending = Ticked /\ Code.op = "call"
  BY DEF CallInsn, OneStep, Pending, Ticked, At, dataVars
<1>2. Effect(Ticked, Code) = Entered(Ticked, Code.name)
  BY <1>1 DEF Effect
<1>3. Code.args = <<>>
  BY <1>1, InsnStep DEF InsnBridged, InsnOps, CallOps
<1>4. ArgValues = <<>>
  BY <1>3 DEF ArgValues
<1>5. Len(stack) \in Nat \ {0} /\ Sound(Top)
  BY <1>1, InsnStep, TopIsFrame
<1>6. Enter(Code.name, <<>>, Len(stack))
  BY <1>4, <1>5 DEF CallInsn, Depth
<1>7. Code.name \in Ids(image.functions)
  <2>1. InsnOK(image, Scope(Top), Code)
    BY <1>1, <1>5, CodeTyped DEF Sound, Code, InsnOps, CallOps
  <2> QED BY <1>1, <2>1 DEF InsnOK, CallOK
<1> QED BY <1>1, <1>2, <1>6, <1>7, EnterMirrored DEF Alike

(* A terminator leads to a block of the function.                          *)
LEMMA JumpAlike ==
  ASSUME OInv, TInv', Jump \/ Branch, UNCHANGED services
  PROVE  Alike
<1> DEFINE id == IF Code.op = "jump" THEN Code.targets[1]
                 ELSE IF Arg(1) # 0 THEN Code.targets[1] ELSE Code.targets[2]
<1>1. /\ OneStep("jump") \/ OneStep("branch")
      /\ Pending = Ticked /\ phase = "running"
      /\ Code.op = "jump" \/ Code.op = "branch"
  BY DEF Jump, Branch, OneStep, Pending, Ticked, At, dataVars
<1>2. GoTo(id)
  BY <1>1 DEF Jump, Branch, At
<1>3. Effect(Ticked, Code) = GoingTo(Ticked, id)
  BY <1>1, InsnStep DEF Effect, Arg
<1>4. TermShaped(Code) /\ TermOK(image, Fn, Scope(Top), Code)
  BY <1>1, InsnStep DEF TermOps
<1>5. IsList(Code.targets) /\ Len(Code.targets) = IF Code.op = "jump" THEN 1 ELSE 2
  BY <1>1, <1>4 DEF TermShaped
<1>6. 1 \in DOMAIN Code.targets /\ (Code.op = "branch" => 2 \in DOMAIN Code.targets)
  BY <1>1, <1>5, ListLen
<1>7. id \in Ids(Fn.blocks)
  BY <1>1, <1>4, <1>6 DEF TermOK
<1> HIDE DEF id
<1> QED BY <1>1, <1>2, <1>3, <1>7, GoToMirrored DEF Alike, GoTo, Replace, OInv, InStep

LEMMA ReturnAlike ==
  ASSUME OInv, TInv', Return, UNCHANGED services
  PROVE  Alike
<1>1. OneStep("return") /\ Pending = Ticked /\ Code.op = "return"
  BY DEF Return, OneStep, Pending, Ticked, At, dataVars
<1>2. Effect(Ticked, Code) = Returning(Ticked)
  BY <1>1 DEF Effect
<1> QED BY <1>1, <1>2, ReturnMirrored DEF Alike

(* The services, which are inlined in the oracle, answer alike.            *)
LEMMA HostCallAlike ==
  ASSUME OInv, TInv', HostCall, HostAnswers
  PROVE  Alike
<1> DEFINE values == ArgValues
           served == Served(Contract, services, Code.name, values)
           reply  == Reply(Contract, services, Code.name, values)[1]
           fails  == ServiceFails(Contract, Code.name, values)
<1>1. /\ OneStep("host_call") /\ Code.op = "host_call"
      /\ state' = state /\ memory' = memory /\ operations' = operations + 1
      /\ phase = "running"
  BY DEF HostCall, OneStep, At
<1>2. [k \in DOMAIN Code.args |-> Val(Ticked, Code.args[k])] = values
  BY <1>1, InsnStep DEF ArgValues, Arg
<1>3. Ticked.services = services
  BY DEF Ticked, Machine
<1> HIDE DEF values
<1>4. Effect(Ticked, Code) = HostService(Ticked, Code)
  BY <1>1 DEF Effect
<1>5. Effect(Ticked, Code) =
        IF fails THEN Faulted(Ticked, "host-failure")
        ELSE IF Code.result = NoName THEN Skip([Ticked EXCEPT !.services = served])
        ELSE Defining([Ticked EXCEPT !.services = served], reply)
  BY <1>2, <1>3, <1>4 DEF HostService
<1>6. IF fails THEN Raise("host-failure", Code.name) /\ UNCHANGED services
      ELSE /\ services' = served
           /\ IF Code.result = NoName THEN Replace(Advanced(Top)) ELSE Define(reply)
  BY DEF HostAnswers, values
<1> HIDE DEF served, reply, fails
<1>7. CASE fails
  <2>1. Pending = Ticked
    BY <1>1, <1>6, <1>7 DEF Pending, Ticked
  <2> QED BY <1>5, <1>6, <1>7, <2>1, RaiseAlike
<1>8. CASE ~fails
  <2>1. Pending = [Ticked EXCEPT !.services = served]
    BY <1>1, <1>6, <1>8 DEF Pending, Ticked, Machine
  <2> QED BY <1>1, <1>5, <1>6, <1>8, <2>1, AdvanceAlike, DefineAlike
<1> QED BY <1>7, <1>8

(* A step of the executor, with the host's answer, is a step of the oracle. *)
LEMMA StepMirrored ==
  ASSUME OInv, TInv', Execute, IF HostCalled THEN HostAnswers ELSE UNCHANGED services
  PROVE  /\ Mirrored' = NextMachine(Mirrored)
         /\ \A k \in 1..Len(stack') : IsFrame(stack'[k])
         /\ phase' = "running" => outcome' = NoOutcome
<1>1. phase = "running" /\ operations' = operations + 1 /\ document' = document
  BY ExecuteBudget, StepShape DEF OInv, TInv, IInv, Stacked, Counted, loaderVars
<1>2. OracleFault = NoName
  BY <1>1 DEF OracleFault, OInv, InStep, NoOutcome
<1>3. [Mirrored EXCEPT !.operations = Mirrored.operations + 1] = Ticked
  BY <1>2 DEF Mirrored, Ticked, Machine
<1>4. Current(Mirrored) = Top /\ Pointed(Top) = Code /\ package = image
  BY <1>1, TopIsFrame DEF OInv
<1>5. NextMachine(Mirrored) = IF Exhausted THEN Faulted(Ticked, "operation-limit")
                              ELSE Effect(Ticked, Code)
  BY <1>3, <1>4 DEF NextMachine, Exhausted, Ticked, Machine
<1>6. CASE Exhausted
  <2>1. OperationLimit
    BY <1>6 DEF Execute, UndefinedValue, Instruction, Terminator, ConstInsn, ReadState, WriteState,
         BinopInsn, CompareInsn, CastInsn, SelectInsn, LoadInsn, StoreInsn, CallInsn, HostCall,
         Jump, Branch, IndirectJump, Trap, Return, At
  <2>2. services' = services
    BY <1>6 DEF HostCalled
  <2>3. Pending = Ticked /\ Raise("operation-limit", NoName)
    BY <2>1, <2>2, <1>1 DEF OperationLimit, Pending, Ticked, dataVars
  <2> QED BY <1>5, <1>6, <2>3, RaiseMirrored DEF Raise
<1>7. CASE ~Exhausted
  <2>1. ~OperationLimit
    BY <1>7 DEF OperationLimit
  <2>2. ~UndefinedValue
    BY <1>1, NoInternalFault DEF UndefinedValue, InternalFaults
  <2>3. Code.op \notin {"cast", "select", "indirect_jump", "trap"}
    BY <1>1, TopIsFrame, CodeBridged
       DEF OInv, Sound, Code, InsnBridged, InsnOps, TermOps, Arity
  <2>4. ~CastInsn /\ ~SelectInsn /\ ~IndirectJump /\ ~Trap
    BY <2>3 DEF CastInsn, SelectInsn, IndirectJump, Trap, At
  <2>5. Code.op # "host_call" => services' = services
    BY DEF HostCalled
  <2>6. HostCall => HostCalled
    BY <1>7 DEF HostCall, HostCalled, At, Evaluated
  <2>7. Alike
    <3>1. ASSUME HostCall PROVE Alike
      BY <2>6, <3>1, HostCallAlike
    <3>2. ASSUME Instruction, ~HostCall PROVE Alike
      <4>1. Code.op # "host_call"
        BY <2>4, <3>2 DEF Instruction, ConstInsn, ReadState, WriteState, BinopInsn, CompareInsn,
                 LoadInsn, StoreInsn, CallInsn, At
      <4> QED BY <2>4, <2>5, <3>2, <4>1, ConstAlike, ReadStateAlike, WriteStateAlike, BinopAlike,
                 CompareAlike, LoadAlike, StoreAlike, CallAlike DEF Instruction
    <3>3. ASSUME Terminator PROVE Alike
      <4>1. Code.op # "host_call"
        BY <2>4, <3>3 DEF Terminator, Jump, Branch, Return, At
      <4> QED BY <2>4, <2>5, <3>3, <4>1, JumpAlike, ReturnAlike DEF Terminator
    <3> QED BY <2>1, <2>2, <3>1, <3>2, <3>3 DEF Execute
  <2> QED BY <1>5, <1>7, <2>7 DEF Alike
<1> QED BY <1>6, <1>7

(* The invariant holds initially,                                          *)
LEMMA InitOInv ==
  ASSUME OracleInit, ModuleBridged(image)
  PROVE  OInv
<1>1. TInv /\ Len(stack) = 0
  BY InitTInv, EmptySeq DEF OracleInit, Init
<1> QED BY <1>1 DEF OracleInit, Init, OInv, Prepared, InStep

(* The oracle compares the ends of overlapping segments and the loader the *)
(* addresses they share.                                                   *)
LEMMA SidecarIsAdmitted ==
  ASSUME document \in Documents, package = image, ModuleBridged(image)
  PROVE  SidecarOK <=> SegmentsOK(image)
<1>1. \A s \in Elements(image.segments) : s.address \in Nat /\ Len(s.data) \in Nat
  BY DocumentsAssumption, ListLen DEF image, WellShaped, SegmentShaped
<1>2. /\ \A v \in Elements(image.initialState) : v.slot \in Ids(image.slots)
      /\ image.contract = Contract.version /\ image.memorySize = Contract.memorySize
  BY DEF ModuleBridged, InitialStateOK
<1>3. ASSUME NEW s \in Elements(image.segments), NEW r \in Elements(image.segments)
      PROVE  (\A a \in s.address..(SegmentEnd(s) - 1) : a \notin r.address..(SegmentEnd(r) - 1))
             <=> (IF s.address > r.address THEN s.address ELSE r.address)
                   >= (IF SegmentEnd(s) < SegmentEnd(r) THEN SegmentEnd(s) ELSE SegmentEnd(r))
  <2> DEFINE b == s.address
             c == r.address
             d == SegmentEnd(s)
             e == SegmentEnd(r)
             high == IF b > c THEN b ELSE c
  <2>1. b \in Nat /\ c \in Nat /\ d \in Nat /\ e \in Nat /\ b <= d /\ c <= e
    BY <1>1 DEF SegmentEnd
  <2> HIDE DEF b, c, d, e
  <2>2. ASSUME high < IF d < e THEN d ELSE e
        PROVE  high \in b..(d - 1) /\ high \in c..(e - 1)
    BY <2>1, <2>2
  <2>3. ASSUME NEW a \in b..(d - 1), a \in c..(e - 1)
        PROVE  high < IF d < e THEN d ELSE e
    BY <2>1, <2>3
  <2>4. high \in Nat /\ (IF d < e THEN d ELSE e) \in Nat
    BY <2>1
  <2>5. (\A a \in b..(d - 1) : a \notin c..(e - 1)) <=> high >= (IF d < e THEN d ELSE e)
    BY <2>2, <2>3, <2>4
  <2> QED BY <2>5 DEF b, c, d, e
<1>4. \A i \in DOMAIN image.segments : image.segments[i] \in Elements(image.segments)
  BY DEF Elements
<1>5. (\A s \in Elements(image.segments) : SegmentEnd(s) <= image.memorySize)
      <=> \A i \in DOMAIN image.segments : SegmentEnd(image.segments[i]) <= image.memorySize
  BY DEF Elements
<1> QED BY <1>2, <1>3, <1>4, <1>5 DEF SidecarOK, SegmentsOK

(* the loader and the oracle's constructor accept the same packages,       *)
LEMMA LoadOInv ==
  ASSUME OInv, Start, Load
  PROVE  OInv'
<1>1. TInv' /\ document' = document /\ image' = image
  BY LoadTInv, SameImage DEF OInv, Load, loaderVars
<1>2. phase = "loading" /\ runs = 0 /\ runs' = 0 /\ phase' \in {"image", "rejected"}
  BY DEF Start, Load, loaderVars
<1>3. document \in Documents
  BY DEF OInv, TInv, IInv, Stacked, StackInv
<1>4. SidecarOK <=> SegmentsOK(image)
  BY <1>3, SidecarIsAdmitted DEF OInv
<1>5. phase' = "image" <=> Admissible(image)
  BY DEF Load
<1>6. package' = package /\ services' = services /\ stack' = stack
  BY DEF Start, Load
<1>7. phase' = "image" => oracle' = NewOracle
  BY <1>2, <1>4, <1>5 DEF Start, Admissible
<1>8. NewOracle' = NewOracle
  BY <1>6 DEF NewOracle, Entered, StartState, InitialMemory
<1>9. ModuleBridged(image)' <=> ModuleBridged(image)
  BY <1>1
<1> QED BY <1>1, <1>2, <1>5, <1>6, <1>7, <1>8, <1>9 DEF OInv, Prepared, InStep

(* the executor is constructed with the state and memory of the oracle,    *)
LEMMA ConstructOInv ==
  ASSUME OInv, Start, Construct
  PROVE  OInv'
<1>1. TInv' /\ document' = document /\ image' = image
  BY ConstructTInv, SameImage DEF OInv, Construct
<1>2. /\ phase \in {"image", "ready"} /\ runs = 0 /\ runs' = 0
      /\ package' = package /\ services' = services /\ oracle' = oracle /\ stack' = stack
  BY DEF Start, Construct
<1>3. phase = "ready" => HostBound
  BY DEF OInv, TInv, IInv, Admitted
<1>4. NewOracle' = NewOracle
  BY <1>2 DEF NewOracle, Entered, StartState, InitialMemory
<1>5. ModuleBridged(image)' <=> ModuleBridged(image)
  BY <1>1
<1>6. InitialState' = InitialState /\ InitialMemory(image)' = InitialMemory(image)
  BY <1>1 DEF InitialState
<1>7. oracle = NewOracle /\ phase' \in {"image", "ready"}
  BY <1>2 DEF OInv, Prepared, Construct
<1>8. Prepared'
  BY <1>2, <1>3, <1>4, <1>6, <1>7 DEF Prepared, Construct
<1> QED BY <1>1, <1>2, <1>5, <1>7, <1>8 DEF OInv, InStep

(* both enter the same function,                                           *)
LEMMA RunOInv ==
  ASSUME OInv, Start, Run, RunArgs = {<<>>}
  PROVE  OInv'
<1>1. TInv' /\ document' = document /\ image' = image
  BY RunTInv, SameImage DEF OInv, Run
<1>2. /\ phase = "ready" /\ runs = 0 /\ runs' = 1 /\ operations' = operations
      /\ state' = state /\ memory' = memory
      /\ package' = package /\ services' = services /\ oracle' = oracle
  BY DEF Start, Run, dataVars
<1>3. /\ state = InitialState /\ memory = InitialMemory(image) /\ operations = 0
      /\ services = Services(Contract) /\ oracle = NewOracle /\ package = image
  BY <1>2 DEF OInv, Prepared, InStep
<1>4. stack = <<>> /\ Len(stack) = 0 /\ image.entry \in Ids(image.functions)
  BY <1>2, EmptySeq DEF OInv, TInv, IInv, Stacked, StackInv, Admitted, Admissible, ValidIR
<1>5. Enter(image.entry, <<>>, Len(stack))
  BY <1>4 DEF Run
<1>6. /\ Mirrored' = Entered(Pending, image.entry)
      /\ \A k \in 1..Len(stack') : IsFrame(stack'[k])
      /\ phase' = "running" => outcome' = NoOutcome
  BY <1>4, <1>5, EnterMirrored
<1>7. StartState = InitialState
  BY <1>3 DEF StartState, InitialState
<1>8. Entered(Pending, image.entry) = NewOracle
  BY <1>2, <1>3, <1>4, <1>7 DEF NewOracle, Pending, Machine
<1>9. phase' \in {"ready", "running"}
  BY <1>5 DEF Enter, Raise
<1>10. ModuleBridged(image)' <=> ModuleBridged(image)
  BY <1>1
<1>11. Prepared' /\ InStep'
  BY <1>2, <1>3, <1>6, <1>8, <1>9 DEF Prepared, InStep
<1> QED BY <1>1, <1>2, <1>3, <1>10, <1>11 DEF OInv

(* one instruction is one _step,                                           *)
LEMMA TogetherOInv ==
  ASSUME OInv, Together
  PROVE  OInv'
<1>1. TInv' /\ phase = "running"
  BY ExecuteTInv, ExecuteBudget DEF OInv, Together
<1>2. Counted /\ (Ends \/ Moves \/ Calls \/ Resumes)
  BY StepShape DEF OInv, TInv, IInv, Stacked, Together
<1>3. /\ document' = document /\ runs' = runs /\ package' = package
      /\ phase' \in {"ready", "running"}
  BY <1>1, <1>2 DEF Counted, loaderVars, Ends, Moves, Calls, Resumes, Together
<1>4. image' = image
  BY <1>3, SameImage
<1>5. runs = 1 /\ oracle = Mirrored /\ stack # <<>>
  BY <1>1 DEF OInv, InStep, TInv, IInv, Stacked, StackInv
<1>6. oracle.frames # <<>>
  BY <1>5 DEF Mirrored, Machine
<1>7. /\ Mirrored' = NextMachine(Mirrored)
      /\ \A k \in 1..Len(stack') : IsFrame(stack'[k])
      /\ phase' = "running" => outcome' = NoOutcome
  BY <1>1, StepMirrored DEF Together
<1>8. oracle' = Mirrored'
  BY <1>5, <1>6, <1>7 DEF Together
<1>9. Prepared' /\ InStep'
  BY <1>3, <1>5, <1>7, <1>8 DEF Prepared, InStep
<1>10. ModuleBridged(image)' <=> ModuleBridged(image)
  BY <1>4
<1> QED BY <1>1, <1>3, <1>4, <1>9, <1>10 DEF OInv

(* and nothing else changes either.                                        *)
LEMMA StutterOInv ==
  ASSUME OInv, UNCHANGED oracleVars
  PROVE  OInv'
<1>1. /\ UNCHANGED vars /\ package' = package /\ services' = services /\ oracle' = oracle
  BY DEF oracleVars
<1>2. /\ document' = document /\ phase' = phase /\ runs' = runs /\ operations' = operations
      /\ state' = state /\ memory' = memory /\ stack' = stack /\ outcome' = outcome
  BY <1>1 DEF vars
<1>3. TInv' /\ image' = image
  BY <1>1, <1>2, StutterTInv, SameImage DEF OInv
<1>4. NewOracle' = NewOracle
  BY <1>1 DEF NewOracle, Entered, StartState, InitialMemory
<1>5. InitialState' = InitialState /\ InitialMemory(image)' = InitialMemory(image)
  BY <1>3 DEF InitialState
<1>6. Mirrored' = Mirrored
  BY <1>1, <1>2 DEF Mirrored, OracleFault
<1>7. Prepared'
  BY <1>1, <1>2, <1>3, <1>4, <1>5 DEF OInv, Prepared
<1>8. InStep'
  BY <1>1, <1>2, <1>6 DEF OInv, InStep
<1> QED BY <1>1, <1>3, <1>7, <1>8 DEF OInv

(* A machine that was constructed is not the one that was not.             *)
LEMMA NewOracleStarted ==
  NewOracle # NoOracle
<1>1. "frames" \in DOMAIN NewOracle
  BY DEF NewOracle, Entered
<1>2. DOMAIN <<>> = {}
  OBVIOUS
<1> QED BY <1>1, <1>2 DEF NoOracle

(* The invariant says what is compared.                                    *)
LEMMA OInvAgrees ==
  ASSUME OInv
  PROVE  OracleAgrees
<1>1. phase = "image" => oracle # NoOracle
  BY NewOracleStarted DEF OInv, Prepared
<1>2. phase = "rejected" => ~(ValidIR(package) /\ SidecarOK)
  BY SidecarIsAdmitted
     DEF OInv, Prepared, TInv, IInv, Stacked, StackInv, ModuleBridged, Admissible
<1>3. runs = 1 => oracle = Mirrored
  BY DEF OInv, InStep
<1> QED BY <1>1, <1>2, <1>3 DEF OracleAgrees, Mirrored, Machine, OracleFault

(* For every module the bridge can write, every contract, host service and *)
(* bound on operations: the differential oracle and the Core API accept the *)
(* same memory images, count the same operations, hold the same slots,     *)
(* memory, frames and services after each of them, and fail for the same   *)
(* reason.  RunArgs: the bridge's run() is given no arguments.             *)
THEOREM OraclesAgree ==
  ASSUME RunArgs = {<<>>}, \A d \in Documents : ModuleBridged(Parsed(d))
  PROVE  OracleSpec => []OracleAgrees
<1>1. OracleInit => OInv
  BY InitOInv DEF OracleInit, Init, image
<1>2. OInv /\ [OracleNext]_oracleVars => OInv'
  BY LoadOInv, ConstructOInv, RunOInv, TogetherOInv, StutterOInv DEF OracleNext, Start
<1>3. OInv => OracleAgrees
  BY OInvAgrees
<1> QED BY <1>1, <1>2, <1>3, PTL DEF OracleSpec
=============================================================================
