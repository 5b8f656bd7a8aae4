---------------------------- MODULE BridgeRuntime ----------------------------
(***************************************************************************)
(* The differential oracle of the RV32I bridge: Runtime of                 *)
(* tools/run_ir_v1_bridge.py, an interpreter of IR V1 that is older than   *)
(* the Core API and shares no code with it.  The E07 host is part of it,   *)
(* its call depth is fixed, and it takes what the package would hold from  *)
(* the sidecar.  Its states are records                                    *)
(*   [operations, state, memory, frames, services, fault]                  *)
(* where frames is its Python call stack, a frame being the function, the  *)
(* block, the next instruction and `values', and NextMachine(m) is what m  *)
(* becomes by one _step.                                                   *)
(***************************************************************************)
EXTENDS E07Host, GuestMemory

CONSTANT OracleDepth   \* 1024

VARIABLE package   \* the IR with what the sidecar says of its execution

FunctionOf(frame) == package.functions[frame.fn]

Current(m)     == m.frames[Len(m.frames)]
Pointed(frame) == CodeAt(FunctionOf(frame).blocks[frame.blk], frame.pc)

Empty == [n \in {} |-> 0]

----------------------------------------------------------------------------
(* __init__ *)

\* Segments are sorted by address, then each is compared with those before it.
SidecarOK ==
  /\ \A s \in Elements(package.segments) : SegmentEnd(s) <= package.memorySize
  /\ \A i, j \in DOMAIN package.segments :
       LET s == package.segments[i]
           r == package.segments[j]
           Higher(x, y) == IF x > y THEN x ELSE y
           Lower(x, y)  == IF x < y THEN x ELSE y
       IN  i # j => Higher(s.address, r.address) >= Lower(SegmentEnd(s), SegmentEnd(r))
  /\ \A v \in Elements(package.initialState) : v.slot \in Ids(package.slots)
  /\ package.contract = Contract.version
  /\ package.memorySize = Contract.memorySize

StartState ==
  [slot \in Ids(package.slots) |->
     LET given == {v \in Elements(package.initialState) : v.slot = slot}
     IN  IF given = {} THEN 0
         ELSE Mask((CHOOSE v \in given : TRUE).value, TypeBits[SlotType(package, slot)])]

\* depth > 1024 tested as depth >= 1024.
FaultyEntered(m, name) ==
  IF Len(m.frames) >= OracleDepth THEN [m EXCEPT !.fault = "call-depth", !.frames = <<>>]
  ELSE [m EXCEPT !.frames = Append(m.frames,
          [fn |-> IndexOf(package.functions, name), blk |-> 1, pc |-> 1, vals |-> Empty])]

\* execute_function, up to its first instruction.  It is called without
\* arguments: no function of the bridge has parameters.
Entered(m, name) ==
  IF Len(m.frames) > OracleDepth THEN [m EXCEPT !.fault = "call-depth", !.frames = <<>>]
  ELSE [m EXCEPT !.frames = Append(m.frames,
          [fn |-> IndexOf(package.functions, name), blk |-> 1, pc |-> 1, vals |-> Empty])]

NewOracle ==
  Entered([operations |-> 0, state |-> StartState, memory |-> InitialMemory(package),
           frames |-> <<>>, services |-> Services(Contract), fault |-> NoName],
          package.entry)

----------------------------------------------------------------------------
(* _execute_instruction and the terminators. *)

Val(m, o)  == IF o.ref = NoName THEN Mask(o.const, TypeBits[o.type])
              ELSE Current(m).vals[o.ref].value
TypeOfOp(m, o) == IF o.ref = NoName THEN o.type ELSE Current(m).vals[o.ref].type

Faulted(m, fault) == [m EXCEPT !.fault = fault, !.frames = <<>>]

OnTop(m, frame) == [m EXCEPT !.frames = [m.frames EXCEPT ![Len(m.frames)] = frame]]

Skip(m) == LET f == Current(m) IN OnTop(m, [f EXCEPT !.pc = f.pc + 1])

Defining(m, v) ==
  LET f == Current(m)
      c == Pointed(f)
  IN  OnTop(m, [f EXCEPT !.pc = f.pc + 1,
                         !.vals = [n \in DOMAIN f.vals \cup {c.result} |->
                                     IF n = c.result
                                     THEN [value |-> Mask(v, TypeBits[c.type]), type |-> c.type]
                                     ELSE f.vals[n]]])

GoingTo(m, id) ==
  LET f == Current(m)
  IN  OnTop(m, [f EXCEPT !.blk = IndexOf(FunctionOf(f).blocks, id), !.pc = 1, !.vals = Empty])

Returning(m) ==
  LET left == SubSeq(m.frames, 1, Len(m.frames) - 1)
  IN  IF left = <<>> THEN [m EXCEPT !.frames = left]
      ELSE Skip([m EXCEPT !.frames = left])

Arithmetic(m, c) ==
  LET a(k) == Val(m, c.args[k])
      bits == TypeBits[c.type]
  IN  CASE c.op = "const"      -> Defining(m, c.imm)
        [] c.op = "read_state" -> Defining(m, m.state[c.name])
        [] c.op = "write_state" ->
             Skip([m EXCEPT !.state = [m.state EXCEPT
                     ![c.name] = Mask(a(1), TypeBits[SlotType(package, c.name)])]])
        [] c.op = "binop"      -> IF ShiftFault(c.kind, a(2), bits) THEN Faulted(m, "shift-count")
                                  ELSE Defining(m, Binop(c.kind, a(1), a(2), bits))
        [] c.op = "compare"    ->
             Defining(m, Compare(c.kind, a(1), a(2), TypeBits[TypeOfOp(m, c.args[1])]))

\* A store of a word that is not aligned goes through.
FaultyMemoryAccess(m, c) ==
  LET address == Val(m, c.args[Len(c.args)])
      fault   == AccessFault(package, [c EXCEPT !.faulting = c.op = "load"], address)
  IN  IF fault # NoName THEN Faulted(m, fault)
      ELSE IF c.op = "load" THEN Defining(m, LoadValue(package, m.memory, c, address))
      ELSE Skip([m EXCEPT !.memory =
                   Stored(package, m.memory, c, address, Mask(Val(m, c.args[1]), c.width))])

\* _load and _store: alignment first, then bounds.
MemoryAccess(m, c) ==
  LET address == Val(m, c.args[Len(c.args)])
      fault   == AccessFault(package, c, address)
  IN  IF fault # NoName THEN Faulted(m, fault)
      ELSE IF c.op = "load" THEN Defining(m, LoadValue(package, m.memory, c, address))
      ELSE Skip([m EXCEPT !.memory =
                   Stored(package, m.memory, c, address, Mask(Val(m, c.args[1]), c.width))])

\* _host_call: the same services as E07Host, inlined.
HostService(m, c) ==
  LET values == [k \in DOMAIN c.args |-> Val(m, c.args[k])]
      served == [m EXCEPT !.services = Served(Contract, m.services, c.name, values)]
  IN  IF ServiceFails(Contract, c.name, values) THEN Faulted(m, "host-failure")
      ELSE IF c.result = NoName THEN Skip(served)
      ELSE Defining(served, Reply(Contract, m.services, c.name, values)[1])

\* The operations that the bridge writes; no cast, select, trap or indirect jump.
Effect(m, c) ==
  CASE c.op \in {"load", "store"} -> MemoryAccess(m, c)
    [] c.op = "host_call" -> HostService(m, c)
    [] c.op = "call"      -> Entered(m, c.name)
    [] c.op = "jump"      -> GoingTo(m, c.targets[1])
    [] c.op = "branch"    -> GoingTo(m, c.targets[IF Val(m, c.args[1]) # 0 THEN 1 ELSE 2])
    [] c.op = "return"    -> Returning(m)
    [] OTHER              -> Arithmetic(m, c)

\* Running while it has frames; _step counts, then compares.
NextMachine(m) ==
  LET counted == [m EXCEPT !.operations = m.operations + 1]
  IN  IF counted.operations > package.maxOperations
      THEN Faulted(counted, "operation-limit")
      ELSE Effect(counted, Pointed(Current(m)))
=============================================================================
