------------------------------ MODULE IRModule ------------------------------
(***************************************************************************)
(* Normalized IR V1 modules: their shape and the semantic validator        *)
(* (tools/validate_ir_v1.py, schema/openrecomp-ir-v1.schema.json), and the *)
(* packaging checks of the module image that concern execution             *)
(* (openrecomp/module.py).  IR V1.1 adds the divisions and the feature     *)
(* that declares them (tools/ir_v1_1_contract.py); a module that declares  *)
(* it is one for the V1.1 tools, and the others for either.                *)
(*                                                                         *)
(* A module is a record                                                    *)
(*   [ addressType, bigEndian, features, slots, hosts, contract, entry,    *)
(*     functions,                                   the normalized IR      *)
(*     memorySize, segments, initialState, observe, maxOperations,         *)
(*     maxCallDepth, identityOK ]                   the image around it    *)
(* slots and params are sequences of [id, type]; a function is             *)
(* [id, params, returnType, blocks]; a block [id, address, insns, term].   *)
(* The operands of an instruction or terminator, which the JSON names lhs, *)
(* rhs, value, address, condition, ..., are one sequence `args' in the     *)
(* order in which they are evaluated:                                      *)
(*   insn = [op, kind, name, args, result, type, imm, width, align,        *)
(*           faulting, signed]                                             *)
(*   term = [op, args, targets]                                            *)
(* where name is the slot, callee or host symbol.  An operand is           *)
(* [ref, const, type]: a reference to a value when ref # NoName.           *)
(***************************************************************************)
EXTENDS IRArith, Sequences

NoName == ""
Void   == "void"

DivremFeature == "integer-divrem-v1"

SupportedFeatures == {"core-v1", "host-call", "bounded-indirect-jump", DivremFeature}

Elements(s) == {s[i] : i \in DOMAIN s}
Ids(s)      == {s[i].id : i \in DOMAIN s}

UniqueIds(s) == \A i, j \in DOMAIN s : s[i].id = s[j].id => i = j

\* The position of an id in a sequence where it occurs.
IndexOf(s, id) == CHOOSE i \in DOMAIN s : s[i].id = id

SlotType(m, slot) == m.slots[IndexOf(m.slots, slot)].type

Callee(m, name) == m.functions[IndexOf(m.functions, name)]

\* The k-th instruction of a block, or its terminator after the last one.
CodeAt(block, k) == IF k <= Len(block.insns) THEN block.insns[k] ELSE block.term

----------------------------------------------------------------------------
(* What the JSON schemas guarantee of any document that reaches the        *)
(* validator: lists where lists are used, known operations with all their  *)
(* operands, results where an operation has one, at least one block.       *)

IsList(s) == s \in Seq(Elements(s))

Arity == [const |-> 0, read_state |-> 0, write_state |-> 1, binop |-> 2, compare |-> 2,
          cast |-> 1, select |-> 3, load |-> 1, store |-> 2]

CallOps == {"call", "host_call"}
InsnOps == DOMAIN Arity \cup CallOps
TermOps == {"jump", "branch", "return", "indirect_jump", "trap"}

ArgsShaped(args) ==
  /\ IsList(args)
  /\ \A o \in Elements(args) : o.ref = NoName => o.type \in IntTypes

InsnShaped(i) ==
  /\ i.op \in InsnOps
  /\ ArgsShaped(i.args)
  /\ i.op \notin CallOps => Len(i.args) = Arity[i.op]
  /\ i.type \in IntTypes
  /\ i.op \in {"write_state", "store"} => i.result = NoName
  /\ i.op \notin {"write_state", "store"} \cup CallOps => i.result # NoName
  /\ i.op = "binop" => i.kind \in BinopKinds \cup DivremKinds
  /\ i.op = "compare" => i.kind \in Predicates /\ i.type = "i1"
  /\ i.op = "cast" => i.kind \in CastKinds
  /\ i.op \in {"load", "store"} =>
       /\ i.width \in {TypeBits[t] : t \in IntTypes \ {"i1"}}
       /\ i.align \in Nat \ {0} /\ i.faulting \in BOOLEAN

TermShaped(t) ==
  /\ t.op \in TermOps
  /\ ArgsShaped(t.args)
  /\ t.op \in {"branch", "indirect_jump"} => Len(t.args) = 1
  /\ t.op \in {"jump", "trap"} => t.args = <<>>
  /\ t.op = "return" => Len(t.args) <= 1
  /\ IsList(t.targets)
  /\ t.op = "jump" => Len(t.targets) = 1
  /\ t.op = "branch" => Len(t.targets) = 2

Named(s) == IsList(s) /\ \A n \in Elements(s) : n.id # NoName /\ n.type \in IntTypes

FunctionShaped(f) ==
  /\ Named(f.params)
  /\ f.returnType \in IntTypes \cup {Void}
  /\ IsList(f.blocks) /\ f.blocks # <<>>
  /\ \A b \in Elements(f.blocks) :
       /\ IsList(b.insns)
       /\ \A i \in Elements(b.insns) : InsnShaped(i)
       /\ TermShaped(b.term)

SegmentShaped(s) ==
  /\ s.address \in Nat
  /\ IsList(s.data) /\ \A byte \in Elements(s.data) : Fits(byte, "i8")

WellShaped(m) ==
  /\ Named(m.slots)
  /\ m.addressType \in IntTypes /\ m.bigEndian \in BOOLEAN /\ m.memorySize \in Nat
  /\ \A s \in Elements(m.segments) : SegmentShaped(s)
  /\ IsList(m.functions)
  /\ \A f \in Elements(m.functions) : FunctionShaped(f)
  /\ m.maxOperations \in Nat \ {0} /\ m.maxCallDepth \in Nat \ {0}

----------------------------------------------------------------------------
(* Values defined before position k of block b of function f: the          *)
(* parameters (in the entry block) and the results of the instructions     *)
(* before k in the same block, each with its type.                         *)

Params(f) == {<<p.id, p.type>> : p \in Elements(f.params)}

ResultsBefore(block, k) ==
  {<<i.result, i.type>> : i \in {block.insns[j] : j \in {n \in DOMAIN block.insns :
                                  n < k /\ block.insns[n].result # NoName}}}

\* All results of the function, as if temporaries crossed block edges.
FaultyDefined(f, b, k) ==
  Params(f) \cup UNION {ResultsBefore(blk, Len(blk.insns) + 1) : blk \in Elements(f.blocks)}

Defined(f, b, k) ==
  (IF b = 1 THEN Params(f) ELSE {}) \cup ResultsBefore(f.blocks[b], k)

\* _operand_type: the operand is defined (or a constant that fits) with type t.
HasType(defs, o, t) ==
  IF o.ref # NoName THEN <<o.ref, t>> \in defs
  ELSE o.type = t /\ Fits(o.const, t)

HasSomeType(defs, o) == \E t \in IntTypes : HasType(defs, o, t)

\* "duplicate result id": results and parameters are unique in a function.
UniqueResults(f) ==
  \A b, c \in DOMAIN f.blocks :
    \A j \in DOMAIN f.blocks[b].insns, k \in DOMAIN f.blocks[c].insns :
      LET result == f.blocks[b].insns[j].result
      IN  result # NoName =>
            /\ result \notin Ids(f.params)
            /\ result = f.blocks[c].insns[k].result => b = c /\ j = k

----------------------------------------------------------------------------
(* The type rules, one per operation. *)

ConstOK(i) == Fits(i.imm, i.type)

ReadStateOK(m, i) == i.name \in Ids(m.slots) /\ i.type = SlotType(m, i.name)

WriteStateOK(m, defs, i) ==
  i.name \in Ids(m.slots) /\ HasType(defs, i.args[1], SlotType(m, i.name))

BinopOK(defs, i) == \A a \in {1, 2} : HasType(defs, i.args[a], i.type)

CompareOK(defs, i) ==
  \E t \in IntTypes : HasType(defs, i.args[1], t) /\ HasType(defs, i.args[2], t)

CastOK(defs, i) ==
  \E t \in IntTypes :
    /\ HasType(defs, i.args[1], t)
    /\ i.kind \in {"zext", "sext"} => TypeBits[i.type] > TypeBits[t]
    /\ i.kind = "trunc"   => TypeBits[i.type] < TypeBits[t]
    /\ i.kind = "bitcast" => TypeBits[i.type] = TypeBits[t]

SelectOK(defs, i) ==
  /\ HasType(defs, i.args[1], "i1")
  /\ \A a \in {2, 3} : HasType(defs, i.args[a], i.type)

LoadOK(m, defs, i) ==
  /\ HasType(defs, i.args[1], m.addressType)
  /\ i.align <= i.width \div ByteBits
  /\ TypeBits[i.type] >= i.width

StoreOK(m, defs, i) ==
  /\ \E t \in IntTypes : HasType(defs, i.args[1], t) /\ TypeBits[t] = i.width
  /\ HasType(defs, i.args[2], m.addressType)
  /\ i.align <= i.width \div ByteBits

CallOK(m, defs, i) ==
  /\ i.name \in Ids(m.functions)
  /\ LET f == Callee(m, i.name)
     IN  /\ Len(i.args) = Len(f.params)
         /\ \A a \in DOMAIN i.args : HasType(defs, i.args[a], f.params[a].type)
         /\ i.result # NoName => i.type = f.returnType

HostCallOK(m, defs, i) ==
  /\ \A a \in DOMAIN i.args : HasSomeType(defs, i.args[a])
  /\ i.name \in m.hosts

InsnOK(m, defs, i) ==
  \/ i.op = "const"       /\ ConstOK(i)
  \/ i.op = "read_state"  /\ ReadStateOK(m, i)
  \/ i.op = "write_state" /\ WriteStateOK(m, defs, i)
  \/ i.op = "binop"       /\ BinopOK(defs, i)
  \/ i.op = "compare"     /\ CompareOK(defs, i)
  \/ i.op = "cast"        /\ CastOK(defs, i)
  \/ i.op = "select"      /\ SelectOK(defs, i)
  \/ i.op = "load"        /\ LoadOK(m, defs, i)
  \/ i.op = "store"       /\ StoreOK(m, defs, i)
  \/ i.op = "call"        /\ CallOK(m, defs, i)
  \/ i.op = "host_call"   /\ HostCallOK(m, defs, i)

TermOK(m, f, defs, t) ==
  /\ \A n \in DOMAIN t.targets : t.targets[n] \in Ids(f.blocks)
  /\ \/ t.op = "jump"
     \/ t.op = "branch" /\ HasType(defs, t.args[1], "i1")
     \/ /\ t.op = "return"
        /\ IF f.returnType = Void THEN t.args = <<>>
           ELSE t.args # <<>> /\ HasType(defs, t.args[1], f.returnType)
     \/ t.op = "indirect_jump" /\ HasType(defs, t.args[1], m.addressType)
     \/ t.op = "trap"

BlockOK(m, f, b) ==
  LET block == f.blocks[b]
  IN  /\ Fits(block.address, m.addressType)
      /\ \A k \in DOMAIN block.insns : InsnOK(m, Defined(f, b, k), block.insns[k])
      /\ TermOK(m, f, Defined(f, b, Len(block.insns) + 1), block.term)

\* A function's guest_address and the source_address of instructions, which are
\* also compared with the address width, are left out: nothing reads them again.
FunctionOK(m, f) ==
  /\ UniqueIds(f.params) /\ UniqueIds(f.blocks)
  /\ UniqueResults(f)
  /\ \A b \in DOMAIN f.blocks : BlockOK(m, f, b)

\* "integer-divrem-v1 is required when V1.1 div/rem operations are present"
DivremDeclared(m) ==
  DivremFeature \in m.features \/
    \A f \in Elements(m.functions) : \A b \in Elements(f.blocks) :
      \A i \in Elements(b.insns) : ~(i.op = "binop" /\ i.kind \in DivremKinds)

\* validate_document, and validate_document_v1_1
ValidIR(m) ==
  /\ m.features \subseteq SupportedFeatures
  /\ DivremDeclared(m)
  /\ UniqueIds(m.slots) /\ UniqueIds(m.functions)
  /\ m.entry \in Ids(m.functions)
  /\ \A n \in DOMAIN m.functions : FunctionOK(m, m.functions[n])

----------------------------------------------------------------------------
(* ModuleImage.from_documents: the image is consistent with its IR.        *)
(* identityOK stands for the comparisons of ids, versions, provenance,     *)
(* SHA-256 digests and the host contract's memory size and policy, none of *)
(* which the execution reads again.                                        *)

SegmentEnd(s) == s.address + Len(s.data)

SegmentsOK(m) ==
  /\ \A i \in DOMAIN m.segments : SegmentEnd(m.segments[i]) <= m.memorySize
  /\ \A i, j \in DOMAIN m.segments : i # j =>
       LET s == m.segments[i]
           r == m.segments[j]
       IN  \A a \in s.address..(SegmentEnd(s) - 1) : a \notin r.address..(SegmentEnd(r) - 1)

InitialStateOK(m) ==
  /\ \A i, j \in DOMAIN m.initialState :
       m.initialState[i].slot = m.initialState[j].slot => i = j
  /\ \A v \in Elements(m.initialState) :
       v.slot \in Ids(m.slots) /\ Fits(v.value, SlotType(m, v.slot))

Admissible(m) ==
  /\ ValidIR(m)
  /\ m.identityOK
  /\ m.observe \in Ids(m.slots)
  /\ InitialStateOK(m)
  /\ SegmentsOK(m)
=============================================================================
