---------------------------- MODULE BackEndEquivalence ----------------------------
(***************************************************************************)
(* What instructions compute, on both back ends.  Either one instruction   *)
(* and its operands are drawn and evaluated by the Python definitions and  *)
(* by the C definitions of IRArith; or a guest memory is driven by a       *)
(* sequence of loads and stores and kept twice, by GuestMemory.load and    *)
(* .store and by or_load and or_store.  Stored values are given unmasked,  *)
(* as an instruction hands them over.                                      *)
(***************************************************************************)
EXTENDS GuestMemory

CONSTANTS
  Types,           \* the types whose operands are enumerated completely
  CornerType,      \* a wide type, enumerated over Corners only
  Corners,         \* bit patterns of CornerType
  MemorySize,      \* bytes of memory
  Widths,          \* access widths in bytes
  Alignments,      \* declared alignments
  GuestAddresses,  \* the addresses tried, in and out of bounds
  StoredValues,    \* the values stored
  LoadTypes        \* the result types of a load

ASSUME InputsAssumption ==
  /\ Types \cup LoadTypes \subseteq IntTypes
  /\ CornerType \in IntTypes
  /\ \A p \in Corners : Fits(p, CornerType)
  /\ MemorySize \in Nat /\ Alignments \subseteq Nat \ {0}
  /\ Widths \subseteq {1, 2, 4, 8}
  /\ GuestAddresses \subseteq Nat /\ StoredValues \subseteq Int

VARIABLES
  bigEndian,  \* the byte order of the module, fixed at the start
  pyMemory,   \* bytearray of the reference path
  cMemory,    \* g_memory of the generated C
  last,       \* the instruction or access evaluated last, or None
  python,     \* what it gave on the reference path: a value, or a fault
  compiled    \* what it gave in C

memories == <<bigEndian, pyMemory, cMemory>>
backEndVars == <<memories, last, python, compiled>>

None == [op |-> "none"]

Valued(v) == [fault |-> NoName, value |-> v]
Faulty(fault) == [fault |-> fault]

Image == [bigEndian |-> bigEndian, memorySize |-> MemorySize]

BackEndsInit ==
  /\ bigEndian \in BOOLEAN
  /\ pyMemory = [a \in Addresses(Image) |-> 0]
  /\ cMemory = pyMemory
  /\ last = None /\ python = Faulty(NoName) /\ compiled = Faulty(NoName)

----------------------------------------------------------------------------
(* One instruction. *)

Patterns(t) == IF t = CornerType THEN Corners ELSE 0..(Pow2[TypeBits[t]] - 1)

AllTypes == Types \cup {CornerType}

\* Both paths test the shift count before they compute.
Checked(kind, b, bits, result) ==
  IF ShiftFault(kind, b, bits) THEN Faulty("shift") ELSE Valued(result)

EvalBinop ==
  \E t \in AllTypes, kind \in BinopKinds : \E a, b \in Patterns(t) :
    LET bits == TypeBits[t] IN
    /\ kind = "mul" => t # CornerType   \* TLC's own integers are 32 bits wide
    /\ last' = [op |-> "binop", kind |-> kind, type |-> t, a |-> a, b |-> b]
    /\ python' = Checked(kind, b, bits, Binop(kind, a, b, bits))
    /\ compiled' = Checked(kind, b, bits, CBinop(kind, a, b, bits))

EvalCompare ==
  \E t \in AllTypes, p \in Predicates : \E a, b \in Patterns(t) :
    /\ last' = [op |-> "compare", kind |-> p, type |-> t, a |-> a, b |-> b]
    /\ python' = Valued(Compare(p, a, b, TypeBits[t]))
    /\ compiled' = Valued(CCompare(p, a, b, TypeBits[t]))

EvalCast ==
  \E from, to \in AllTypes, kind \in CastKinds : \E a \in Patterns(from) :
    /\ kind \in {"zext", "sext"} => TypeBits[to] > TypeBits[from]
    /\ kind = "trunc" => TypeBits[to] < TypeBits[from]
    /\ kind = "bitcast" => to = from
    /\ last' = [op |-> "cast", kind |-> kind, type |-> to, from |-> from, a |-> a]
    /\ python' = Valued(Cast(kind, a, TypeBits[from], TypeBits[to]))
    /\ compiled' = Valued(CCast(kind, a, TypeBits[from], TypeBits[to]))

EvalDivrem ==
  \E t \in AllTypes, kind \in DivremKinds : \E a, b \in Patterns(t) :
    /\ last' = [op |-> "divrem", kind |-> kind, type |-> t, a |-> a, b |-> b]
    /\ python' = Valued(DivremResult(kind, a, b, TypeBits[t]))
    /\ compiled' = Valued(CDivrem(kind, a, b, TypeBits[t]))

----------------------------------------------------------------------------
(* A sequence of accesses. *)

Access(bytes, align, faulting, signed, type) ==
  [width |-> bytes * ByteBits, align |-> align, faulting |-> faulting, signed |-> signed,
   type |-> type]

Load ==
  \E n \in Widths, al \in Alignments, faulting, signed \in BOOLEAN, t \in LoadTypes,
     address \in GuestAddresses :
    LET i == Access(n, al, faulting, signed, t)
        Answer(fault, value) == IF fault # NoName THEN Faulty(fault) ELSE Valued(value)
    IN  /\ al <= n /\ TypeBits[t] >= i.width
        /\ last' = [op |-> "load", insn |-> i, address |-> address]
        /\ python' = Answer(AccessFault(Image, i, address),
                            LoadValue(Image, pyMemory, i, address))
        /\ compiled' = Answer(CAccessFault(Image, i, address),
                              CLoadValue(Image, cMemory, i, address))
        /\ UNCHANGED memories

Store ==
  \E n \in Widths, al \in Alignments, faulting \in BOOLEAN, address \in GuestAddresses,
     value \in StoredValues :
    LET i == Access(n, al, faulting, FALSE, "i64")   \* a store has no result type
        pyFault == AccessFault(Image, i, address)
        cFault  == CAccessFault(Image, i, address)
    IN  /\ al <= n
        /\ last' = [op |-> "store", insn |-> i, address |-> address, value |-> value]
        /\ python' = Faulty(pyFault) /\ compiled' = Faulty(cFault)
        /\ pyMemory' = IF pyFault # NoName THEN pyMemory
                       ELSE Stored(Image, pyMemory, i, address, Mask(value, i.width))
        /\ cMemory' = IF cFault # NoName THEN cMemory
                      ELSE CStored(Image, cMemory, i, address, value)
        /\ UNCHANGED bigEndian

BackEndsNext ==
  \/ /\ last = None
     /\ EvalBinop \/ EvalCompare \/ EvalCast \/ EvalDivrem
     /\ UNCHANGED memories
  \/ /\ last.op \in {"none", "load", "store"}
     /\ Load \/ Store

BackEndsSpec == BackEndsInit /\ [][BackEndsNext]_backEndVars

----------------------------------------------------------------------------
(* The generated C computes bit for bit what the reference executor        *)
(* computes, for every operation, width and operand, and never reaches     *)
(* undefined behaviour (executor.py _execute_instruction and divrem_v1.py  *)
(* against aot_c_backend_v1.py emit_insn, or_signed and or_divrem).  After *)
(* any sequence of accesses it has the bytes the reference path has, and   *)
(* the last access gave the same value or the same fault (runtime.py lines *)
(* 67-110 against aot_c_backend_v1.py lines 371-391).                      *)
BackEndsAgree == pyMemory = cMemory /\ python = compiled

(* Division and remainder fit together at every width, including the two   *)
(* edge cases the C must test for: dividend = quotient * divisor +         *)
(* remainder (modulo the width), a signed remainder is smaller than the    *)
(* divisor and has the dividend's sign (IR_V1_1_DIVREM_SEMANTICS_V1.md).   *)
DivisionIdentity ==
  last.op = "divrem" /\ last.b # 0 =>
    LET bits == TypeBits[last.type]
        a == last.a
        b == last.b
        R(kind) == DivremResult(kind, a, b, bits)
        sr == SignedValue(R("srem"), bits)
    IN  /\ R("udiv") * b + R("urem") = a
        /\ R("urem") < b
        /\ Mask(SignedValue(R("sdiv"), bits) * SignedValue(b, bits) + sr - a, bits) = 0
        /\ Abs(sr) < Abs(SignedValue(b, bits))
        /\ sr # 0 => (sr < 0 <=> SignedValue(a, bits) < 0)

LastStore == last.op = "store" /\ python.fault = NoName

(* The bytes of a stored word lie in the guest's byte order, the least     *)
(* significant one first on a little-endian guest and last on a big-endian *)
(* one, and a load of the same width and address puts the word together    *)
(* again (IR_SPEC_V1.md line 124: the byte order is that of                *)
(* source.endianness).                                                     *)
GuestByteOrder ==
  LastStore =>
    LET word     == Mask(last.value, last.insn.width)
        size     == Size(last.insn)
        place(k) == IF bigEndian THEN size - 1 - k ELSE k
    IN  /\ \A k \in 0..(size - 1) :
             pyMemory[last.address + k] = Mask(word \div Pow2[ByteBits * place(k)], ByteBits)
        /\ LoadValue(Image, pyMemory, last.insn, last.address) = word

(* An access that faults changes nothing, and a store changes only the     *)
(* bytes it names.                                                         *)
OnlyNamedBytesChange ==
  [][\A a \in Addresses(Image) :
       pyMemory'[a] # pyMemory[a] =>
         /\ last'.op = "store" /\ python'.fault = NoName
         /\ a \in last'.address..(last'.address + Size(last'.insn) - 1)]_backEndVars
=============================================================================
