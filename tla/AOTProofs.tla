------------------------------ MODULE AOTProofs ------------------------------
(***************************************************************************)
(* Proofs about the generated C.  Operation by operation                   *)
(* (BackEndEquivalence), for every byte width, operand and access: the     *)
(* lemmas of IRTheory put together over a history of instructions and      *)
(* accesses, and the law of the total divisions.  And as a whole: that it  *)
(* implements the reference executor (AOTImplementsCore), for every image, *)
(* host reply and number of runs.                                          *)
(*                                                                         *)
(* The C functions at work correspond one to one to the calls of           *)
(* execute_function.  Each action of AOTModule is shown to be the action   *)
(* of CoreExecutor of the same name, with the lemmas of IRTheory for what  *)
(* the two compute differently, or not to be visible to it.                *)
(***************************************************************************)
EXTENDS AOTImplementsCore, BackEndEquivalence, IRTheory

----------------------------------------------------------------------------
(* The two copies of the memory.                                           *)

MemoryTyped ==
  /\ bigEndian \in BOOLEAN
  /\ pyMemory \in [Addresses(Image) -> Byte]

SameState == MemoryTyped /\ BackEndsAgree

(* The operands drawn are patterns of their type. *)
LEMMA DrawnPatterns ==
  ASSUME NEW t \in AllTypes
  PROVE  /\ t \in IntTypes /\ TypeBits[t] \in 1..HostBits /\ TypeBits[t] \in Positive
         /\ \A a \in Patterns(t) : a \in Pattern(TypeBits[t]) /\ a \in Int
<1>1. t \in IntTypes
  BY InputsAssumption DEF AllTypes
<1>2. TypeBits[t] \in 1..HostBits /\ TypeBits[t] \in Positive
  BY <1>1, TypeWidths DEF Positive
<1>3. Pow2[TypeBits[t]] \in Nat
  BY <1>2, Power DEF Positive
<1>4. \A a \in Patterns(t) : a \in Nat /\ a < Pow2[TypeBits[t]]
  BY <1>3, InputsAssumption DEF Patterns, Fits
<1> QED BY <1>1, <1>2, <1>4 DEF Pattern

(* The accesses drawn have a width, an alignment and a byte order.         *)
LEMMA DrawnAccess ==
  ASSUME NEW n \in Widths, NEW al \in Alignments, NEW faulting \in BOOLEAN, NEW signed, NEW t
  PROVE  LET i == Access(n, al, faulting, signed, t)
         IN  /\ i.width \in AccessWidths /\ i.align \in Nat \ {0} /\ i.faulting \in BOOLEAN
             /\ i.type = t /\ i.signed = signed
<1>1. n * ByteBits \in AccessWidths
  <2>1. n \in {1, 2, 4, 8} /\ ByteBits \in Nat
    BY InputsAssumption, TypeWidths DEF Positive
  <2>2. /\ TypeBits["i8"] = ByteBits /\ TypeBits["i16"] = 2 * ByteBits
        /\ TypeBits["i32"] = 4 * ByteBits /\ TypeBits["i64"] = 8 * ByteBits
    BY DEF TypeBits, IntTypes
  <2>3. \E u \in {"i8", "i16", "i32", "i64"} : n * ByteBits = TypeBits[u]
    BY <2>1, <2>2
  <2> QED BY <2>3 DEF AccessWidths, IntTypes
<1> QED BY <1>1, InputsAssumption DEF Access

(* An instruction computes the same value in C, *)
LEMMA EvalAgrees ==
  ASSUME EvalBinop \/ EvalCompare \/ EvalCast \/ EvalDivrem
  PROVE  python' = compiled'
<1>1. CASE EvalBinop
  <2>1. PICK t \in AllTypes, kind \in BinopKinds : \E a, b \in Patterns(t) :
          /\ python' = Checked(kind, b, TypeBits[t], Binop(kind, a, b, TypeBits[t]))
          /\ compiled' = Checked(kind, b, TypeBits[t], CBinop(kind, a, b, TypeBits[t]))
    BY <1>1 DEF EvalBinop
  <2>1a. PICK a, b \in Patterns(t) :
          /\ python' = Checked(kind, b, TypeBits[t], Binop(kind, a, b, TypeBits[t]))
          /\ compiled' = Checked(kind, b, TypeBits[t], CBinop(kind, a, b, TypeBits[t]))
    BY <2>1
  <2> DEFINE n == TypeBits[t]
  <2>2. n \in 1..HostBits /\ a \in Pattern(n) /\ b \in Pattern(n)
    BY DrawnPatterns
  <2> HIDE DEF n
  <2>3. CBinop(kind, a, b, n) = Binop(kind, a, b, n)
    BY <2>2, SameBinop
  <2> QED BY <2>1a, <2>3 DEF n
<1>2. CASE EvalCompare
  <2>1. PICK t \in AllTypes, p \in Predicates : \E a, b \in Patterns(t) :
          /\ python' = Valued(Compare(p, a, b, TypeBits[t]))
          /\ compiled' = Valued(CCompare(p, a, b, TypeBits[t]))
    BY <1>2 DEF EvalCompare
  <2>1a. PICK a, b \in Patterns(t) :
          /\ python' = Valued(Compare(p, a, b, TypeBits[t]))
          /\ compiled' = Valued(CCompare(p, a, b, TypeBits[t]))
    BY <2>1
  <2> DEFINE n == TypeBits[t]
  <2>2. n \in 1..HostBits /\ a \in Int /\ b \in Int
    BY DrawnPatterns
  <2> HIDE DEF n
  <2>3. CCompare(p, a, b, n) = Compare(p, a, b, n)
    BY <2>2, SameCompare
  <2> QED BY <2>1a, <2>3 DEF n
<1>3. CASE EvalCast
  <2>1. PICK from, to \in AllTypes, kind \in CastKinds : \E a \in Patterns(from) :
          /\ python' = Valued(Cast(kind, a, TypeBits[from], TypeBits[to]))
          /\ compiled' = Valued(CCast(kind, a, TypeBits[from], TypeBits[to]))
    BY <1>3 DEF EvalCast
  <2>1a. PICK a \in Patterns(from) :
          /\ python' = Valued(Cast(kind, a, TypeBits[from], TypeBits[to]))
          /\ compiled' = Valued(CCast(kind, a, TypeBits[from], TypeBits[to]))
    BY <2>1
  <2> DEFINE m == TypeBits[from]
             n == TypeBits[to]
  <2>2. m \in 1..HostBits /\ n \in 1..HostBits /\ a \in Int
    BY DrawnPatterns
  <2> HIDE DEF m, n
  <2>3. CCast(kind, a, m, n) = Cast(kind, a, m, n)
    BY <2>2, SameCast
  <2> QED BY <2>1a, <2>3 DEF m, n
<1>4. CASE EvalDivrem
  <2>1. PICK t \in AllTypes, kind \in DivremKinds : \E a, b \in Patterns(t) :
          /\ python' = Valued(DivremResult(kind, a, b, TypeBits[t]))
          /\ compiled' = Valued(CDivrem(kind, a, b, TypeBits[t]))
    BY <1>4 DEF EvalDivrem
  <2>1a. PICK a, b \in Patterns(t) :
          /\ python' = Valued(DivremResult(kind, a, b, TypeBits[t]))
          /\ compiled' = Valued(CDivrem(kind, a, b, TypeBits[t]))
    BY <2>1
  <2> DEFINE n == TypeBits[t]
  <2>2. n \in 1..HostBits /\ a \in Pattern(n) /\ b \in Pattern(n)
    BY DrawnPatterns
  <2> HIDE DEF n
  <2>3. CDivrem(kind, a, b, n) = DivremResult(kind, a, b, n)
    BY <2>2, SameDivremResult
  <2> QED BY <2>1a, <2>3 DEF n
<1> QED BY <1>1, <1>2, <1>3, <1>4

(* a load loads the same, *)
LEMMA LoadAgrees ==
  ASSUME SameState, Load
  PROVE  SameState'
<1>1. PICK n \in Widths, al \in Alignments, faulting, signed \in BOOLEAN, t \in LoadTypes,
           address \in GuestAddresses :
        LET i == Access(n, al, faulting, signed, t)
            Answer(fault, value) == IF fault # NoName THEN Faulty(fault) ELSE Valued(value)
        IN  /\ python' = Answer(AccessFault(Image, i, address),
                                LoadValue(Image, pyMemory, i, address))
            /\ compiled' = Answer(CAccessFault(Image, i, address),
                           CLoadValue(Image, cMemory, i, address))
            /\ UNCHANGED memories
  BY DEF Load
<1> DEFINE i == Access(n, al, faulting, signed, t)
<1>2. /\ i.width \in AccessWidths /\ i.align \in Nat \ {0} /\ i.faulting \in BOOLEAN
      /\ i.type \in IntTypes /\ address \in Nat /\ address \in Int
  BY DrawnAccess, InputsAssumption
<1> HIDE DEF i
<1>3. CAccessFault(Image, i, address) = AccessFault(Image, i, address)
  BY <1>2, SameAccessFault
<1>4. AccessFault(Image, i, address) = NoName =>
        CLoadValue(Image, pyMemory, i, address) = LoadValue(Image, pyMemory, i, address)
  <2>1. Image.bigEndian \in BOOLEAN /\ Image.memorySize \in Nat
    BY InputsAssumption DEF SameState, MemoryTyped, Image
  <2>2. \A a \in Addresses(Image) : pyMemory[a] \in Int
    BY DEF SameState, MemoryTyped, Byte
  <2> QED BY <1>2, <2>1, <2>2, SameLoad
<1>5. UNCHANGED memories
  BY <1>1
<1>6. python' = compiled'
  BY <1>1, <1>3, <1>4 DEF SameState, BackEndsAgree, i
<1> QED BY <1>5, <1>6 DEF SameState, MemoryTyped, BackEndsAgree, memories, Image

(* What a store does. *)
StoreOf(i, address, value) ==
  /\ i.width \in AccessWidths /\ i.align \in Nat \ {0} /\ i.faulting \in BOOLEAN
  /\ i.type = "i64" /\ i.signed = FALSE
  /\ address \in Nat /\ value \in Int
  /\ last' = [op |-> "store", insn |-> i, address |-> address, value |-> value]
  /\ python' = Faulty(AccessFault(Image, i, address))
  /\ compiled' = Faulty(CAccessFault(Image, i, address))
  /\ pyMemory' = IF AccessFault(Image, i, address) # NoName THEN pyMemory
                 ELSE Stored(Image, pyMemory, i, address, Mask(value, i.width))
  /\ cMemory' = IF CAccessFault(Image, i, address) # NoName THEN cMemory
               ELSE CStored(Image, cMemory, i, address, value)
  /\ bigEndian' = bigEndian

LEMMA StoreShape ==
  ASSUME Store
  PROVE  \E i, address, value : StoreOf(i, address, value)
<1>1. PICK n \in Widths, al \in Alignments, faulting \in BOOLEAN, address \in GuestAddresses,
           value \in StoredValues :
        LET i == Access(n, al, faulting, FALSE, "i64")
            pyFault == AccessFault(Image, i, address)
            cFault  == CAccessFault(Image, i, address)
        IN  /\ al <= n
            /\ last' = [op |-> "store", insn |-> i, address |-> address, value |-> value]
            /\ python' = Faulty(pyFault) /\ compiled' = Faulty(cFault)
            /\ pyMemory' = IF pyFault # NoName THEN pyMemory
                           ELSE Stored(Image, pyMemory, i, address, Mask(value, i.width))
            /\ cMemory' = IF cFault # NoName THEN cMemory
                         ELSE CStored(Image, cMemory, i, address, value)
            /\ UNCHANGED bigEndian
  BY Zenon DEF Store
<1> DEFINE i == Access(n, al, faulting, FALSE, "i64")
<1>2. /\ i.width \in AccessWidths /\ i.align \in Nat \ {0} /\ i.faulting \in BOOLEAN
      /\ i.type = "i64" /\ i.signed = FALSE
  <2>1. PICK signed \in BOOLEAN, t \in IntTypes : signed = FALSE /\ t = "i64"
    BY DEF IntTypes
  <2>2. i = Access(n, al, faulting, signed, t)
    BY <2>1
  <2>3. LET j == Access(n, al, faulting, signed, t)
        IN  /\ j.width \in AccessWidths /\ j.align \in Nat \ {0} /\ j.faulting \in BOOLEAN
            /\ j.type = t /\ j.signed = signed
    BY DrawnAccess
  <2> QED BY <2>1, <2>2, <2>3
<1>3. address \in Nat /\ value \in Int
  BY InputsAssumption
<1>4. /\ last' = [op |-> "store", insn |-> i, address |-> address, value |-> value]
      /\ python' = Faulty(AccessFault(Image, i, address))
      /\ compiled' = Faulty(CAccessFault(Image, i, address))
      /\ pyMemory' = IF AccessFault(Image, i, address) # NoName THEN pyMemory
                     ELSE Stored(Image, pyMemory, i, address, Mask(value, i.width))
      /\ cMemory' = IF CAccessFault(Image, i, address) # NoName THEN cMemory
                   ELSE CStored(Image, cMemory, i, address, value)
      /\ bigEndian' = bigEndian
  BY <1>1, Zenon
<1> HIDE DEF i
<1>5. StoreOf(i, address, value)
  BY <1>2, <1>3, <1>4 DEF StoreOf
<1> QED BY <1>5

(* and a store leaves the same bytes.                                      *)
LEMMA StoreAgrees ==
  ASSUME SameState, Store
  PROVE  SameState'
<1>1. PICK i, address, value : StoreOf(i, address, value)
  BY StoreShape
<1>2. /\ i.width \in AccessWidths /\ i.align \in Nat \ {0} /\ i.faulting \in BOOLEAN
      /\ address \in Nat /\ address \in Int /\ value \in Int
      /\ Image.bigEndian \in BOOLEAN /\ DOMAIN pyMemory = Addresses(Image)
      /\ DOMAIN pyMemory \subseteq Int /\ (\A a \in DOMAIN pyMemory : pyMemory[a] \in Byte)
  BY <1>1 DEF StoreOf, SameState, MemoryTyped, Image, Addresses
<1>3. CAccessFault(Image, i, address) = AccessFault(Image, i, address)
  BY <1>2, SameAccessFault
<1>4. CStored(Image, pyMemory, i, address, value)
        = Stored(Image, pyMemory, i, address, Mask(value, i.width))
  BY <1>2, SameStored
<1>5. pyMemory' = cMemory' /\ python' = compiled'
  BY <1>1, <1>3, <1>4 DEF StoreOf, SameState, BackEndsAgree
<1> DEFINE w == Mask(value, i.width)
<1>6. w \in Int
  <2>1. i.width \in Nat
    BY <1>2, AccessSize
  <2> DEFINE n == i.width
  <2>2. n \in Nat
    BY <2>1
  <2> HIDE DEF n
  <2>3. Mask(value, n) \in Int
    BY <1>2, <2>2, MaskFits
  <2> QED BY <2>3 DEF n
<1> HIDE DEF w
<1>7. Stored(Image, pyMemory, i, address, w) \in [Addresses(Image) -> Byte]
  <2>1. LET new == Stored(Image, pyMemory, i, address, w)
        IN  /\ DOMAIN new = DOMAIN pyMemory
            /\ \A a \in DOMAIN pyMemory : new[a] \in Byte
    BY <1>2, <1>6, StoredBytes
  <2>2. Stored(Image, pyMemory, i, address, w)
          = [a \in DOMAIN pyMemory |-> Stored(Image, pyMemory, i, address, w)[a]]
    BY DEF Stored
  <2> QED BY <1>2, <2>1, <2>2
<1>8. pyMemory' \in [Addresses(Image) -> Byte]
  BY <1>1, <1>7 DEF StoreOf, SameState, MemoryTyped, w
<1>9. Addresses(Image)' = Addresses(Image) /\ bigEndian' = bigEndian
  BY <1>1 DEF StoreOf, Addresses, Image
<1> QED BY <1>5, <1>8, <1>9 DEF SameState, MemoryTyped, BackEndsAgree

(* Whatever history of instructions and accesses: the generated C and the  *)
(* reference path have the same bytes and gave the same answers.           *)
THEOREM SameStateInductive == BackEndsSpec => []SameState
<1>1. BackEndsInit => SameState
  <2>1. SUFFICES ASSUME BackEndsInit PROVE SameState
    OBVIOUS
  <2>2. 0 \in Byte
    <3>1. Pow2[ByteBits] \in Positive
      BY TypeWidths, Power DEF Positive
    <3> QED BY <3>1 DEF Byte, Positive
  <2> QED BY <2>1, <2>2 DEF BackEndsInit, SameState, MemoryTyped, BackEndsAgree
<1>2. SameState /\ [BackEndsNext]_backEndVars => SameState'
  <2>1. SUFFICES ASSUME SameState, [BackEndsNext]_backEndVars PROVE SameState'
    OBVIOUS
  <2>2. UNCHANGED memories => MemoryTyped' /\ pyMemory' = cMemory'
    <3>1. SUFFICES ASSUME UNCHANGED memories PROVE MemoryTyped' /\ pyMemory' = cMemory'
      OBVIOUS
    <3>2. bigEndian' = bigEndian /\ pyMemory' = pyMemory /\ cMemory' = cMemory
      BY <3>1 DEF memories
    <3>3. Addresses(Image)' = Addresses(Image)
      BY <3>2 DEF Image, Addresses
    <3> QED BY <2>1, <3>2, <3>3 DEF SameState, MemoryTyped, BackEndsAgree
  <2>3. CASE (EvalBinop \/ EvalCompare \/ EvalCast \/ EvalDivrem) /\ UNCHANGED memories
    <3>1. python' = compiled'
      BY <2>3, EvalAgrees
    <3> QED BY <2>2, <2>3, <3>1 DEF SameState, BackEndsAgree
  <2>4. CASE UNCHANGED backEndVars
    <3>1. UNCHANGED memories /\ python' = python /\ compiled' = compiled
      BY <2>4 DEF backEndVars
    <3> QED BY <2>1, <2>2, <3>1 DEF SameState, BackEndsAgree
  <2> QED BY <2>1, <2>3, <2>4, LoadAgrees, StoreAgrees DEF BackEndsNext
<1> QED BY <1>1, <1>2, PTL DEF BackEndsSpec

(* So the two back ends never give different answers: the same value or    *)
(* the same fault for every instruction and access, and the same memory    *)
(* after it (aot_c_backend_v1.py against executor.py and runtime.py).      *)
THEOREM BackEndsAreEquivalent == BackEndsSpec => []BackEndsAgree
<1>1. SameState => BackEndsAgree
  BY DEF SameState
<1> QED BY <1>1, SameStateInductive, PTL

(* A faulting access changes nothing; a store only the bytes it names. *)
THEOREM StoresAreLocal == BackEndsSpec => OnlyNamedBytesChange
<1>1. SameState /\ [BackEndsNext]_backEndVars =>
        [\A a \in Addresses(Image) :
           pyMemory'[a] # pyMemory[a] =>
             /\ last'.op = "store" /\ python'.fault = NoName
             /\ a \in last'.address..(last'.address + Size(last'.insn) - 1)]_backEndVars
  <2>1. SUFFICES ASSUME SameState, BackEndsNext,
                        NEW a \in Addresses(Image), pyMemory'[a] # pyMemory[a]
                 PROVE  /\ last'.op = "store" /\ python'.fault = NoName
                        /\ a \in last'.address..(last'.address + Size(last'.insn) - 1)
    OBVIOUS
  <2>2. Store
    BY <2>1 DEF BackEndsNext, Load, memories
  <2>3. PICK i, address, value : StoreOf(i, address, value)
    BY <2>2, StoreShape
  <2>4. AccessFault(Image, i, address) = NoName
        /\ pyMemory' = Stored(Image, pyMemory, i, address, Mask(value, i.width))
    BY <2>1, <2>3 DEF StoreOf
  <2>5. a \in address..(address + Size(i) - 1)
    BY <2>1, <2>4 DEF Stored, SameState, MemoryTyped
  <2>6. last'.op = "store" /\ last'.insn = i /\ last'.address = address
        /\ python' = Faulty(AccessFault(Image, i, address))
    BY <2>3 DEF StoreOf
  <2> QED BY <2>4, <2>5, <2>6 DEF Faulty
<1> QED BY <1>1, SameStateInductive, PTL DEF BackEndsSpec, OnlyNamedBytesChange

----------------------------------------------------------------------------
(* The byte order of the guest.                                            *)

\* What a store leaves behind at address, in a memory with the byte order of m.
WordInOrder(m, mem, i, address, w) ==
  /\ \A k \in 0..(Size(i) - 1) :
       mem[address + k] = Mask(w \div Pow2[ByteBits * Offset(m, Size(i), k)], ByteBits)
  /\ LoadValue(m, mem, i, address) = w

LEMMA StoredInOrder ==
  ASSUME NEW m, m.bigEndian \in BOOLEAN, m.memorySize \in Nat,
         NEW mem, mem \in [Addresses(m) -> Byte],
         NEW i, i.width \in AccessWidths, i.type = "i64", ~i.signed,
         NEW address \in Nat, AccessFault(m, i, address) = NoName, NEW value \in Int
  PROVE  WordInOrder(m, Stored(m, mem, i, address, Mask(value, i.width)), i, address,
                     Mask(value, i.width))
<1> DEFINE w   == Mask(value, i.width)
           n   == Size(i)
           new == Stored(m, mem, i, address, w)
           width == i.width
<1>1. n \in Positive /\ width \in Nat /\ width <= HostBits /\ DOMAIN mem = Addresses(m)
  BY AccessSize DEF Positive
<1>2. w \in Pattern(width) /\ w \in Nat /\ w < Pow2[width]
  <2> HIDE DEF width
  <2>1. Mask(value, width) \in Nat /\ Mask(value, width) < Pow2[width]
    BY <1>1, MaskFits
  <2> QED BY <2>1 DEF Pattern, width
<1>3. ASSUME NEW k \in 0..(n - 1)
      PROVE  new[address + k] = Mask(w \div Pow2[ByteBits * Offset(m, n, k)], ByteBits)
  <2>1. Offset(m, n, k) \in 0..(n - 1) /\ Offset(m, n, Offset(m, n, k)) = k /\ n \in Nat
    <3> HIDE DEF n
    <3> QED BY <1>1 DEF Offset, Positive
  <2> DEFINE j == Offset(m, n, k)
  <2>2. address + Offset(m, n, j) \in Addresses(m)
    <3>1. j \in 0..(Size(i) - 1) /\ Size(i) \in Nat
      BY <2>1
    <3> HIDE DEF j
    <3> QED BY <3>1, WordInMemory
  <2>3. address + k \in Addresses(m) /\ address + k \in address..(address + n - 1)
        /\ (address + k) - address = k
    <3> HIDE DEF n
    <3> QED BY <1>1, <2>1, <2>2 DEF Positive
  <2>4. new[address + k] = (w \div Pow2[ByteBits * Offset(m, n, (address + k) - address)]) % Pow2[ByteBits]
    <3> DEFINE a == address + k
    <3>1. a \in DOMAIN mem /\ a \in address..(address + n - 1)
      BY <1>1, <2>3
    <3> HIDE DEF a, w
    <3>2. new[a] = (w \div Pow2[ByteBits * Offset(m, n, a - address)]) % Pow2[ByteBits]
      BY <3>1 DEF Stored
    <3> QED BY <3>2 DEF a
  <2> QED BY <2>3, <2>4 DEF Mask
<1>4. RawValue(m, new, address, n) = w
  <2>1. w \in Pattern(i.width)
    BY <1>2
  <2> HIDE DEF w
  <2> QED BY <1>1, <2>1, LoadOfStored
<1>5. LoadValue(m, new, i, address) = Mask(w, TypeBits["i64"])
  <2> HIDE DEF new, w
  <2> QED BY <1>4 DEF LoadValue
<1>6. Mask(w, TypeBits["i64"]) = w
  <2>1. TypeBits["i64"] = HostBits /\ HostBits \in Nat
    BY TypeWidths DEF HostBits, Positive
  <2>2. Pow2[width] <= Pow2[HostBits] /\ Pow2[width] \in Nat /\ Pow2[HostBits] \in Nat
    <3> HIDE DEF width
    <3> QED BY <1>1, <2>1, PowerSplits, Power DEF Positive
  <2> HIDE DEF w, width
  <2>3. w \in Nat /\ w < Pow2[HostBits]
    BY <1>2, <2>2
  <2> QED BY <2>1, <2>3, MaskKeeps
<1> QED BY <1>3, <1>5, <1>6 DEF WordInOrder

LEMMA StoreInOrder ==
  ASSUME SameState, Store
  PROVE  GuestByteOrder'
<1>1. PICK i, address, value : StoreOf(i, address, value)
  BY StoreShape
<1>2. SUFFICES ASSUME LastStore' PROVE GuestByteOrder'
  BY DEF GuestByteOrder
<1>3. /\ last'.insn = i /\ last'.address = address /\ last'.value = value
      /\ AccessFault(Image, i, address) = NoName
      /\ pyMemory' = Stored(Image, pyMemory, i, address, Mask(value, i.width))
      /\ Image' = Image /\ bigEndian' = Image.bigEndian
  <2>1. last' = [op |-> "store", insn |-> i, address |-> address, value |-> value]
    BY <1>1 DEF StoreOf
  <2>2. AccessFault(Image, i, address) = NoName
    <3>1. python'.fault = NoName
      BY <1>2 DEF LastStore
    <3>2. python' = Faulty(AccessFault(Image, i, address))
      BY <1>1 DEF StoreOf
    <3> QED BY <3>1, <3>2 DEF Faulty
  <2>3. pyMemory' = Stored(Image, pyMemory, i, address, Mask(value, i.width))
    BY <1>1, <2>2 DEF StoreOf
  <2>4. bigEndian' = bigEndian
    BY <1>1 DEF StoreOf
  <2>5. Image' = Image /\ Image.bigEndian = bigEndian
    BY <2>4 DEF Image
  <2> QED BY <2>1, <2>2, <2>3, <2>4, <2>5
<1>4. /\ Image.bigEndian \in BOOLEAN /\ Image.memorySize \in Nat
      /\ pyMemory \in [Addresses(Image) -> Byte]
  BY InputsAssumption DEF SameState, MemoryTyped, Image
<1> DEFINE w == Mask(value, i.width)
<1>5. WordInOrder(Image, Stored(Image, pyMemory, i, address, w), i, address, w)
  <2>1. /\ i.width \in AccessWidths /\ i.type = "i64" /\ i.signed = FALSE
        /\ address \in Nat /\ value \in Int
    BY <1>1 DEF StoreOf
  <2>2. AccessFault(Image, i, address) = NoName
    BY <1>3
  <2>3. PICK m, mem : m = Image /\ mem = pyMemory
    OBVIOUS
  <2>4. /\ m.bigEndian \in BOOLEAN /\ m.memorySize \in Nat /\ mem \in [Addresses(m) -> Byte]
        /\ AccessFault(m, i, address) = NoName
    BY <2>2, <2>3, <1>4
  <2>5. WordInOrder(m, Stored(m, mem, i, address, Mask(value, i.width)), i, address,
                    Mask(value, i.width))
    <3>1. m.bigEndian \in BOOLEAN /\ m.memorySize \in Nat /\ mem \in [Addresses(m) -> Byte]
      BY <2>4
    <3>2. AccessFault(m, i, address) = NoName
      BY <2>4
    <3>3. i.width \in AccessWidths /\ i.type = "i64" /\ ~i.signed
      BY <2>1
    <3>4. address \in Nat /\ value \in Int
      BY <2>1
    <3> HIDE DEF w
    <3> QED BY <3>1, <3>2, <3>3, <3>4, StoredInOrder
  <2> QED BY <2>3, <2>5
<1>6. /\ \A k \in 0..(Size(i) - 1) :
           pyMemory'[address + k] = Mask(w \div Pow2[ByteBits * Offset(Image, Size(i), k)], ByteBits)
      /\ LoadValue(Image, pyMemory', i, address) = w
  BY <1>3, <1>5 DEF WordInOrder
<1> HIDE DEF w
<1>7. \A k : Offset(Image, Size(i), k) = IF bigEndian' THEN Size(i) - 1 - k ELSE k
  BY <1>3 DEF Offset
<1>8. \A k \in 0..(Size(i) - 1) :
        pyMemory'[address + k]
          = Mask(w \div Pow2[ByteBits * (IF bigEndian' THEN Size(i) - 1 - k ELSE k)], ByteBits)
  BY <1>6, <1>7
<1> QED BY <1>3, <1>6, <1>8 DEF GuestByteOrder, w

LEMMA OpOfStep ==
  /\ Load => last'.op = "load"
  /\ Store => last'.op = "store"
  /\ EvalBinop => last'.op = "binop"
  /\ EvalCompare => last'.op = "compare"
  /\ EvalCast => last'.op = "cast"
  /\ EvalDivrem => last'.op = "divrem"
<1>1. Load => last'.op = "load"
  BY DEF Load
<1>2. Store => last'.op = "store"
  BY DEF Store
<1>3. EvalBinop => last'.op = "binop"
  BY DEF EvalBinop
<1>4. EvalCompare => last'.op = "compare"
  BY DEF EvalCompare
<1>5. EvalCast => last'.op = "cast"
  BY DEF EvalCast
<1>6. EvalDivrem => last'.op = "divrem"
  BY DEF EvalDivrem
<1> QED BY <1>1, <1>2, <1>3, <1>4, <1>5, <1>6

(* A stored word lies in the guest's byte order and is loaded again. *)
THEOREM WordsLieInGuestOrder == BackEndsSpec => []GuestByteOrder
<1>1. BackEndsInit => GuestByteOrder
  BY DEF BackEndsInit, GuestByteOrder, LastStore, None
<1>2. SameState /\ GuestByteOrder /\ [BackEndsNext]_backEndVars => GuestByteOrder'
  <2>1. SUFFICES ASSUME SameState, GuestByteOrder, [BackEndsNext]_backEndVars PROVE GuestByteOrder'
    OBVIOUS
  <2>2. CASE Store
    BY <2>1, <2>2, StoreInOrder
  <2>3. CASE Load \/ EvalBinop \/ EvalCompare \/ EvalCast \/ EvalDivrem
    <3>1. last'.op # "store"
      BY <2>3, OpOfStep
    <3> QED BY <3>1 DEF GuestByteOrder, LastStore
  <2>4. CASE UNCHANGED backEndVars
    BY <2>1, <2>4 DEF GuestByteOrder, LastStore, backEndVars, memories, Image
  <2> QED BY <2>1, <2>2, <2>3, <2>4 DEF BackEndsNext
<1> QED BY <1>1, <1>2, SameStateInductive, PTL DEF BackEndsSpec

----------------------------------------------------------------------------
(* The divisions.                                                          *)

DrawnDivision ==
  last.op = "divrem" =>
    last.type \in AllTypes /\ last.a \in Patterns(last.type) /\ last.b \in Patterns(last.type)

(* Quotient and remainder fit together, whatever the width and operands.   *)
THEOREM DivisionsFitTogether == BackEndsSpec => []DivisionIdentity
<1>1. BackEndsInit => DrawnDivision
  BY DEF BackEndsInit, DrawnDivision, None
<1>2. DrawnDivision /\ [BackEndsNext]_backEndVars => DrawnDivision'
  <2>1. SUFFICES ASSUME DrawnDivision, [BackEndsNext]_backEndVars PROVE DrawnDivision'
    OBVIOUS
  <2>2. CASE EvalDivrem
    <3>1. PICK t \in AllTypes, kind \in DivremKinds : \E a, b \in Patterns(t) :
            last' = [op |-> "divrem", kind |-> kind, type |-> t, a |-> a, b |-> b]
      BY <2>2 DEF EvalDivrem
    <3> QED BY <3>1 DEF DrawnDivision, Patterns
  <2>3. CASE Load \/ Store \/ EvalBinop \/ EvalCompare \/ EvalCast
    <3>1. last'.op # "divrem"
      BY <2>3, OpOfStep
    <3> QED BY <3>1 DEF DrawnDivision
  <2>4. CASE UNCHANGED backEndVars
    BY <2>1, <2>4 DEF DrawnDivision, backEndVars, Patterns
  <2> QED BY <2>1, <2>2, <2>3, <2>4 DEF BackEndsNext
<1>3. DrawnDivision => DivisionIdentity
  <2>1. SUFFICES ASSUME DrawnDivision, last.op = "divrem", last.b # 0 PROVE DivisionIdentity
    BY DEF DivisionIdentity
  <2> DEFINE n == TypeBits[last.type]
  <2>2. /\ n \in Positive /\ last.a \in Pattern(n) /\ last.b \in Pattern(n)
    BY <2>1, DrawnPatterns DEF DrawnDivision
  <2> HIDE DEF n
  <2>3. DivisionLaw(n, last.a, last.b)
    BY <2>1, <2>2, DivisionsAreTotal
  <2> QED BY <2>3 DEF DivisionLaw, DivisionIdentity, n
<1> QED BY <1>1, <1>2, <1>3, PTL DEF BackEndsSpec

----------------------------------------------------------------------------
(* The layout of v: one slot for each value of a function, of one type.    *)

(* A slot is a parameter's or an instruction's. *)
LEMMA LayoutOrigin ==
  ASSUME NEW f, NEW d \in Layout(f)
  PROVE  \/ \E i \in DOMAIN f.params : d = <<f.params[i].id, f.params[i].type>>
         \/ \E b \in DOMAIN f.blocks : \E j \in DOMAIN f.blocks[b].insns :
              /\ f.blocks[b].insns[j].result # NoName
              /\ d = <<f.blocks[b].insns[j].result, f.blocks[b].insns[j].type>>
<1>1. CASE d \in Params(f)
  BY <1>1 DEF Params, Elements
<1>2. CASE d \in Results(f)
  <2>1. PICK b \in DOMAIN f.blocks : d \in ResultsBefore(f.blocks[b], Len(f.blocks[b].insns) + 1)
    BY <1>2 DEF Results, Elements
  <2>2. \E j \in DOMAIN f.blocks[b].insns :
          /\ j < Len(f.blocks[b].insns) + 1 /\ f.blocks[b].insns[j].result # NoName
          /\ d = <<f.blocks[b].insns[j].result, f.blocks[b].insns[j].type>>
    BY <2>1, ComputedEarlier
  <2> QED BY <2>2
<1> QED BY <1>1, <1>2 DEF Layout

(* Parameters and results are unique, so a name has one type. *)
LEMMA LayoutType ==
  ASSUME NEW m, NEW f, FunctionOK(m, f), NEW n, NEW t, NEW u,
         <<n, t>> \in Layout(f), <<n, u>> \in Layout(f)
  PROVE  t = u
<1> DEFINE IsParam(v)  == \E i \in DOMAIN f.params : n = f.params[i].id /\ v = f.params[i].type
           IsResult(v) == \E b \in DOMAIN f.blocks : \E j \in DOMAIN f.blocks[b].insns :
                            /\ f.blocks[b].insns[j].result # NoName
                            /\ n = f.blocks[b].insns[j].result
                            /\ v = f.blocks[b].insns[j].type
<1>1. UniqueIds(f.params) /\ UniqueResults(f)
  BY DEF FunctionOK
<1>2. ASSUME NEW v, <<n, v>> \in Layout(f) PROVE IsParam(v) \/ IsResult(v)
  <2>1. \/ \E i \in DOMAIN f.params : <<n, v>> = <<f.params[i].id, f.params[i].type>>
        \/ \E b \in DOMAIN f.blocks : \E j \in DOMAIN f.blocks[b].insns :
             /\ f.blocks[b].insns[j].result # NoName
             /\ <<n, v>> = <<f.blocks[b].insns[j].result, f.blocks[b].insns[j].type>>
    BY <1>2, LayoutOrigin
  <2> QED BY <2>1
<1>3. ASSUME NEW v, NEW w, IsParam(v), IsParam(w) PROVE v = w
  BY <1>1, <1>3 DEF UniqueIds
<1>4. ASSUME NEW v, NEW w, IsParam(v), IsResult(w) PROVE FALSE
  <2>1. n \in Ids(f.params)
    BY <1>4 DEF Ids
  <2>2. PICK b \in DOMAIN f.blocks : \E j \in DOMAIN f.blocks[b].insns :
          f.blocks[b].insns[j].result # NoName /\ n = f.blocks[b].insns[j].result
    BY <1>4
  <2>3. PICK j \in DOMAIN f.blocks[b].insns :
          f.blocks[b].insns[j].result # NoName /\ n = f.blocks[b].insns[j].result
    BY <2>2
  <2> QED BY <1>1, <2>1, <2>3 DEF UniqueResults
<1>5. ASSUME NEW v, NEW w, IsResult(v), IsResult(w) PROVE v = w
  <2>1. PICK b \in DOMAIN f.blocks : \E j \in DOMAIN f.blocks[b].insns :
          /\ f.blocks[b].insns[j].result # NoName
          /\ n = f.blocks[b].insns[j].result /\ v = f.blocks[b].insns[j].type
    BY <1>5
  <2>2. PICK j \in DOMAIN f.blocks[b].insns :
          /\ f.blocks[b].insns[j].result # NoName
          /\ n = f.blocks[b].insns[j].result /\ v = f.blocks[b].insns[j].type
    BY <2>1
  <2>3. PICK c \in DOMAIN f.blocks : \E k \in DOMAIN f.blocks[c].insns :
          n = f.blocks[c].insns[k].result /\ w = f.blocks[c].insns[k].type
    BY <1>5
  <2>4. PICK k \in DOMAIN f.blocks[c].insns :
          n = f.blocks[c].insns[k].result /\ w = f.blocks[c].insns[k].type
    BY <2>3
  <2>5. b = c /\ j = k
    <3>1. \A x, y \in DOMAIN f.blocks :
            \A p \in DOMAIN f.blocks[x].insns, q \in DOMAIN f.blocks[y].insns :
              (/\ f.blocks[x].insns[p].result # NoName
               /\ f.blocks[x].insns[p].result = f.blocks[y].insns[q].result) => (x = y /\ p = q)
      BY <1>1 DEF UniqueResults
    <3> QED BY <2>2, <2>4, <3>1
  <2> QED BY <2>2, <2>4, <2>5
<1> HIDE DEF IsParam, IsResult
<1> QED BY <1>2, <1>3, <1>4, <1>5

(* A slot is a pair of a name and an integer type. *)
LEMMA LayoutPair ==
  ASSUME NEW f, FunctionShaped(f), NEW d \in Layout(f)
  PROVE  d = <<d[1], d[2]>> /\ d[2] \in IntTypes
<1>1. ASSUME NEW i \in DOMAIN f.params PROVE f.params[i].type \in IntTypes
  BY DEF FunctionShaped, Named, Elements
<1>2. ASSUME NEW b \in DOMAIN f.blocks, NEW j \in DOMAIN f.blocks[b].insns
      PROVE  f.blocks[b].insns[j].type \in IntTypes
  <2>1. f.blocks[b] \in Elements(f.blocks) /\ f.blocks[b].insns[j] \in Elements(f.blocks[b].insns)
    BY DEF Elements
  <2> QED BY <2>1 DEF FunctionShaped, InsnShaped
<1> QED BY <1>1, <1>2, LayoutOrigin

(* What is defined where a frame stands has a slot, *)
LEMMA DefinedInLayout ==
  ASSUME NEW f, FunctionShaped(f), NEW b \in DOMAIN f.blocks, NEW k,
         NEW d \in Defined(f, b, k)
  PROVE  d \in Layout(f)
<1> DEFINE block == f.blocks[b]
<1>1. CASE d \in Params(f)
  BY <1>1 DEF Layout
<1>2. CASE d \in ResultsBefore(block, k)
  <2>1. block \in Elements(f.blocks) /\ IsList(block.insns)
    BY DEF Elements, FunctionShaped
  <2>2. PICK j \in DOMAIN block.insns :
          block.insns[j].result # NoName /\ d = <<block.insns[j].result, block.insns[j].type>>
    BY <1>2, ComputedEarlier
  <2>3. Len(block.insns) \in Nat /\ j \in 1..Len(block.insns)
    BY <2>1, ListLen
  <2> HIDE DEF block
  <2>4. j < Len(block.insns) + 1
    BY <2>3
  <2>5. d \in ResultsBefore(block, Len(block.insns) + 1)
    BY <2>2, <2>4 DEF ResultsBefore
  <2> QED BY <2>1, <2>5 DEF Layout, Results
<1> QED BY <1>1, <1>2 DEF Defined

(* and so has the result of an instruction. *)
LEMMA ResultInLayout ==
  ASSUME NEW f, FunctionShaped(f), NEW b \in DOMAIN f.blocks,
         NEW j \in DOMAIN f.blocks[b].insns, f.blocks[b].insns[j].result # NoName
  PROVE  <<f.blocks[b].insns[j].result, f.blocks[b].insns[j].type>> \in Layout(f)
<1> DEFINE block == f.blocks[b]
<1>1. block \in Elements(f.blocks) /\ IsList(block.insns)
  BY DEF Elements, FunctionShaped
<1>2. Len(block.insns) \in Nat /\ j \in 1..Len(block.insns)
  BY <1>1, ListLen
<1>3. block.insns[j].result # NoName /\ j \in DOMAIN block.insns
  OBVIOUS
<1> HIDE DEF block
<1>4. j < Len(block.insns) + 1
  BY <1>2
<1>5. <<block.insns[j].result, block.insns[j].type>> \in ResultsBefore(block, Len(block.insns) + 1)
  BY <1>3, <1>4 DEF ResultsBefore
<1>6. <<block.insns[j].result, block.insns[j].type>> \in Layout(f)
  BY <1>1, <1>5 DEF Layout, Results
<1> QED BY <1>6 DEF block

(* value_layout gives each value its type. *)
LEMMA ValueTypeIs ==
  ASSUME NEW m, NEW f, FunctionOK(m, f), FunctionShaped(f), NEW n, NEW t, <<n, t>> \in Layout(f)
  PROVE  ValueType(f, n) = t
<1> DEFINE d == CHOOSE d \in Layout(f) : d[1] = n
<1>1. \E x \in Layout(f) : x[1] = n
  BY Zenon
<1>2. d \in Layout(f) /\ d[1] = n
  BY <1>1
<1> HIDE DEF d
<1>3. d = <<n, d[2]>>
  BY <1>2, LayoutPair
<1>4. d[2] = t
  BY <1>2, <1>3, LayoutType
<1> QED BY <1>4 DEF ValueType, d

----------------------------------------------------------------------------
(* A C function at work: where it stands and what its v holds.             *)

(* The block it is in, and the values it may read there. *)
Block(frame) == FnOf(frame).blocks[frame.blk]
Scope(frame) == Defined(FnOf(frame), frame.blk, frame.pc)

(* It stands at an instruction or at the terminator of a block. *)
Placed(frame) ==
  /\ frame.fn \in DOMAIN image.functions
  /\ frame.blk \in DOMAIN FnOf(frame).blocks
  /\ frame.pc \in 1..(Len(Block(frame).insns) + 1)

(* Each slot of its v holds a value of the type of the slot. *)
Filled(frame) ==
  /\ frame = Frame(frame.fn, frame.blk, frame.pc, frame.v)
  /\ DOMAIN frame.v = {d[1] : d \in Layout(FnOf(frame))}
  /\ \A d \in Layout(FnOf(frame)) : Fits(frame.v[d[1]], d[2])

SoundFrame(frame) == Placed(frame) /\ Filled(frame)

(* The image being run. *)
Translated == document \in Documents /\ Admissible(image)

(* A frame stands at code the validator accepted with what is in scope.    *)
LEMMA CodeHere ==
  ASSUME Translated, NEW frame, Placed(frame)
  PROVE  /\ FunctionOK(image, FnOf(frame)) /\ FunctionShaped(FnOf(frame))
         /\ IsList(FnOf(frame).blocks) /\ IsList(Block(frame).insns)
         /\ \/ /\ frame.pc \in DOMAIN Block(frame).insns
               /\ CodeOf(frame) = Block(frame).insns[frame.pc]
               /\ CodeOf(frame).op \in InsnOps /\ CodeOf(frame).op \notin TermOps
               /\ InsnShaped(CodeOf(frame)) /\ InsnOK(image, Scope(frame), CodeOf(frame))
            \/ /\ frame.pc = Len(Block(frame).insns) + 1
               /\ CodeOf(frame) = Block(frame).term
               /\ CodeOf(frame).op \in TermOps /\ CodeOf(frame).op \notin InsnOps
               /\ TermShaped(CodeOf(frame))
               /\ TermOK(image, FnOf(frame), Scope(frame), CodeOf(frame))
<1>1. WellShaped(image)
  BY DocumentsAssumption DEF Translated, image
<1> DEFINE m == image
<1>2. /\ WellShaped(m) /\ Admissible(m) /\ frame.fn \in DOMAIN m.functions
      /\ frame.blk \in DOMAIN m.functions[frame.fn].blocks
      /\ frame.pc \in 1..(Len(m.functions[frame.fn].blocks[frame.blk].insns) + 1)
  BY <1>1 DEF Translated, Placed, FnOf, Block
<1> HIDE DEF m
<1>3. LET f == m.functions[frame.fn]
          block == f.blocks[frame.blk]
          code == CodeAt(block, frame.pc)
      IN  /\ FunctionOK(m, f) /\ FunctionShaped(f)
          /\ IsList(f.blocks) /\ IsList(block.insns)
          /\ \/ /\ frame.pc \in DOMAIN block.insns /\ code = block.insns[frame.pc]
                /\ code.op \in InsnOps /\ code.op \notin TermOps
                /\ InsnShaped(code) /\ InsnOK(m, Defined(f, frame.blk, frame.pc), code)
             \/ /\ frame.pc = Len(block.insns) + 1 /\ code = block.term
                /\ code.op \in TermOps /\ code.op \notin InsnOps
                /\ TermShaped(code) /\ TermOK(m, f, Defined(f, frame.blk, frame.pc), code)
  BY <1>2, CodeAccepted
<1> QED BY <1>3 DEF m, FnOf, Block, Scope, CodeOf

(* Moving on in a block. *)
LEMMA NextPlace ==
  ASSUME Translated, NEW frame, Placed(frame), CodeOf(frame).op \in InsnOps,
         NEW new, new.fn = frame.fn, new.blk = frame.blk, new.pc = frame.pc + 1
  PROVE  Placed(new) /\ FnOf(new) = FnOf(frame) /\ Block(new) = Block(frame)
<1>1. frame.pc \in DOMAIN Block(frame).insns /\ IsList(Block(frame).insns)
  BY CodeHere
<1> DEFINE len == Len(Block(frame).insns)
<1>2. frame.pc \in 1..len /\ len \in Nat
  BY <1>1, ListLen
<1> HIDE DEF len
<1>3. frame.pc + 1 \in 1..(len + 1)
  BY <1>2
<1>4. FnOf(new) = FnOf(frame) /\ Block(new) = Block(frame)
  BY DEF FnOf, Block
<1> QED BY <1>3, <1>4 DEF Placed, len

(* Past an instruction without a result, *)
LEMMA AdvancedSound ==
  ASSUME Translated, NEW frame, SoundFrame(frame), CodeOf(frame).op \in InsnOps
  PROVE  SoundFrame(Advanced(frame)) /\ Advanced(frame).fn = frame.fn
<1> DEFINE new == Advanced(frame)
<1>1. /\ new = Frame(frame.fn, frame.blk, frame.pc + 1, frame.v)
      /\ new.fn = frame.fn /\ new.blk = frame.blk /\ new.pc = frame.pc + 1 /\ new.v = frame.v
  BY DEF Advanced, Frame
<1> HIDE DEF new
<1>2. Placed(new) /\ FnOf(new) = FnOf(frame)
  BY <1>1, NextPlace DEF SoundFrame
<1> QED BY <1>1, <1>2 DEF SoundFrame, Filled, new

(* and past one that has: its slot holds the masked value. *)
LEMMA AssignedSlot ==
  ASSUME Translated, NEW frame, SoundFrame(frame), CodeOf(frame).op \in InsnOps,
         CodeOf(frame).result # NoName, NEW x
  PROVE  LET code == CodeOf(frame)
             new  == Assigned(frame, code, x)
         IN  /\ new = Frame(frame.fn, frame.blk, frame.pc + 1, new.v)
             /\ new.fn = frame.fn /\ new.blk = frame.blk /\ new.pc = frame.pc + 1
             /\ <<code.result, code.type>> \in Layout(FnOf(frame))
             /\ code.result \in DOMAIN frame.v
             /\ DOMAIN new.v = DOMAIN frame.v
             /\ new.v[code.result] = Mask(x, TypeBits[code.type])
             /\ \A n \in DOMAIN frame.v : n # code.result => new.v[n] = frame.v[n]
<1> DEFINE code == CodeOf(frame)
           new  == Assigned(frame, code, x)
           w    == Mask(x, TypeBits[code.type])
           v    == [frame.v EXCEPT ![code.result] = w]
<1>1. <<code.result, code.type>> \in Layout(FnOf(frame))
  <2>1. /\ frame.pc \in DOMAIN Block(frame).insns /\ code = Block(frame).insns[frame.pc]
        /\ FunctionShaped(FnOf(frame)) /\ frame.blk \in DOMAIN FnOf(frame).blocks
    BY CodeHere DEF SoundFrame, Placed
  <2> QED BY <2>1, ResultInLayout DEF Block
<1>2. code.result \in DOMAIN frame.v
  BY <1>1 DEF SoundFrame, Filled
<1>3. new = Frame(frame.fn, frame.blk, frame.pc + 1, v)
  <2>1. frame = [fn |-> frame.fn, blk |-> frame.blk, pc |-> frame.pc, v |-> frame.v]
    BY DEF SoundFrame, Filled, Frame
  <2> HIDE DEF w
  <2>2. [frame EXCEPT !.v[code.result] = w]
          = [fn |-> frame.fn, blk |-> frame.blk, pc |-> frame.pc, v |-> v]
    BY <2>1
  <2>3. new = Advanced([frame EXCEPT !.v[code.result] = w])
    BY DEF Assigned, w
  <2> HIDE DEF new, v
  <2> QED BY <2>2, <2>3 DEF Advanced, Frame
<1> HIDE DEF w, new
<1>4. DOMAIN v = DOMAIN frame.v /\ v[code.result] = w
      /\ \A n \in DOMAIN frame.v : n # code.result => v[n] = frame.v[n]
  BY <1>2
<1> HIDE DEF v
<1>5. /\ new.fn = frame.fn /\ new.blk = frame.blk /\ new.pc = frame.pc + 1 /\ new.v = v
  BY <1>3 DEF Frame
<1> QED BY <1>1, <1>2, <1>3, <1>4, <1>5 DEF new, w

(* so that the frame stays sound; *)
LEMMA AssignedSound ==
  ASSUME Translated, NEW frame, SoundFrame(frame), CodeOf(frame).op \in InsnOps,
         CodeOf(frame).result # NoName, NEW x \in Int
  PROVE  /\ SoundFrame(Assigned(frame, CodeOf(frame), x))
         /\ Assigned(frame, CodeOf(frame), x).fn = frame.fn
<1> DEFINE code == CodeOf(frame)
           new  == Assigned(frame, code, x)
           f    == FnOf(frame)
<1>1. /\ new = Frame(frame.fn, frame.blk, frame.pc + 1, new.v)
      /\ new.fn = frame.fn /\ new.blk = frame.blk /\ new.pc = frame.pc + 1
      /\ <<code.result, code.type>> \in Layout(f)
      /\ DOMAIN new.v = DOMAIN frame.v
      /\ new.v[code.result] = Mask(x, TypeBits[code.type])
      /\ \A n \in DOMAIN frame.v : n # code.result => new.v[n] = frame.v[n]
  BY AssignedSlot
<1> HIDE DEF new
<1>2. Placed(new) /\ FnOf(new) = f
  BY <1>1, NextPlace DEF SoundFrame
<1>3. FunctionOK(image, f) /\ FunctionShaped(f)
  BY CodeHere DEF SoundFrame
<1>4. code.type \in IntTypes
  <2>1. \A d : d = <<code.result, code.type>> => d[2] = code.type
    OBVIOUS
  <2> QED BY <1>1, <1>3, <2>1, LayoutPair
<1>5. Fits(Mask(x, TypeBits[code.type]), code.type)
  BY <1>4, MaskedFits
<1>6. ASSUME NEW d \in Layout(f) PROVE Fits(new.v[d[1]], d[2])
  <2>1. d = <<d[1], d[2]>>
    BY <1>3, LayoutPair
  <2>2. d[1] = code.result => d[2] = code.type
    BY <1>1, <1>3, <2>1, LayoutType
  <2>3. d[1] # code.result => new.v[d[1]] = frame.v[d[1]]
    BY <1>1 DEF SoundFrame, Filled
  <2>4. Fits(frame.v[d[1]], d[2])
    BY DEF SoundFrame, Filled
  <2> QED BY <1>1, <1>5, <2>2, <2>3, <2>4
<1> HIDE DEF f, code
<1>7. Filled(new)
  BY <1>1, <1>2, <1>6 DEF Filled, SoundFrame, f
<1> QED BY <1>1, <1>2, <1>7 DEF SoundFrame, new, code

(* at a label, *)
LEMMA LabelSound ==
  ASSUME Translated, NEW frame, SoundFrame(frame), NEW b \in DOMAIN FnOf(frame).blocks
  PROVE  SoundFrame(Label(frame, b)) /\ Label(frame, b).fn = frame.fn
<1> DEFINE new == Label(frame, b)
<1>1. /\ new = Frame(frame.fn, b, 1, frame.v)
      /\ new.fn = frame.fn /\ new.blk = b /\ new.pc = 1 /\ new.v = frame.v
  BY DEF Label, Frame
<1> HIDE DEF new
<1>2. FnOf(new) = FnOf(frame) /\ Block(new) = FnOf(frame).blocks[b]
  BY <1>1 DEF FnOf, Block
<1>3. FunctionShaped(FnOf(frame))
  BY CodeHere DEF SoundFrame
<1>4. IsList(FnOf(frame).blocks[b].insns)
  BY <1>3 DEF FunctionShaped, Elements
<1>5. Len(Block(new).insns) \in Nat
  BY <1>2, <1>4, ListLen
<1>6. Placed(new)
  BY <1>1, <1>2, <1>5 DEF Placed, SoundFrame
<1> QED BY <1>1, <1>2, <1>6 DEF SoundFrame, Filled, new

(* and at the start of a function. *)
LEMMA EntrySound ==
  ASSUME Translated, NEW n \in DOMAIN image.functions, NEW args,
         \A k \in DOMAIN image.functions[n].params : args[k] \in Int
  PROVE  SoundFrame(Frame(n, 1, 1, EntryValues(image.functions[n], args)))
<1> DEFINE f   == image.functions[n]
           v   == EntryValues(f, args)
           new == Frame(n, 1, 1, v)
<1>1. WellShaped(image) /\ FunctionOK(image, f)
  BY DocumentsAssumption DEF Translated, image, Admissible, ValidIR
<1>2. FunctionShaped(f)
  BY <1>1 DEF WellShaped, Elements
<1>3. /\ new.fn = n /\ new.blk = 1 /\ new.pc = 1 /\ new.v = v
      /\ new = Frame(new.fn, new.blk, new.pc, new.v)
  BY DEF Frame
<1>4. \A k \in DOMAIN f.params : args[k] \in Int
  OBVIOUS
<1>5. DOMAIN v = {d[1] : d \in Layout(f)}
  BY DEF EntryValues
<1>6. ASSUME NEW d \in Layout(f) PROVE Fits(v[d[1]], d[2])
  <2>1. d = <<d[1], d[2]>> /\ d[2] \in IntTypes
    BY <1>2, LayoutPair
  <2>2. CASE d[1] \in Ids(f.params)
    <3> DEFINE k == IndexOf(f.params, d[1])
    <3>1. k \in DOMAIN f.params /\ f.params[k].id = d[1]
      BY <2>2, IndexOfId
    <3>2. v[d[1]] = Mask(args[k], TypeBits[f.params[k].type])
      BY <1>5, <2>2 DEF EntryValues
    <3>3. <<f.params[k].id, f.params[k].type>> \in Layout(f)
      BY <3>1 DEF Layout, Params, Elements
    <3> HIDE DEF k, f, v
    <3>4. f.params[k].type = d[2]
      BY <1>1, <2>1, <3>1, <3>3, LayoutType
    <3> QED BY <1>4, <2>1, <3>1, <3>2, <3>4, MaskedFits
  <2>3. CASE d[1] \notin Ids(f.params)
    <3>1. v[d[1]] = 0
      BY <1>5, <2>3 DEF EntryValues
    <3>2. TypeBits[d[2]] \in Nat
      BY <2>1, TypeWidths DEF Positive
    <3>3. Pow2[TypeBits[d[2]]] \in Positive
      BY <3>2, Power
    <3> QED BY <3>1, <3>3 DEF Fits, Positive
  <2> QED BY <2>2, <2>3
<1>7. FnOf(new) = f /\ Block(new) = f.blocks[1]
  BY <1>3 DEF FnOf, Block
<1>8. 1 \in DOMAIN f.blocks
  BY <1>2, ListLen DEF FunctionShaped
<1>9. Len(f.blocks[1].insns) \in Nat
  BY <1>2, <1>8, ListLen DEF FunctionShaped, Elements
<1> HIDE DEF new, v, f
<1>10. Placed(new)
  BY <1>3, <1>7, <1>8, <1>9 DEF Placed
<1>11. Filled(new)
  BY <1>3, <1>5, <1>6, <1>7 DEF Filled
<1> QED BY <1>10, <1>11 DEF SoundFrame, new, v, f

----------------------------------------------------------------------------
(* The reference executor of AOTImplementsCore has its own copies of the   *)
(* constant operators, and they are the same operators.                    *)

(* Types, names and powers of two, *)
LEMMA CoreTypes ==
  /\ Core!TypeBits = TypeBits /\ Core!IntTypes = IntTypes /\ Core!NoName = NoName
  /\ Core!Pow2 = Pow2
BY DEF Core!TypeBits, TypeBits, Core!IntTypes, IntTypes, Core!NoName, NoName,
       Core!Pow2, Pow2

(* masks, *)
LEMMA CoreMask == \A x, b : Core!Mask(x, b) = Mask(x, b)
BY DEF Core!Mask, Mask, Core!Pow2, Pow2

(* lists, *)
LEMMA CoreElements == \A s : Core!Elements(s) = Elements(s) /\ Core!Ids(s) = Ids(s)
BY DEF Core!Elements, Elements, Core!Ids, Ids

(* named elements, *)
LEMMA CoreIndexOf == \A s, id : Core!IndexOf(s, id) = IndexOf(s, id)
BY DEF Core!IndexOf, IndexOf

(* what a module declares, *)
LEMMA CoreLookup ==
  /\ \A m, x : Core!SlotType(m, x) = SlotType(m, x)
  /\ \A m, x : Core!Callee(m, x) = Callee(m, x)
  /\ \A x, k : Core!CodeAt(x, k) = CodeAt(x, k)
BY CoreIndexOf DEF Core!SlotType, SlotType, Core!Callee, Callee, Core!CodeAt, CodeAt

(* the integer operations, *)
LEMMA CoreArith ==
  /\ \A kind, b, n : Core!ShiftFault(kind, b, n) = ShiftFault(kind, b, n)
  /\ \A kind, a, b, n : Core!BinopV11(kind, a, b, n) = BinopV11(kind, a, b, n)
  /\ \A kind, a, b, n : Core!Compare(kind, a, b, n) = Compare(kind, a, b, n)
  /\ \A kind, a, b, n : Core!Cast(kind, a, b, n) = Cast(kind, a, b, n)
<1>1. \A kind, b, n : Core!ShiftFault(kind, b, n) = ShiftFault(kind, b, n)
  BY DEF Core!ShiftFault, ShiftFault, Core!ShiftKinds, ShiftKinds
<1>2. ASSUME NEW kind, NEW a, NEW b, NEW n
      PROVE  Core!BinopV11(kind, a, b, n) = BinopV11(kind, a, b, n)
  BY DEF Core!BinopV11, BinopV11, Core!DivremKinds, DivremKinds, Core!DivremResult,
         DivremResult,
     Core!DivremCases, DivremCases, Core!PySignedDivrem, PySignedDivrem,
     Core!SignedValue, SignedValue,
     Core!Mask, Mask, Core!Pow2, Pow2, Core!Binop, Binop, Core!Logic, Logic,
     Core!Bit, Bit, Core!BitOf, BitOf,
     Core!Abs, Abs
<1>3. ASSUME NEW kind, NEW a, NEW b, NEW n PROVE Core!Compare(kind, a, b, n) = Compare(kind, a, b, n)
  BY DEF Core!Compare, Compare, Core!Holds, Holds, Core!SignedValue, SignedValue,
     Core!Mask, Mask, Core!Pow2, Pow2
<1>4. ASSUME NEW kind, NEW a, NEW b, NEW n PROVE Core!Cast(kind, a, b, n) = Cast(kind, a, b, n)
  BY DEF Core!Cast, Cast, Core!SignedValue, SignedValue,
     Core!Mask, Mask, Core!Pow2, Pow2
<1> QED BY <1>1, <1>2, <1>3, <1>4

(* the accesses to memory, *)
LEMMA CoreMemory ==
  /\ \A m : Core!Addresses(m) = Addresses(m) /\ Core!InitialMemory(m) = InitialMemory(m)
  /\ \A m, i, a : Core!AccessFault(m, i, a) = AccessFault(m, i, a)
  /\ \A m, mem, i, a : Core!LoadValue(m, mem, i, a) = LoadValue(m, mem, i, a)
  /\ \A m, mem, i, a, v : Core!Stored(m, mem, i, a, v) = Stored(m, mem, i, a, v)
<1>1. ASSUME NEW m PROVE Core!Addresses(m) = Addresses(m) /\ Core!InitialMemory(m) = InitialMemory(m)
  <2>1. Core!Addresses(m) = Addresses(m) BY DEF Core!Addresses, Addresses
  <2>2. Core!InitialMemory(m) = InitialMemory(m)
    BY DEF Core!InitialMemory, InitialMemory, Core!Addresses, Addresses,
           Core!Elements, Elements, Core!SegmentEnd, SegmentEnd
  <2> QED BY <2>1, <2>2
<1>2. ASSUME NEW m, NEW i, NEW a PROVE Core!AccessFault(m, i, a) = AccessFault(m, i, a)
  BY DEF Core!AccessFault, AccessFault, Core!Misaligned, Misaligned,
         Core!OutOfBounds, OutOfBounds, Core!Size, Size, Core!NoName, NoName
<1>3. ASSUME NEW m, NEW mem, NEW i, NEW a PROVE Core!LoadValue(m, mem, i, a) = LoadValue(m, mem, i, a)
  BY DEF Core!LoadValue, LoadValue, Core!RawValue, RawValue, Core!Offset, Offset,
         Core!Size, Size, Core!SignedValue, SignedValue, Core!Mask, Mask, Core!Pow2,
         Pow2, Core!TypeBits, TypeBits, Core!IntTypes, IntTypes
<1>4. ASSUME NEW m, NEW mem, NEW i, NEW a, NEW v PROVE Core!Stored(m, mem, i, a, v) = Stored(m, mem, i, a, v)
  BY DEF Core!Stored, Stored, Core!Offset, Offset, Core!Size, Size, Core!Pow2, Pow2
<1> QED BY <1>1, <1>2, <1>3, <1>4

(* and what the loader admits. *)
LEMMA CoreAdmissible == \A m : Core!Admissible(m) = Admissible(m)
<1>1. ASSUME NEW m PROVE Core!Admissible(m) = Admissible(m)
  BY DEF Core!Admissible, Admissible, Core!ValidIR, ValidIR, Core!SupportedFeatures,
         SupportedFeatures, Core!DivremFeature, DivremFeature,
   Core!DivremDeclared, DivremDeclared, Core!DivremKinds, DivremKinds,
   Core!UniqueIds, UniqueIds, Core!FunctionOK, FunctionOK,
   Core!UniqueResults, UniqueResults, Core!BlockOK, BlockOK, Core!Fits, Fits,
   Core!TypeBits, TypeBits, Core!IntTypes, IntTypes, Core!Pow2, Pow2,
   Core!InsnOK, InsnOK, Core!TermOK, TermOK, Core!Defined, Defined, Core!Params,
   Params, Core!ResultsBefore, ResultsBefore, Core!NoName, NoName,
   Core!Elements, Elements, Core!Ids, Ids, Core!IndexOf, IndexOf, Core!SlotType,
   SlotType, Core!Callee, Callee, Core!HasType, HasType, Core!HasSomeType,
   HasSomeType,
   Core!ConstOK, ConstOK, Core!ReadStateOK, ReadStateOK, Core!WriteStateOK,
   WriteStateOK, Core!BinopOK, BinopOK, Core!CompareOK, CompareOK, Core!CastOK,
   CastOK,
   Core!SelectOK, SelectOK, Core!LoadOK, LoadOK, Core!StoreOK, StoreOK,
   Core!CallOK, CallOK, Core!HostCallOK, HostCallOK, Core!Void, Void,
   Core!InitialStateOK, InitialStateOK, Core!SegmentsOK, SegmentsOK,
   Core!SegmentEnd, SegmentEnd
<1> QED BY <1>1

----------------------------------------------------------------------------
(* The call of the reference executor that a C function stands for.        *)

(* What is defined where the frame stands, with its value and type. *)
LEMMA EnvironmentIs ==
  ASSUME Translated, NEW frame, SoundFrame(frame)
  PROVE  /\ DOMAIN Environment(frame) = {d[1] : d \in Scope(frame)}
         /\ \A d \in Scope(frame) :
              /\ d = <<d[1], d[2]>> /\ d[2] \in IntTypes /\ d \in Layout(FnOf(frame))
              /\ Environment(frame)[d[1]] = [value |-> frame.v[d[1]], type |-> d[2]]
<1> DEFINE f == FnOf(frame)
           defined == Defined(f, frame.blk, frame.pc)
           Chosen(n) == CHOOSE d \in defined : d[1] = n
<1>1. FunctionOK(image, f) /\ FunctionShaped(f) /\ frame.blk \in DOMAIN f.blocks
  BY CodeHere DEF SoundFrame, Placed
<1>2. ASSUME NEW d \in defined
      PROVE  d = <<d[1], d[2]>> /\ d[2] \in IntTypes /\ d \in Layout(f)
  BY <1>1, DefinedInLayout, LayoutPair
<1>3. ASSUME NEW d \in defined PROVE Chosen(d[1]) = d
  <2>1. Chosen(d[1]) \in defined /\ Chosen(d[1])[1] = d[1]
    OBVIOUS
  <2> DEFINE e == Chosen(d[1])
  <2>2. e \in defined /\ e[1] = d[1]
    BY <2>1
  <2> HIDE DEF e, f, defined
  <2>3. e = <<d[1], e[2]>> /\ d = <<d[1], d[2]>> /\ e \in Layout(f) /\ d \in Layout(f)
    BY <1>2, <2>2
  <2>4. e[2] = d[2]
    BY <1>1, <2>3, LayoutType
  <2>5. e = d
    BY <2>3, <2>4
  <2> QED BY <2>5 DEF e
<1>4. Environment(frame) = [n \in {d[1] : d \in defined} |->
                              [value |-> frame.v[n], type |-> Chosen(n)[2]]]
  BY DEF Environment
<1> HIDE DEF f, defined, Chosen
<1>5. ASSUME NEW d \in defined
      PROVE  Environment(frame)[d[1]] = [value |-> frame.v[d[1]], type |-> d[2]]
  BY <1>3, <1>4
<1> QED BY <1>2, <1>4, <1>5 DEF Scope, f, defined

(* A function is what its values make it. *)
IsFunction(g) == g = [x \in DOMAIN g |-> g[x]]

(* Two environments with the same definitions and values are the same. *)
LEMMA SameEnvironment ==
  ASSUME Translated, NEW frame, SoundFrame(frame), NEW vals,
         IsFunction(vals), DOMAIN vals = {d[1] : d \in Scope(frame)},
         \A d \in Scope(frame) : vals[d[1]] = [value |-> frame.v[d[1]], type |-> d[2]]
  PROVE  Environment(frame) = vals
<1>1. Environment(frame) = [n \in DOMAIN Environment(frame) |-> Environment(frame)[n]]
  BY DEF Environment
<1>2. vals = [n \in DOMAIN vals |-> vals[n]]
  BY DEF IsFunction
<1>3. DOMAIN Environment(frame) = DOMAIN vals
  BY EnvironmentIs
<1>4. ASSUME NEW n \in DOMAIN vals PROVE Environment(frame)[n] = vals[n]
  <2>1. PICK d \in Scope(frame) : n = d[1]
    OBVIOUS
  <2>2. Environment(frame)[d[1]] = [value |-> frame.v[d[1]], type |-> d[2]]
    BY EnvironmentIs
  <2> QED BY <2>1, <2>2
<1> QED BY <1>1, <1>2, <1>3, <1>4

(* An instruction without a result changes no value, *)
LEMMA ScopeAdvances ==
  ASSUME Translated, NEW frame, SoundFrame(frame), CodeOf(frame).op \in InsnOps,
         NEW new, new.fn = frame.fn, new.blk = frame.blk, new.pc = frame.pc + 1
  PROVE  Scope(new) = Scope(frame) \cup
                        (IF CodeOf(frame).result = NoName THEN {}
                         ELSE {<<CodeOf(frame).result, CodeOf(frame).type>>})
<1> DEFINE block == Block(frame)
           k == frame.pc
<1>1. /\ IsList(block.insns) /\ k \in DOMAIN block.insns /\ CodeOf(frame) = block.insns[k]
  BY CodeHere DEF SoundFrame
<1> HIDE DEF block, k
<1>2. ResultsBefore(block, k + 1) =
        ResultsBefore(block, k) \cup
          (IF block.insns[k].result = NoName THEN {}
           ELSE {<<block.insns[k].result, block.insns[k].type>>})
  BY <1>1, OneMore
<1>3. FnOf(new) = FnOf(frame) /\ FnOf(frame).blocks[frame.blk] = block
  BY DEF FnOf, Block, block
<1>4. new.pc = k + 1 /\ frame.pc = k
  BY DEF k
<1> QED BY <1>1, <1>2, <1>3, <1>4 DEF Scope, Defined

(* so the call moves on as the C function does, *)
LEMMA AdvancedActivation ==
  ASSUME Translated, NEW frame, SoundFrame(frame), CodeOf(frame).op \in InsnOps,
         CodeOf(frame).result = NoName
  PROVE  Activation(Advanced(frame)) = Core!Advanced(Activation(frame))
<1> DEFINE new == Advanced(frame)
<1>1. new.fn = frame.fn /\ new.blk = frame.blk /\ new.pc = frame.pc + 1 /\ new.v = frame.v
  BY DEF Advanced, Frame
<1>2. SoundFrame(new)
  BY AdvancedSound
<1> HIDE DEF new
<1>3. Scope(new) = Scope(frame)
  BY <1>1, ScopeAdvances
<1>4. Environment(new) = Environment(frame)
  <2> DEFINE vals == Environment(frame)
  <2>1. IsFunction(vals)
    BY DEF Environment, IsFunction
  <2>2. /\ DOMAIN vals = {d[1] : d \in Scope(frame)}
        /\ \A d \in Scope(frame) : vals[d[1]] = [value |-> frame.v[d[1]], type |-> d[2]]
    BY EnvironmentIs
  <2> HIDE DEF vals
  <2>3. /\ DOMAIN vals = {d[1] : d \in Scope(new)}
        /\ \A d \in Scope(new) : vals[d[1]] = [value |-> new.v[d[1]], type |-> d[2]]
    BY <1>1, <1>3, <2>2
  <2>4. Environment(new) = vals
    BY <1>2, <2>1, <2>3, SameEnvironment
  <2> QED BY <2>4 DEF vals
<1> QED BY <1>1, <1>4 DEF Activation, Core!Advanced, Core!Frame, new

(* one with a result defines it, *)
LEMMA AssignedActivation ==
  ASSUME Translated, NEW frame, SoundFrame(frame), CodeOf(frame).op \in InsnOps,
         CodeOf(frame).result # NoName, NEW x \in Int
  PROVE  Activation(Assigned(frame, CodeOf(frame), x))
           = Core!Assigned(Activation(frame), CodeOf(frame), x)
<1> DEFINE code == CodeOf(frame)
           new  == Assigned(frame, code, x)
           w    == Mask(x, TypeBits[code.type])
           old  == Environment(frame)
           vals == [n \in DOMAIN old \cup {code.result} |->
                      IF n = code.result THEN [value |-> w, type |-> code.type] ELSE old[n]]
<1>1. /\ new.fn = frame.fn /\ new.blk = frame.blk /\ new.pc = frame.pc + 1
      /\ DOMAIN new.v = DOMAIN frame.v
      /\ <<code.result, code.type>> \in Layout(FnOf(frame))
      /\ new.v[code.result] = w
      /\ \A n \in DOMAIN frame.v : n # code.result => new.v[n] = frame.v[n]
  BY AssignedSlot
<1>2. SoundFrame(new)
  BY AssignedSound
<1> HIDE DEF new, w
<1>3. Scope(new) = Scope(frame) \cup {<<code.result, code.type>>}
  BY <1>1, ScopeAdvances
<1> DEFINE pair == <<code.result, code.type>>
<1>4. pair[1] = code.result /\ pair[2] = code.type
  OBVIOUS
<1>5. /\ DOMAIN old = {d[1] : d \in Scope(frame)}
      /\ \A d \in Scope(frame) :
              /\ d = <<d[1], d[2]>> /\ d[2] \in IntTypes /\ d \in Layout(FnOf(frame))
              /\ old[d[1]] = [value |-> frame.v[d[1]], type |-> d[2]]
  BY EnvironmentIs
<1>6. FunctionOK(image, FnOf(frame))
  BY CodeHere DEF SoundFrame
<1> HIDE DEF old
<1>7. IsFunction(vals) /\ DOMAIN vals = DOMAIN old \cup {code.result}
  BY DEF IsFunction
<1>8. DOMAIN vals = {d[1] : d \in Scope(new)}
  <2> HIDE DEF vals, pair
  <2>1. Scope(new) = Scope(frame) \cup {pair}
    BY <1>3 DEF pair
  <2> QED BY <1>4, <1>5, <1>7, <2>1
<1>9. ASSUME NEW d \in Scope(new)
      PROVE  vals[d[1]] = [value |-> new.v[d[1]], type |-> d[2]]
  <2>1. CASE d[1] = code.result
    <3>1. d[2] = code.type
      <4>1. d = pair => d[2] = code.type
        OBVIOUS
      <4>2. d \in Scope(frame) => d = <<code.result, d[2]>> /\ d \in Layout(FnOf(frame))
        BY <1>5, <2>1
      <4>3. d \in Scope(frame) => d[2] = code.type
        BY <1>1, <1>6, <4>2, LayoutType
      <4> HIDE DEF pair
      <4> QED BY <1>3, <4>1, <4>3 DEF pair
    <3>2. vals[code.result] = [value |-> w, type |-> code.type]
      OBVIOUS
    <3> QED BY <1>1, <2>1, <3>1, <3>2
  <2>2. CASE d[1] # code.result
    <3>1. d # pair
      BY <1>4, <2>2
    <3>2. d \in Scope(frame)
      BY <1>3, <3>1
    <3>3. d[1] \in DOMAIN old /\ d[1] \in DOMAIN frame.v
      BY <1>5, <3>2 DEF SoundFrame, Filled
    <3>4. vals[d[1]] = old[d[1]]
      BY <2>2, <3>3
    <3> QED BY <1>1, <1>5, <2>2, <3>2, <3>3, <3>4
  <2> QED BY <2>1, <2>2
<1> HIDE DEF vals
<1>10. Environment(new) = vals
  BY <1>2, <1>7, <1>8, <1>9, SameEnvironment
<1>11. Core!Mask(x, Core!TypeBits[code.type]) = w
  BY CoreTypes, CoreMask DEF w
<1>12. Core!Assigned(Activation(frame), code, x)
         = [fn |-> frame.fn, blk |-> frame.blk, pc |-> frame.pc + 1, vals |-> vals]
  BY <1>11 DEF Core!Assigned, Core!With, Core!Frame, Activation, vals, old
<1> QED BY <1>1, <1>10, <1>12 DEF Activation, new

(* a label leaves no value but parameters, *)
LEMMA LabelActivation ==
  ASSUME Translated, NEW frame, SoundFrame(frame), NEW b \in DOMAIN FnOf(frame).blocks,
         b = 1 => FnOf(frame).params = <<>>
  PROVE  Activation(Label(frame, b)) = Core!BlockFrame(Activation(frame), b)
<1> DEFINE new == Label(frame, b)
<1>1. new.fn = frame.fn /\ new.blk = b /\ new.pc = 1 /\ new.v = frame.v
  BY DEF Label, Frame
<1>2. SoundFrame(new)
  BY LabelSound
<1> HIDE DEF new
<1>3. Scope(new) = {}
  <2>1. FnOf(new) = FnOf(frame)
    BY <1>1 DEF FnOf
  <2>2. IsList(Block(new).insns)
    BY <1>2, CodeHere DEF SoundFrame
  <2>3. ResultsBefore(Block(new), 1) = {}
    BY <2>2, NothingBefore
  <2>4. b = 1 => Params(FnOf(frame)) = {}
    BY EmptySeq DEF Params, Elements
  <2> QED BY <1>1, <2>1, <2>3, <2>4 DEF Scope, Defined, Block
<1>4. Environment(new) = Core!NoValues
  <2>1. IsFunction(Core!NoValues) /\ DOMAIN Core!NoValues = {}
    BY DEF Core!NoValues, IsFunction
  <2> QED BY <1>2, <1>3, <2>1, SameEnvironment
<1> QED BY <1>1, <1>4 DEF Activation, Core!BlockFrame, Core!Frame, new

(* and a function starts with its parameters. *)
LEMMA EntryActivation ==
  ASSUME Translated, NEW n \in DOMAIN image.functions, NEW args,
         \A k \in DOMAIN image.functions[n].params : args[k] \in Int
  PROVE  Activation(Frame(n, 1, 1, EntryValues(image.functions[n], args)))
           = Core!EntryFrame(n, args)
<1> DEFINE f      == image.functions[n]
           params == f.params
           new    == Frame(n, 1, 1, EntryValues(f, args))
           Cell(k) == [value |-> Mask(args[k], TypeBits[params[k].type]), type |-> params[k].type]
           vals   == [p \in Ids(params) |-> Cell(IndexOf(params, p))]
<1>1. SoundFrame(new)
  BY EntrySound
<1>2. new.fn = n /\ new.blk = 1 /\ new.pc = 1 /\ new.v = EntryValues(f, args)
  BY DEF Frame
<1> HIDE DEF new
<1>3. FunctionOK(image, f) /\ FnOf(new) = f
  BY <1>2 DEF Translated, Admissible, ValidIR, FnOf
<1> HIDE DEF f
<1>4. Scope(new) = Params(f)
  <2>1. IsList(Block(new).insns)
    BY <1>1, CodeHere DEF SoundFrame
  <2>2. ResultsBefore(Block(new), 1) = {}
    BY <2>1, NothingBefore
  <2> QED BY <1>2, <1>3, <2>2 DEF Scope, Defined, Block
<1>5. DOMAIN vals = {d[1] : d \in Scope(new)} /\ IsFunction(vals)
  <2>1. {d[1] : d \in Params(f)} = Ids(params)
    <3> DEFINE Pair(p) == <<p.id, p.type>>
    <3>1. \A p : Pair(p)[1] = p.id
      OBVIOUS
    <3>2. Params(f) = {Pair(p) : p \in Elements(params)}
      BY DEF Params
    <3> HIDE DEF Pair, params
    <3>3. {d[1] : d \in Params(f)} = {p.id : p \in Elements(params)}
      BY <3>1, <3>2
    <3> QED BY <3>3 DEF Elements, Ids
  <2> QED BY <1>4, <2>1 DEF IsFunction
<1>6. ASSUME NEW d \in Scope(new)
      PROVE  vals[d[1]] = [value |-> new.v[d[1]], type |-> d[2]]
  <2>1. d \in Params(f)
    BY <1>4
  <2>2. PICK j \in DOMAIN params : d = <<params[j].id, params[j].type>>
    BY <2>1 DEF Params, Elements
  <2>3. d[1] = params[j].id /\ d[2] = params[j].type /\ d[1] \in Ids(params)
    BY <2>2 DEF Ids
  <2> DEFINE k == IndexOf(params, d[1])
  <2>4. k \in DOMAIN params /\ params[k].id = d[1]
    BY <2>3, IndexOfId
  <2>5. k = j
    BY <1>3, <2>3, <2>4 DEF FunctionOK, UniqueIds
  <2>6. d[1] \in {e[1] : e \in Layout(f)}
    BY <2>1 DEF Layout
  <2>7. EntryValues(f, args)[d[1]] = Mask(args[k], TypeBits[params[k].type])
    BY <2>3, <2>6 DEF EntryValues
  <2>8. vals[d[1]] = Cell(k)
    BY <2>3
  <2> QED BY <1>2, <2>3, <2>5, <2>7, <2>8
<1> HIDE DEF vals
<1>7. Environment(new) = vals
  BY <1>1, <1>5, <1>6, SameEnvironment
<1>8. Core!EntryFrame(n, args) = [fn |-> n, blk |-> 1, pc |-> 1, vals |-> vals]
  BY CoreTypes, CoreMask, CoreElements, CoreIndexOf
     DEF Core!EntryFrame, Core!Frame, Core!image, image, vals, f
<1> QED BY <1>2, <1>7, <1>8 DEF Activation, new, f

----------------------------------------------------------------------------
(* A native module that runs, and the executor it stands for.              *)

(* The calls of the reference executor. *)
CoreStack == IF phase = "running" THEN [k \in DOMAIN frames |-> Activation(frames[k])]
             ELSE <<>>

(* A run in progress: C functions at work, none of them failed. *)
Live ==
  /\ phase = "running" /\ runs \in Nat \ {0} /\ ~failed
  /\ Translated
  /\ IsList(frames) /\ frames # <<>>
  /\ \A k \in 1..Len(frames) : SoundFrame(frames[k])

(* The function that runs stands at its code. *)
LEMMA TopSound ==
  ASSUME Live
  PROVE  SoundFrame(Top) /\ Len(frames) \in Nat \ {0}
BY ListLen DEF Live, Top

(* The executor's stack has one call for each C function. *)
LEMMA StackIs ==
  ASSUME Live
  PROVE  /\ IsList(CoreStack) /\ Len(CoreStack) = Len(frames)
         /\ \A k \in 1..Len(frames) : CoreStack[k] = Activation(frames[k])
<1>1. CoreStack = [k \in DOMAIN frames |-> CoreStack[k]]
  BY DEF Live, CoreStack
<1>2. IsList(frames) /\ DOMAIN frames = 1..Len(frames)
  BY ListLen DEF Live
<1> QED BY <1>1, <1>2, ListImage DEF Live, CoreStack

(* The executor runs the same code. *)
LEMMA CoreTop ==
  ASSUME Live
  PROVE  Core!Top = Activation(Top) /\ Core!Fn = Fn /\ Core!Code = Code
<1>1. Len(CoreStack) = Len(frames) /\ CoreStack[Len(frames)] = Activation(Top)
  BY StackIs, TopSound DEF Top
<1>2. Core!Top = Activation(Top)
  BY <1>1 DEF Core!Top, CoreStack
<1>3. Core!Top.fn = Top.fn /\ Core!Top.blk = Top.blk /\ Core!Top.pc = Top.pc
  BY <1>2 DEF Activation
<1> HIDE DEF Core!Top
<1>4. Core!Fn = Fn
  BY <1>3 DEF Core!Fn, Core!FnOf, Core!image, Fn, FnOf, image
<1>5. Core!Code = Code
  BY <1>3, CoreLookup DEF Core!Code, Core!CodeOf, Core!FnOf, Core!image, Code,
       CodeOf, FnOf, image
<1> QED BY <1>2, <1>4, <1>5

(* Every operand was given an integer type. *)
LEMMA ArgsTyped ==
  ASSUME Translated, NEW frame, Placed(frame), NEW a \in DOMAIN CodeOf(frame).args
  PROVE  \E t : HasType(Scope(frame), CodeOf(frame).args[a], t)
<1> DEFINE code == CodeOf(frame)
<1>1. IsList(code.args)
  BY CodeHere DEF InsnShaped, TermShaped, ArgsShaped
<1>2. Len(code.args) \in Nat /\ a \in 1..Len(code.args)
  BY <1>1, ListLen
<1>3. CASE code.op \in InsnOps
  <2>1. InsnShaped(code) /\ InsnOK(image, Scope(frame), code)
    BY <1>3, CodeHere
  <2>2. code.op \in CallOps => \E t : HasType(Scope(frame), code.args[a], t)
    BY <2>1 DEF InsnOK, CallOps, CallOK, HostCallOK, HasSomeType
  <2>3. code.op \notin CallOps => a \in 1..Arity[code.op]
    BY <1>2, <2>1 DEF InsnShaped
  <2> HIDE DEF code
  <2>4. code.op \notin CallOps => \E t : HasType(Scope(frame), code.args[a], t)
    BY <1>2, <1>3, <2>1, <2>3
       DEF InsnOK, CallOps, InsnOps, Arity, WriteStateOK, BinopOK, CompareOK, CastOK,
           SelectOK, LoadOK, StoreOK
  <2> QED BY <2>2, <2>4 DEF code
<1>4. CASE code.op \in TermOps
  <2>1. TermShaped(code) /\ TermOK(image, FnOf(frame), Scope(frame), code)
    BY <1>4, CodeHere
  <2> HIDE DEF code
  <2>2. code.args # <<>> /\ Len(code.args) > 0
    BY <1>1, <1>2, ListLen
  <2>3. a = 1
    <3>1. code.op \in TermOps /\ code.op \notin {"jump", "trap"}
      BY <2>1, <2>2 DEF TermShaped
    <3>2. code.op \in {"branch", "return", "indirect_jump"}
      BY <3>1 DEF TermOps
    <3>3. Len(code.args) = 1 \/ Len(code.args) <= 1
      BY <2>1, <3>2, Zenon DEF TermShaped
    <3> DEFINE len == Len(code.args)
    <3>4. len \in Nat /\ a \in 1..len /\ (len = 1 \/ len <= 1)
      BY <1>2, <3>3
    <3> HIDE DEF len
    <3> QED BY <3>4
  <2> QED BY <2>1, <2>2, <2>3 DEF TermShaped, TermOps, TermOK, code
<1> QED BY <1>3, <1>4, CodeHere

(* An operand of type t, as the C and the executor read it. *)
Reads(o, t) ==
  /\ Core!Known(o) /\ Core!Value(o) = Value(o)
  /\ TypeOf(o) = t /\ Core!TypeOf(o) = t
  /\ t \in IntTypes /\ Fits(Value(o), t)

(* Both read the same value, which fits its type. *)
LEMMA OperandReads ==
  ASSUME Live, NEW o, NEW t, HasType(Scope(Top), o, t),
         o.ref = NoName => o.type \in IntTypes
  PROVE  Reads(o, t)
<1> DEFINE vals == Environment(Top)
<1>1. /\ DOMAIN vals = {d[1] : d \in Scope(Top)}
      /\ \A d \in Scope(Top) :
              /\ d = <<d[1], d[2]>> /\ d[2] \in IntTypes /\ d \in Layout(FnOf(Top))
              /\ vals[d[1]] = [value |-> Top.v[d[1]], type |-> d[2]]
  BY TopSound, EnvironmentIs DEF Live
<1>2. Core!Top.vals = vals
  BY CoreTop DEF Activation
<1> HIDE DEF vals, Core!Top
<1>3. CASE o.ref = NoName
  <2>1. o.type = t /\ Fits(o.const, t) /\ t \in IntTypes
    BY <1>3 DEF HasType
  <2>2. Core!Value(o) = Mask(o.const, TypeBits[t])
    BY <1>3, <2>1, CoreTypes, CoreMask DEF Core!Value
  <2>3. Mask(o.const, TypeBits[t]) = o.const
    BY <2>1, MaskKeeps, TypeWidths DEF Fits, Positive
  <2> QED BY <1>3, <2>1, <2>2, <2>3, CoreTypes
          DEF Reads, Core!Known, Core!TypeOf, Value, TypeOf
<1>4. CASE o.ref # NoName
  <2> DEFINE d == <<o.ref, t>>
  <2>1. d \in Scope(Top) /\ d[1] = o.ref /\ d[2] = t
    BY <1>4 DEF HasType
  <2> HIDE DEF d
  <2>2. /\ t \in IntTypes /\ d \in Layout(Fn) /\ d = <<o.ref, t>>
        /\ o.ref \in DOMAIN vals /\ vals[o.ref] = [value |-> Top.v[o.ref], type |-> t]
    BY <1>1, <2>1 DEF Fn
  <2>3. Fits(Top.v[o.ref], t)
    BY <2>1, <2>2, TopSound DEF SoundFrame, Filled, Fn
  <2>4. ValueType(Fn, o.ref) = t
    <3>1. FunctionOK(image, Fn) /\ FunctionShaped(Fn)
      BY TopSound, CodeHere DEF Live, SoundFrame, Fn
    <3> QED BY <2>2, <3>1, ValueTypeIs
  <2>5. Core!Value(o) = Top.v[o.ref] /\ Core!TypeOf(o) = t /\ Core!Known(o)
    BY <1>2, <1>4, <2>2, CoreTypes DEF Core!Value, Core!TypeOf, Core!Known
  <2> QED BY <1>4, <2>2, <2>3, <2>4, <2>5 DEF Reads, Value, TypeOf
<1> QED BY <1>3, <1>4

(* The arguments of the code that is about to run. *)
LEMMA CodeReads ==
  ASSUME Live
  PROVE  /\ IsList(Code.args)
         /\ \A a \in DOMAIN Code.args :
              /\ \E t : Reads(Code.args[a], t)
              /\ Core!Arg(a) = Arg(a) /\ Arg(a) \in Nat
              /\ \A t : HasType(Scope(Top), Code.args[a], t) =>
                          Reads(Code.args[a], t) /\ Fits(Arg(a), t)
         /\ Core!ArgValues = ArgValues
<1>1. ArgsShaped(Code.args)
  BY TopSound, CodeHere DEF Live, SoundFrame, Code, InsnShaped, TermShaped
<1>2. ASSUME NEW a \in DOMAIN Code.args, NEW t, HasType(Scope(Top), Code.args[a], t)
      PROVE  Reads(Code.args[a], t)
  <2>1. Code.args[a].ref = NoName => Code.args[a].type \in IntTypes
    BY <1>1 DEF ArgsShaped, Elements
  <2> QED BY <1>2, <2>1, OperandReads
<1>3. ASSUME NEW a \in DOMAIN Code.args
      PROVE  /\ \E t : Reads(Code.args[a], t)
             /\ Core!Arg(a) = Arg(a) /\ Arg(a) \in Nat
             /\ \A t : HasType(Scope(Top), Code.args[a], t) =>
                         Reads(Code.args[a], t) /\ Fits(Arg(a), t)
  <2>1. PICK t : HasType(Scope(Top), Code.args[a], t)
    BY TopSound, ArgsTyped DEF Live, SoundFrame, Code
  <2>2. Reads(Code.args[a], t)
    BY <1>2, <2>1
  <2>3. Core!Arg(a) = Core!Value(Code.args[a])
    BY CoreTop DEF Core!Arg
  <2> QED BY <1>2, <2>2, <2>3 DEF Reads, Arg, Fits
<1>4. Core!ArgValues = ArgValues
  BY <1>3, CoreTop DEF Core!ArgValues, ArgValues
<1> QED BY <1>1, <1>3, <1>4 DEF ArgsShaped

----------------------------------------------------------------------------
(* What a step of the C does, and the executor's step it is.               *)

(* The executor's calls after a step. *)
LEMMA StackAfter ==
  ASSUME document' = document
  PROVE  CoreStack' = IF phase' = "running" THEN [k \in DOMAIN frames' |-> Activation(frames'[k])]
                      ELSE <<>>
BY DEF CoreStack, Activation, Environment, FnOf, image

(* Frames stay sound while the image stays. *)
LEMMA SoundAfter ==
  ASSUME document' = document
  PROVE  /\ image' = image /\ (Translated' <=> Translated)
         /\ \A frame : /\ SoundFrame(frame)' <=> SoundFrame(frame)
                       /\ CodeOf(frame)' = CodeOf(frame)
BY DEF Translated, SoundFrame, Placed, Filled, FnOf, Block, CodeOf, image

(* A step counts one operation and leaves the host alone. *)
Counted == operations' = operations + 1 /\ UNCHANGED hostVars

(* A step within the limit, *)
LEMMA CoreStep ==
  ASSUME Live, Counted, ~Exhausted, phase' # "entered"
  PROVE  Core!At(Code.op)
<1>1. CorePhase = "running"
  BY DEF Live, CorePhase
<1>2. Core!Code = Code
  BY CoreTop
<1>3. \A a \in DOMAIN Code.args : Core!Known(Code.args[a])
  BY CodeReads DEF Reads
<1>4. \A k \in DOMAIN Core!Evaluated(Code) : Core!Known(Core!Evaluated(Code)[k])
  <2>1. CASE Core!Evaluated(Code) = Code.args
    BY <1>3, <2>1
  <2>2. CASE Code.op = "select"
    <3>1. InsnShaped(Code)
      BY <2>2, TopSound, CodeHere DEF Live, SoundFrame, Code, TermOps
    <3>2. DOMAIN Code.args = 1..3
      BY <2>2, <3>1, CodeReads, ListLen DEF InsnShaped, CallOps, Arity
    <3> QED BY <1>3, <2>2, <3>2 DEF Core!Evaluated
  <2> QED BY <2>1, <2>2 DEF Core!Evaluated
<1>5. Core!Exhausted = Exhausted
  BY DEF Core!Exhausted, Core!image, Exhausted, image
<1>6. UNCHANGED Core!loaderVars
  BY DEF Counted, hostVars, Core!loaderVars, Live
<1> QED BY <1>1, <1>2, <1>4, <1>5, <1>6 DEF Counted, Core!At

(* and the instruction or terminator it executes. *)
LEMMA CoreAt ==
  ASSUME Live, NEW op, At(op), phase' # "entered"
  PROVE  Core!At(op)
BY CoreStep DEF At, Counted, hostVars

(* An or_fail is a CoreRuntimeError. *)
LEMMA CoreRaise ==
  ASSUME Live, NEW f, NEW name, Fail(f, name), runs' = runs
  PROVE  Core!Raise(f, name)
<1>1. CorePhase' = "ready"
  BY DEF Fail, Live, CorePhase
<1>2. CoreOutcome' = Core!Fault(f, name)
  BY DEF Fail, Live, CoreOutcome, Core!Fault
<1>3. CoreStack' = <<>>
  BY DEF Fail, CoreStack
<1> QED BY <1>1, <1>2, <1>3 DEF Core!Raise, CoreStack

(* While a run goes on neither has an outcome. *)
LEMMA NoOutcomeYet ==
  ASSUME Live, UNCHANGED <<phase, runs>>
  PROVE  UNCHANGED <<CorePhase, CoreOutcome>>
BY DEF Live, CorePhase, CoreOutcome

(* The function that runs goes on. *)
LEMMA CoreReplace ==
  ASSUME Live, NEW frame, Replace(frame), UNCHANGED <<document, runs>>
  PROVE  Core!Replace(Activation(frame))
<1>1. phase' = phase /\ phase = "running" /\ frames' = [frames EXCEPT ![Len(frames)] = frame]
  BY DEF Replace, Live
<1>2. UNCHANGED <<CorePhase, CoreOutcome>>
  BY <1>1, NoOutcomeYet
<1>3. CoreStack' = [k \in DOMAIN frames' |-> Activation(frames'[k])]
  BY <1>1, StackAfter
<1>4. /\ Len(CoreStack) = Len(frames)
      /\ CoreStack = [k \in DOMAIN frames |-> Activation(frames[k])]
  BY <1>1, StackIs DEF CoreStack
<1>5. CoreStack' = [CoreStack EXCEPT ![Len(CoreStack)] = Activation(frame)]
  BY <1>1, <1>3, <1>4
<1> QED BY <1>2, <1>5 DEF Core!Replace, CoreStack

(* An instruction with a result, *)
LEMMA CoreDefine ==
  ASSUME Live, Code.op \in InsnOps, Code.result # NoName, NEW x \in Int,
         Define(x), UNCHANGED <<document, runs>>
  PROVE  Core!Define(x)
<1>1. Activation(Assigned(Top, Code, x)) = Core!Assigned(Activation(Top), Code, x)
  BY TopSound, AssignedActivation DEF Live, Code
<1>2. Core!Replace(Activation(Assigned(Top, Code, x)))
  BY CoreReplace DEF Define
<1> QED BY <1>1, <1>2, CoreTop DEF Core!Define

(* one without, *)
LEMMA CoreAdvance ==
  ASSUME Live, Code.op \in InsnOps, Code.result = NoName,
         Replace(Advanced(Top)), UNCHANGED <<document, runs>>
  PROVE  Core!Replace(Core!Advanced(Core!Top))
<1>1. Activation(Advanced(Top)) = Core!Advanced(Activation(Top))
  BY TopSound, AdvancedActivation DEF Live, Code
<1>2. Core!Replace(Activation(Advanced(Top)))
  BY CoreReplace
<1> QED BY <1>1, <1>2, CoreTop

(* Control does not come back to an entry block with parameters. *)
LEMMA TargetIsBlock ==
  ASSUME Live, Code.op \in TermOps, NEW id \in Elements(Code.targets)
  PROVE  LET b == IndexOf(Fn.blocks, id)
         IN  /\ id \in Ids(Fn.blocks) /\ b \in DOMAIN Fn.blocks /\ Fn.blocks[b].id = id
             /\ b = 1 => Fn.params = <<>>
<1>1. /\ FunctionOK(image, Fn) /\ FunctionShaped(Fn)
      /\ Code = Block(Top).term /\ TermOK(image, Fn, Scope(Top), Code)
  BY TopSound, CodeHere DEF Live, SoundFrame, Fn, Code
<1>2. id \in Ids(Fn.blocks)
  BY <1>1 DEF TermOK, Elements
<1> DEFINE b == IndexOf(Fn.blocks, id)
<1>3. b \in DOMAIN Fn.blocks /\ Fn.blocks[b].id = id
  BY <1>2, IndexOfId
<1>4. Fn \in Elements(image.functions) /\ Block(Top) \in Elements(Fn.blocks)
  BY TopSound DEF SoundFrame, Placed, Fn, FnOf, Block, Elements
<1>5. EntryNotReentered(Fn)
  BY <1>4, ComparableAssumption DEF Live, Translated, image
<1> HIDE DEF b
<1>6. b = 1 => Fn.params = <<>>
  BY <1>1, <1>3, <1>4, <1>5 DEF EntryNotReentered
<1> QED BY <1>2, <1>3, <1>6 DEF b

(* and a jump. *)
LEMMA CoreGoTo ==
  ASSUME Live, Code.op \in TermOps, NEW id \in Elements(Code.targets),
         Goto(id), UNCHANGED <<document, runs>>
  PROVE  Core!GoTo(id)
<1> DEFINE b == IndexOf(Fn.blocks, id)
<1>1. /\ id \in Ids(Fn.blocks) /\ b \in DOMAIN Fn.blocks
      /\ b = 1 => Fn.params = <<>>
  BY TargetIsBlock
<1>2. Core!Replace(Activation(Label(Top, b)))
  BY CoreReplace DEF Goto
<1> HIDE DEF b
<1>3. Activation(Label(Top, b)) = Core!BlockFrame(Activation(Top), b)
  BY <1>1, TopSound, LabelActivation DEF Live, Fn
<1>4. Core!IndexOf(Fn.blocks, id) = b /\ Core!Ids(Fn.blocks) = Ids(Fn.blocks)
  BY CoreIndexOf, CoreElements DEF b
<1> QED BY <1>1, <1>2, <1>3, <1>4, CoreTop DEF Core!GoTo

(* A function the module declares is called. *)
LEMMA CoreEnter ==
  ASSUME Translated, NEW name \in Ids(image.functions), NEW args, NEW depth,
         \A k \in DOMAIN args : args[k] \in Int, IsList(args),
         CallFunction(name, args, depth),
         IsList(frames), CoreStack = [k \in DOMAIN frames |-> Activation(frames[k])],
         runs \in Nat \ {0}, ~failed, UNCHANGED <<document, runs>>
  PROVE  Core!Enter(name, args, depth)
<1> DEFINE n == IndexOf(image.functions, name)
           new == Frame(n, 1, 1, EntryValues(Callee(image, name), args))
<1>1. n \in DOMAIN image.functions
  BY IndexOfId
<1>2. Callee(image, name) = image.functions[n]
  BY DEF Callee
<1> DEFINE deep == depth > image.maxCallDepth
           many == Len(args) # Len(Callee(image, name).params)
<1>3. /\ Core!TooDeep(depth) <=> deep
      /\ name \in Core!Ids(Core!image.functions)
      /\ (Len(args) # Len(Core!Callee(Core!image, name).params)) <=> many
      /\ Core!IndexOf(Core!image.functions, name) = n
  BY CoreElements, CoreLookup, CoreIndexOf DEF Core!TooDeep, Core!image, image
<1>4. ASSUME NEW f, Fail(f, name) PROVE Core!Raise(f, name)
  <2>1. CorePhase' = "ready" /\ CoreOutcome' = Core!Fault(f, name) /\ CoreStack' = <<>>
    BY <1>4 DEF Fail, CorePhase, CoreOutcome, Core!Fault, CoreStack
  <2> QED BY <2>1 DEF Core!Raise, CoreStack
<1>5. CASE deep
  BY <1>3, <1>4, <1>5 DEF CallFunction, Core!Enter
<1>6. CASE ~deep /\ many
  BY <1>3, <1>4, <1>6 DEF CallFunction, Core!Enter
<1>7. CASE ~deep /\ ~many
  <2>1. phase' = "running" /\ frames' = Append(frames, new)
    BY <1>7 DEF CallFunction
  <2>2. \A k \in DOMAIN image.functions[n].params : args[k] \in Int
    <3>1. FunctionShaped(image.functions[n])
      BY <1>1, DocumentsAssumption DEF Translated, image, WellShaped, Elements
    <3>2. IsList(image.functions[n].params)
      BY <3>1 DEF FunctionShaped, Named
    <3>3. DOMAIN args = DOMAIN image.functions[n].params
      BY <1>2, <1>7, <3>2, ListLen
    <3> QED BY <3>3
  <2>3. Activation(new) = Core!EntryFrame(n, args)
    BY <1>1, <1>2, <2>2, EntryActivation
  <2>4. CoreStack' = Append(CoreStack, Activation(new))
    <3>1. CoreStack' = [k \in DOMAIN frames' |-> Activation(frames'[k])]
      BY <2>1, StackAfter
    <3> DEFINE len == Len(frames)
    <3> HIDE DEF new
    <3>2. /\ IsList(frames) /\ IsList(frames') /\ Len(frames') = len + 1
          /\ \A k \in 1..len : frames'[k] = frames[k]
          /\ frames'[len + 1] = new
      BY <2>1, ListAppend
    <3>3. len \in Nat /\ DOMAIN frames' = 1..(len + 1) /\ DOMAIN frames = 1..len
      BY <3>2, ListLen
    <3>4. IsList(CoreStack) /\ Len(CoreStack) = len
      <4>1. CoreStack = [k \in DOMAIN frames |-> CoreStack[k]]
        OBVIOUS
      <4> QED BY <3>2, <4>1, ListImage
    <3> DEFINE t == Append(CoreStack, Activation(new))
    <3>5. /\ IsList(t) /\ Len(t) = len + 1
          /\ \A k \in 1..len : t[k] = CoreStack[k]
          /\ t[len + 1] = Activation(new)
      BY <3>4, ListAppend
    <3>6. DOMAIN t = 1..(len + 1) /\ t = [k \in 1..(len + 1) |-> t[k]]
      <4>1. t \in Seq(Elements(t))
        BY <3>5 DEF IsList
      <4>2. t \in [1..Len(t) -> Elements(t)]
        BY <4>1, LenProperties
      <4> QED BY <3>5, <4>2
    <3> HIDE DEF t, len
    <3>7. \A k \in 1..(len + 1) : Activation(frames'[k]) = t[k]
      <4>1. \A k \in 1..(len + 1) : k \in 1..len \/ k = len + 1
        BY <3>3
      <4>2. \A k \in 1..len : CoreStack[k] = Activation(frames[k])
        BY <3>3
      <4> QED BY <3>2, <3>5, <4>1, <4>2
    <3> QED BY <3>1, <3>3, <3>6, <3>7 DEF t
  <2>5. CorePhase' = "running" /\ CoreOutcome' = Core!NoOutcome
    BY <2>1 DEF CorePhase, CoreOutcome, Core!NoOutcome
  <2> HIDE DEF n, new
  <2>6. ~Core!TooDeep(depth) /\ Len(args) = Len(Core!Callee(Core!image, name).params)
    BY <1>3, <1>7
  <2> QED BY <1>3, <2>3, <2>4, <2>5, <2>6 DEF Core!Enter, CoreStack
<1> QED BY <1>5, <1>6, <1>7

----------------------------------------------------------------------------
(* The steps of a run, one by one.                                         *)

(* The static arrays hold integers, and memory holds bytes. *)
DataOK ==
  /\ DOMAIN state = Ids(image.slots) /\ \A slot \in DOMAIN state : state[slot] \in Int
  /\ DOMAIN memory = Addresses(image) /\ \A a \in DOMAIN memory : memory[a] \in Byte

(* What a step does to the C functions: the last one goes on, calls or     *)
(* returns to its caller, or everything unwinds.                           *)
Going   == UNCHANGED <<phase, failVars>>

Moves   == Going /\ \E new : /\ SoundFrame(new) /\ new.fn = Top.fn
                             /\ frames' = [frames EXCEPT ![Len(frames)] = new]

Calls   == /\ Going /\ Code.op = "call"
           /\ \E new : /\ SoundFrame(new) /\ new.fn = IndexOf(image.functions, Code.name)
                       /\ frames' = Append(frames, new)

Resumes == /\ Going /\ Len(frames) > 1
           /\ \E new : /\ SoundFrame(new) /\ new.fn = frames[Len(frames) - 1].fn
                       /\ frames' = Append(SubSeq(frames, 1, Len(frames) - 2), new)

Fails   == failed' = TRUE /\ phase' = "unwinding" /\ UNCHANGED frames

Ends    == frames' = <<>> /\ phase' = "idle" /\ UNCHANGED failVars

Shaped  == Counted /\ (Moves \/ Calls \/ Resumes \/ Fails \/ Ends)

(* Data that no step touches stays what it is, here and in the executor. *)
LEMMA DataStays ==
  ASSUME UNCHANGED <<document, runs>>
  PROVE  /\ DataOK /\ UNCHANGED <<state, memory>> => DataOK'
         /\ UNCHANGED dataVars => UNCHANGED Core!dataVars
BY DEF DataOK, dataVars, Core!dataVars, image

(* What an instruction is and the arguments it has. *)
LEMMA InsnHere ==
  ASSUME Live, Code.op \in InsnOps
  PROVE  /\ InsnShaped(Code) /\ InsnOK(image, Scope(Top), Code)
         /\ Code.type \in IntTypes
         /\ Code.op \notin CallOps => DOMAIN Code.args = 1..Arity[Code.op]
<1>1. InsnShaped(Code) /\ InsnOK(image, Scope(Top), Code)
  BY TopSound, CodeHere DEF Live, SoundFrame, Code
<1>2. IsList(Code.args)
  BY CodeReads
<1> QED BY <1>1, <1>2, ListLen DEF InsnShaped

(* A failed instruction. *)
LEMMA FailStep ==
  ASSUME Live, NEW op, At(op), NEW f, NEW name, Fail(f, name), UNCHANGED frames
  PROVE  Shaped /\ Core!At(op) /\ Core!Raise(f, name)
<1>1. UNCHANGED <<document, runs>> /\ phase' # "entered" /\ Counted
  BY DEF At, Fail, hostVars, Counted
<1>2. Core!At(op) /\ Core!Raise(f, name)
  BY <1>1, CoreAt, CoreRaise
<1> QED BY <1>1, <1>2 DEF Fail, Fails, Shaped

(* An instruction that has a result, *)
LEMMA DefineStep ==
  ASSUME Live, NEW op \in InsnOps, At(op), Code.result # NoName, NEW x \in Int, Define(x)
  PROVE  Shaped /\ Core!At(op) /\ Core!Define(x)
<1>1. UNCHANGED <<document, runs>> /\ phase' # "entered" /\ Counted /\ Code.op = op
  BY DEF At, Define, Replace, hostVars, Counted
<1>2. Core!At(op) /\ Core!Define(x)
  BY <1>1, CoreAt, CoreDefine
<1> DEFINE new == Assigned(Top, Code, x)
<1>3. SoundFrame(new) /\ new.fn = Top.fn
  BY <1>1, TopSound, AssignedSound DEF Live, Code
<1>4. frames' = [frames EXCEPT ![Len(frames)] = new] /\ Going
  BY DEF Define, Replace, Going
<1> HIDE DEF new
<1> QED BY <1>1, <1>2, <1>3, <1>4 DEF Moves, Shaped

(* one that has none, *)
LEMMA AdvanceStep ==
  ASSUME Live, NEW op \in InsnOps, At(op), Code.result = NoName, Replace(Advanced(Top))
  PROVE  Shaped /\ Core!At(op) /\ Core!Replace(Core!Advanced(Core!Top))
<1>1. UNCHANGED <<document, runs>> /\ phase' # "entered" /\ Counted /\ Code.op = op
  BY DEF At, Replace, hostVars, Counted
<1>2. Core!At(op) /\ Core!Replace(Core!Advanced(Core!Top))
  BY <1>1, CoreAt, CoreAdvance
<1> DEFINE new == Advanced(Top)
<1>3. SoundFrame(new) /\ new.fn = Top.fn
  BY <1>1, TopSound, AdvancedSound DEF Live, Code
<1>4. frames' = [frames EXCEPT ![Len(frames)] = new] /\ Going
  BY DEF Replace, Going
<1> HIDE DEF new
<1> QED BY <1>1, <1>2, <1>3, <1>4 DEF Moves, Shaped

(* and a jump. *)
LEMMA GotoStep ==
  ASSUME Live, NEW op \in TermOps, At(op), NEW id \in Elements(Code.targets), Goto(id)
  PROVE  Shaped /\ Core!At(op) /\ Core!GoTo(id)
<1>1. UNCHANGED <<document, runs>> /\ phase' # "entered" /\ Counted /\ Code.op = op
  BY DEF At, Goto, Replace, hostVars, Counted
<1>2. Core!At(op) /\ Core!GoTo(id)
  BY <1>1, CoreAt, CoreGoTo
<1> DEFINE b   == IndexOf(Fn.blocks, id)
           new == Label(Top, b)
<1>3. b \in DOMAIN FnOf(Top).blocks
  BY <1>1, TargetIsBlock DEF Fn
<1>4. frames' = [frames EXCEPT ![Len(frames)] = new] /\ Going
  BY DEF Goto, Replace, Going
<1> HIDE DEF b
<1>5. SoundFrame(new) /\ new.fn = Top.fn
  BY <1>3, TopSound, LabelSound DEF Live
<1> HIDE DEF new
<1> QED BY <1>1, <1>2, <1>4, <1>5 DEF Moves, Shaped

(* A step of the C that is one of the executor. *)
Simulated == Shaped /\ DataOK' /\ Core!Next

----------------------------------------------------------------------------
(* Instructions on values. *)

(* A constant is masked when it is assigned. *)
LEMMA ConstSimulated ==
  ASSUME Live, DataOK, ConstInsn
  PROVE  Simulated
<1>1. /\ At("const") /\ Define(Code.imm) /\ UNCHANGED dataVars /\ Code.op = "const"
      /\ UNCHANGED <<document, runs>> /\ "const" \in InsnOps
  BY DEF ConstInsn, At, hostVars, InsnOps, Arity
<1>2. Code.result # NoName /\ Code.imm \in Int
  BY <1>1, InsnHere DEF InsnShaped, CallOps, InsnOK, ConstOK, Fits
<1>3. Shaped /\ Core!At("const") /\ Core!Define(Code.imm)
  BY <1>1, <1>2, DefineStep
<1>4. DataOK' /\ UNCHANGED Core!dataVars
  BY <1>1, DataStays DEF dataVars
<1>5. Core!ConstInsn
  BY <1>3, <1>4, CoreTop DEF Core!ConstInsn
<1> QED BY <1>3, <1>4, <1>5
        DEF Simulated, Core!Next, Core!Execute, Core!Instruction

(* The C expression of an operation has the value of _binop (SameBinopV11). *)
LEMMA BinopSimulated ==
  ASSUME Live, DataOK, BinopInsn
  PROVE  Simulated
<1> DEFINE bits  == TypeBits[Code.type]
           fault == ShiftFault(Code.kind, Arg(2), bits)
           x     == CBinopV11(Code.kind, Arg(1), Arg(2), bits)
<1>1. /\ At("binop") /\ UNCHANGED dataVars /\ Code.op = "binop"
      /\ UNCHANGED <<document, runs>> /\ "binop" \in InsnOps
      /\ IF fault THEN Fail("shift-count", NoName) /\ UNCHANGED frames ELSE Define(x)
  BY DEF BinopInsn, At, hostVars, InsnOps, Arity
<1>2. /\ Code.result # NoName /\ Code.kind \in BinopKinds \cup DivremKinds
      /\ Code.type \in IntTypes /\ BinopOK(Scope(Top), Code)
      /\ 1 \in DOMAIN Code.args /\ 2 \in DOMAIN Code.args
  BY <1>1, InsnHere DEF InsnShaped, CallOps, Arity, InsnOK
<1>3. /\ Fits(Arg(1), Code.type) /\ Fits(Arg(2), Code.type)
      /\ Core!Arg(1) = Arg(1) /\ Core!Arg(2) = Arg(2)
  BY <1>2, CodeReads DEF BinopOK
<1>4. bits \in 1..HostBits
  BY <1>2, TypeWidths DEF Positive
<1>5. Arg(1) \in Pattern(bits) /\ Arg(2) \in Pattern(bits)
  BY <1>3 DEF Fits, Pattern
<1> HIDE DEF bits
<1>6. x = BinopV11(Code.kind, Arg(1), Arg(2), bits) /\ x \in Int
  BY <1>2, <1>4, <1>5, SameBinopV11, BinopIsInteger
<1> HIDE DEF fault, x
<1>7. DataOK' /\ UNCHANGED Core!dataVars
  BY <1>1, DataStays DEF dataVars
<1>8. /\ Core!ShiftFault(Core!Code.kind, Core!Arg(2), Core!TypeBits[Core!Code.type]) <=> fault
      /\ Core!BinopV11(Core!Code.kind, Core!Arg(1), Core!Arg(2), Core!TypeBits[Core!Code.type]) = x
  BY <1>3, <1>6, CoreTop, CoreTypes, CoreArith DEF fault, bits
<1>9. CASE fault
  <2>1. Shaped /\ Core!At("binop") /\ Core!Raise("shift-count", NoName)
    BY <1>1, <1>9, FailStep
  <2>2. Core!BinopInsn
    BY <1>7, <1>8, <1>9, <2>1, CoreTypes DEF Core!BinopInsn
  <2> QED BY <1>7, <2>1, <2>2 DEF Simulated, Core!Next, Core!Execute, Core!Instruction
<1>10. CASE ~fault
  <2>1. Shaped /\ Core!At("binop") /\ Core!Define(x)
    BY <1>1, <1>2, <1>6, <1>10, DefineStep
  <2>2. Core!BinopInsn
    BY <1>7, <1>8, <1>10, <2>1 DEF Core!BinopInsn
  <2> QED BY <1>7, <2>1, <2>2 DEF Simulated, Core!Next, Core!Execute, Core!Instruction
<1> QED BY <1>9, <1>10

(* A comparison, on patterns as on numbers (SameCompare). *)
LEMMA CompareSimulated ==
  ASSUME Live, DataOK, CompareInsn
  PROVE  Simulated
<1> DEFINE bits == TypeBits[TypeOf(Code.args[1])]
           x    == CCompare(Code.kind, Arg(1), Arg(2), bits)
<1>1. /\ At("compare") /\ UNCHANGED dataVars /\ Code.op = "compare"
      /\ UNCHANGED <<document, runs>> /\ "compare" \in InsnOps /\ Define(x)
  BY DEF CompareInsn, At, hostVars, InsnOps, Arity
<1>2. /\ Code.result # NoName /\ Code.kind \in Predicates
      /\ 1 \in DOMAIN Code.args /\ 2 \in DOMAIN Code.args
  BY <1>1, InsnHere DEF InsnShaped, CallOps, Arity
<1>3. PICK t \in IntTypes : HasType(Scope(Top), Code.args[1], t)
  BY <1>1, InsnHere DEF InsnOK, CompareOK
<1>4. /\ TypeOf(Code.args[1]) = t /\ Core!TypeOf(Code.args[1]) = t
      /\ Arg(1) \in Int /\ Arg(2) \in Int
      /\ Core!Arg(1) = Arg(1) /\ Core!Arg(2) = Arg(2)
  BY <1>2, <1>3, CodeReads DEF Reads
<1>5. bits \in 1..HostBits
  BY <1>3, <1>4, TypeWidths DEF Positive
<1> HIDE DEF bits
<1>6. x = Compare(Code.kind, Arg(1), Arg(2), bits)
  BY <1>2, <1>4, <1>5, SameCompare
<1> HIDE DEF x
<1>7. x \in Int
  BY <1>6 DEF Compare
<1>8. DataOK' /\ UNCHANGED Core!dataVars
  BY <1>1, DataStays DEF dataVars
<1>9. Shaped /\ Core!At("compare") /\ Core!Define(x)
  BY <1>1, <1>2, <1>7, DefineStep
<1>10. Core!Compare(Core!Code.kind, Core!Arg(1), Core!Arg(2),
                    Core!TypeBits[Core!TypeOf(Core!Code.args[1])]) = x
  BY <1>4, <1>6, CoreTop, CoreTypes, CoreArith DEF bits
<1>11. Core!CompareInsn
  BY <1>8, <1>9, <1>10 DEF Core!CompareInsn
<1> QED BY <1>8, <1>9, <1>11 DEF Simulated, Core!Next, Core!Execute, Core!Instruction

(* A cast between the widths of its types (SameCast). *)
LEMMA CastSimulated ==
  ASSUME Live, DataOK, CastInsn
  PROVE  Simulated
<1> DEFINE from == TypeBits[TypeOf(Code.args[1])]
           to   == TypeBits[Code.type]
           y    == IF Code.kind = "sext" THEN SignedValue(Arg(1), from) ELSE Arg(1)
           x    == CCast(Code.kind, Arg(1), from, to)
<1>1. /\ At("cast") /\ UNCHANGED dataVars /\ Code.op = "cast"
      /\ UNCHANGED <<document, runs>> /\ "cast" \in InsnOps /\ Define(x)
  BY DEF CastInsn, At, hostVars, InsnOps, Arity
<1>2. Code.result # NoName /\ Code.type \in IntTypes /\ 1 \in DOMAIN Code.args
  BY <1>1, InsnHere DEF InsnShaped, CallOps, Arity
<1>3. PICK t \in IntTypes : HasType(Scope(Top), Code.args[1], t)
  BY <1>1, InsnHere DEF InsnOK, CastOK
<1>4. /\ TypeOf(Code.args[1]) = t /\ Core!TypeOf(Code.args[1]) = t
      /\ Arg(1) \in Int /\ Core!Arg(1) = Arg(1)
  BY <1>2, <1>3, CodeReads DEF Reads
<1>5. from \in 1..HostBits /\ to \in 1..HostBits
  BY <1>2, <1>3, <1>4, TypeWidths DEF Positive
<1> HIDE DEF from, to
<1>6. x = Cast(Code.kind, Arg(1), from, to)
  BY <1>4, <1>5, SameCast
<1> HIDE DEF x
<1>7. x \in Int
  <2>1. y \in Int
    BY <1>4, <1>5, SignedRange DEF Positive
  <2> HIDE DEF y
  <2>2. Mask(y, to) \in Int
    BY <1>5, <2>1, MaskFits
  <2> QED BY <1>6, <2>2 DEF Cast, y
<1>8. DataOK' /\ UNCHANGED Core!dataVars
  BY <1>1, DataStays DEF dataVars
<1>9. Shaped /\ Core!At("cast") /\ Core!Define(x)
  BY <1>1, <1>2, <1>7, DefineStep
<1>10. Core!Cast(Core!Code.kind, Core!Arg(1), Core!TypeBits[Core!TypeOf(Core!Code.args[1])],
                 Core!TypeBits[Core!Code.type]) = x
  BY <1>4, <1>6, CoreTop, CoreTypes, CoreArith DEF from, to
<1>11. Core!CastInsn
  BY <1>8, <1>9, <1>10 DEF Core!CastInsn
<1> QED BY <1>8, <1>9, <1>11 DEF Simulated, Core!Next, Core!Execute, Core!Instruction

(* The C reads all three operands, the executor the condition and one. *)
LEMMA SelectSimulated ==
  ASSUME Live, DataOK, SelectInsn
  PROVE  Simulated
<1> DEFINE x == IF Arg(1) # 0 THEN Arg(2) ELSE Arg(3)
<1>1. /\ At("select") /\ UNCHANGED dataVars /\ Code.op = "select"
      /\ UNCHANGED <<document, runs>> /\ "select" \in InsnOps /\ Define(x)
  BY DEF SelectInsn, At, hostVars, InsnOps, Arity
<1>2. Code.result # NoName /\ \A a \in {1, 2, 3} : a \in DOMAIN Code.args
  BY <1>1, InsnHere DEF InsnShaped, CallOps, Arity
<1>3. \A a \in {1, 2, 3} : Arg(a) \in Int /\ Core!Arg(a) = Arg(a)
  BY <1>2, CodeReads
<1>4. x \in Int
  BY <1>3
<1>5. DataOK' /\ UNCHANGED Core!dataVars
  BY <1>1, DataStays DEF dataVars
<1>6. (IF Core!Arg(1) # 0 THEN Core!Arg(2) ELSE Core!Arg(3)) = x
  BY <1>3
<1> HIDE DEF x
<1>7. Shaped /\ Core!At("select") /\ Core!Define(x)
  BY <1>1, <1>2, <1>4, DefineStep
<1>8. Core!SelectInsn
  BY <1>5, <1>6, <1>7 DEF Core!SelectInsn
<1> QED BY <1>5, <1>7, <1>8 DEF Simulated, Core!Next, Core!Execute, Core!Instruction

----------------------------------------------------------------------------
(* Instructions on state and memory. *)

(* While runs are counted, the executor's state and memory are the C's. *)
LEMMA ReadStateSimulated ==
  ASSUME Live, DataOK, ReadState
  PROVE  Simulated
<1> DEFINE x == state[Code.name]
<1>1. /\ At("read_state") /\ UNCHANGED dataVars /\ Code.op = "read_state"
      /\ UNCHANGED <<document, runs>> /\ "read_state" \in InsnOps /\ Define(x)
  BY DEF ReadState, At, hostVars, InsnOps, Arity
<1>2. Code.result # NoName /\ Code.name \in Ids(image.slots)
  BY <1>1, InsnHere DEF InsnShaped, CallOps, InsnOK, ReadStateOK
<1>3. Code.name \in DOMAIN state /\ x \in Int
  BY <1>2 DEF DataOK
<1> HIDE DEF x
<1>4. Shaped /\ Core!At("read_state") /\ Core!Define(x)
  BY <1>1, <1>2, <1>3, DefineStep
<1>5. DataOK' /\ UNCHANGED Core!dataVars
  BY <1>1, DataStays DEF dataVars
<1>6. (IF runs = 0 THEN NoValues ELSE state) = state
  BY DEF Live
<1>7. Core!ReadState
  BY <1>3, <1>4, <1>5, <1>6, CoreTop DEF Core!ReadState, x
<1> QED BY <1>4, <1>5, <1>7 DEF Simulated, Core!Next, Core!Execute, Core!Instruction

(* A write to a slot masks to the type of the slot. *)
LEMMA WriteStateSimulated ==
  ASSUME Live, DataOK, WriteState
  PROVE  Simulated
<1> DEFINE w == Mask(Arg(1), TypeBits[SlotType(image, Code.name)])
<1>1. /\ At("write_state") /\ Code.op = "write_state" /\ UNCHANGED <<memory, requests>>
      /\ state' = [state EXCEPT ![Code.name] = w] /\ Replace(Advanced(Top))
      /\ UNCHANGED <<document, runs>> /\ "write_state" \in InsnOps
  BY DEF WriteState, At, hostVars, InsnOps, Arity
<1>2. /\ Code.result = NoName /\ Code.name \in Ids(image.slots)
      /\ HasType(Scope(Top), Code.args[1], SlotType(image, Code.name)) /\ 1 \in DOMAIN Code.args
  BY <1>1, InsnHere DEF InsnShaped, CallOps, Arity, InsnOK, WriteStateOK
<1>3. /\ Core!Arg(1) = Arg(1) /\ Arg(1) \in Int
      /\ Reads(Code.args[1], SlotType(image, Code.name))
  BY <1>2, CodeReads
<1>4. SlotType(image, Code.name) \in IntTypes
  BY <1>3 DEF Reads
<1>5. w \in Int
  <2>1. TypeBits[SlotType(image, Code.name)] \in Nat
    BY <1>4, TypeWidths DEF Positive
  <2>2. PICK y \in Int : y = Arg(1)
    BY <1>3
  <2>3. PICK n \in Nat : n = TypeBits[SlotType(image, Code.name)]
    BY <2>1
  <2>4. Mask(y, n) \in Nat
    BY MaskFits
  <2> QED BY <2>2, <2>3, <2>4
<1>6. Core!Mask(Core!Arg(1), Core!TypeBits[Core!SlotType(Core!image, Core!Code.name)]) = w
  BY <1>3, CoreTop, CoreTypes, CoreMask, CoreLookup DEF Core!image, image
<1> HIDE DEF w
<1>7. Code.name \in DOMAIN state
  BY <1>2 DEF DataOK
<1>8. DataOK'
  <2>1. image' = image
    BY <1>1 DEF image
  <2>2. DOMAIN state' = DOMAIN state /\ \A slot \in DOMAIN state : state'[slot] \in Int
    BY <1>1, <1>5, <1>7 DEF DataOK
  <2> QED BY <1>1, <2>1, <2>2 DEF DataOK
<1>9. Shaped /\ Core!At("write_state") /\ Core!Replace(Core!Advanced(Core!Top))
  BY <1>1, <1>2, AdvanceStep
<1>10. /\ (IF runs = 0 THEN NoValues ELSE state) = state
       /\ (IF runs' = 0 THEN NoValues ELSE state') = state'
       /\ (IF runs = 0 THEN NoValues ELSE memory)' = (IF runs = 0 THEN NoValues ELSE memory)
  BY <1>1 DEF Live
<1>11. Core!WriteState
  BY <1>1, <1>6, <1>7, <1>9, <1>10, CoreTop DEF Core!WriteState
<1> QED BY <1>8, <1>9, <1>11 DEF Simulated, Core!Next, Core!Execute, Core!Instruction

(* What the accesses of a load and a store have in common. *)
LEMMA AccessHere ==
  ASSUME Live, DataOK, Code.op \in {"load", "store"}, NEW a \in DOMAIN Code.args,
         HasType(Scope(Top), Code.args[a], image.addressType)
  PROVE  /\ Code.width \in AccessWidths /\ Code.type \in IntTypes
         /\ image.bigEndian \in BOOLEAN /\ image.memorySize \in Nat
         /\ Arg(a) \in Nat /\ Core!Arg(a) = Arg(a)
         /\ Core!TypeOf(Code.args[a]) = image.addressType
         /\ CAccessFault(image, Code, Arg(a)) = AccessFault(image, Code, Arg(a))
         /\ Core!AccessFault(image, Code, Arg(a)) = AccessFault(image, Code, Arg(a))
<1>1. Code.op \in InsnOps
  BY DEF InsnOps, Arity
<1>2. /\ Code.width \in AccessWidths /\ Code.type \in IntTypes
      /\ Code.align \in Nat \ {0} /\ Code.faulting \in BOOLEAN
  BY <1>1, InsnHere DEF InsnShaped, AccessWidths
<1>3. WellShaped(image)
  BY DocumentsAssumption DEF Live, Translated, image
<1>4. /\ Arg(a) \in Nat /\ Core!Arg(a) = Arg(a)
      /\ Core!TypeOf(Code.args[a]) = image.addressType
  BY CodeReads DEF Reads
<1>5. CAccessFault(image, Code, Arg(a)) = AccessFault(image, Code, Arg(a))
  BY <1>2, <1>4, SameAccessFault
<1> QED BY <1>2, <1>3, <1>4, <1>5, CoreMemory DEF WellShaped

(* A load faults as the executor faults, or reads the same bytes (SameLoad). *)
LEMMA LoadSimulated ==
  ASSUME Live, DataOK, LoadInsn
  PROVE  Simulated
<1> DEFINE fault == CAccessFault(image, Code, Arg(1))
           x     == CLoadValue(image, memory, Code, Arg(1))
<1>1. /\ At("load") /\ UNCHANGED dataVars /\ Code.op = "load"
      /\ UNCHANGED <<document, runs>> /\ "load" \in InsnOps
      /\ IF fault # NoName THEN Fail(fault, NoName) /\ UNCHANGED frames ELSE Define(x)
  BY DEF LoadInsn, At, hostVars, InsnOps, Arity
<1>2. /\ Code.result # NoName /\ 1 \in DOMAIN Code.args
      /\ HasType(Scope(Top), Code.args[1], image.addressType)
  BY <1>1, InsnHere DEF InsnShaped, CallOps, Arity, InsnOK, LoadOK
<1>3. /\ Code.width \in AccessWidths /\ Code.type \in IntTypes
      /\ image.bigEndian \in BOOLEAN /\ image.memorySize \in Nat
      /\ Arg(1) \in Nat /\ Core!Arg(1) = Arg(1)
      /\ Core!TypeOf(Code.args[1]) = image.addressType
      /\ fault = AccessFault(image, Code, Arg(1))
      /\ Core!AccessFault(image, Code, Arg(1)) = fault
  BY <1>1, <1>2, AccessHere
<1>4. \A a \in Addresses(image) : memory[a] \in Int
  BY ByteBitsAssumption, TypeWidths, Power DEF DataOK, Byte
<1> HIDE DEF fault
<1>5. ASSUME fault = NoName PROVE x = LoadValue(image, memory, Code, Arg(1)) /\ x \in Int
  <2>1. PICK m : m = image
    OBVIOUS
  <2>2. PICK i : i = Code
    OBVIOUS
  <2>3. AccessFault(m, i, Arg(1)) = NoName
    BY <1>3, <1>5, <2>1, <2>2
  <2>4. /\ CLoadValue(m, memory, i, Arg(1)) = LoadValue(m, memory, i, Arg(1))
        /\ LoadValue(m, memory, i, Arg(1)) \in Nat
    BY <1>3, <1>4, <2>1, <2>2, <2>3, SameLoad
  <2> QED BY <2>1, <2>2, <2>4
<1> HIDE DEF x
<1>6. DataOK' /\ UNCHANGED Core!dataVars
  BY <1>1, DataStays DEF dataVars
<1>7. /\ (IF runs = 0 THEN NoValues ELSE memory) = memory
      /\ Core!image = image
  BY DEF Live, Core!image, image
<1>8. CASE fault # NoName
  <2>1. Shaped /\ Core!At("load") /\ Core!Raise(fault, NoName)
    BY <1>1, <1>8, FailStep
  <2>2. Core!LoadInsn
    BY <1>3, <1>6, <1>7, <1>8, <2>1, CoreTop, CoreTypes DEF Core!LoadInsn
  <2> QED BY <1>6, <2>1, <2>2 DEF Simulated, Core!Next, Core!Execute, Core!Instruction
<1>9. CASE fault = NoName
  <2>1. Shaped /\ Core!At("load") /\ Core!Define(x)
    BY <1>1, <1>2, <1>5, <1>9, DefineStep
  <2>2. Core!LoadValue(image, memory, Code, Arg(1)) = x
    BY <1>5, <1>9, CoreMemory
  <2>3. Core!LoadInsn
    BY <1>3, <1>6, <1>7, <1>9, <2>1, <2>2, CoreTop, CoreTypes DEF Core!LoadInsn
  <2> QED BY <1>6, <2>1, <2>3 DEF Simulated, Core!Next, Core!Execute, Core!Instruction
<1> QED BY <1>8, <1>9

(* A store that faults writes nothing; else it writes the same bytes (SameStored). *)
LEMMA StoreSimulated ==
  ASSUME Live, DataOK, StoreInsn
  PROVE  Simulated
<1> DEFINE fault == CAccessFault(image, Code, Arg(2))
           v     == Mask(Arg(1), Code.width)
           new   == CStored(image, memory, Code, Arg(2), Arg(1))
<1>1. /\ At("store") /\ Code.op = "store" /\ UNCHANGED <<state, requests>>
      /\ UNCHANGED <<document, runs>> /\ "store" \in InsnOps
      /\ IF fault # NoName THEN Fail(fault, NoName) /\ UNCHANGED <<memory, frames>>
         ELSE memory' = new /\ Replace(Advanced(Top))
  BY DEF StoreInsn, At, hostVars, InsnOps, Arity
<1>2. /\ Code.result = NoName /\ 1 \in DOMAIN Code.args /\ 2 \in DOMAIN Code.args
      /\ HasType(Scope(Top), Code.args[2], image.addressType)
  BY <1>1, InsnHere DEF InsnShaped, CallOps, Arity, InsnOK, StoreOK
<1>3. /\ Code.width \in AccessWidths
      /\ image.bigEndian \in BOOLEAN /\ image.memorySize \in Nat
      /\ Arg(2) \in Nat /\ Core!Arg(2) = Arg(2)
      /\ Core!TypeOf(Code.args[2]) = image.addressType
      /\ fault = AccessFault(image, Code, Arg(2))
      /\ Core!AccessFault(image, Code, Arg(2)) = fault
  BY <1>1, <1>2, AccessHere
<1>4. Arg(1) \in Int /\ Core!Arg(1) = Arg(1)
  BY <1>2, CodeReads
<1>5. v \in Int
  <2>1. Code.width \in 1..HostBits /\ HostBits \in Nat
    BY <1>3, AccessSize, TypeWidths DEF Positive
  <2>2. Code.width \in Nat
    BY <2>1
  <2>3. PICK y \in Int : y = Arg(1)
    BY <1>4
  <2>4. PICK n \in Nat : n = Code.width
    BY <2>2
  <2>5. Mask(y, n) \in Nat
    BY MaskFits
  <2> QED BY <2>3, <2>4, <2>5
<1>6. DOMAIN memory = Addresses(image) /\ DOMAIN memory \subseteq Int
      /\ \A a \in DOMAIN memory : memory[a] \in Byte
  BY <1>3 DEF DataOK, Addresses
<1>7. /\ new = Stored(image, memory, Code, Arg(2), v)
      /\ DOMAIN new = DOMAIN memory /\ \A a \in DOMAIN memory : new[a] \in Byte
  <2>1. PICK m : m = image
    OBVIOUS
  <2>2. PICK i : i = Code
    OBVIOUS
  <2>3. CStored(m, memory, i, Arg(2), Arg(1)) = Stored(m, memory, i, Arg(2), Mask(Arg(1), i.width))
    BY <1>3, <1>4, <1>6, <2>1, <2>2, SameStored
  <2>4. /\ DOMAIN Stored(m, memory, i, Arg(2), v) = DOMAIN memory
        /\ \A a \in DOMAIN memory : Stored(m, memory, i, Arg(2), v)[a] \in Byte
    BY <1>3, <1>5, <1>6, <2>1, <2>2, StoredBytes
  <2> QED BY <2>1, <2>2, <2>3, <2>4
<1>8. /\ Core!Mask(Core!Arg(1), Core!Code.width) = v
      /\ Core!Stored(image, memory, Code, Arg(2), v) = new
  BY <1>4, <1>7, CoreTop, CoreMask, CoreMemory
<1> HIDE DEF fault, new, v
<1>9. DataOK'
  <2>1. image' = image
    BY <1>1 DEF image
  <2> QED BY <1>1, <1>6, <1>7, <2>1 DEF DataOK
<1>10. /\ (IF runs = 0 THEN NoValues ELSE memory) = memory
       /\ (IF runs' = 0 THEN NoValues ELSE memory') = memory'
       /\ (IF runs = 0 THEN NoValues ELSE state)' = (IF runs = 0 THEN NoValues ELSE state)
       /\ Core!image = image
  BY <1>1 DEF Live, Core!image, image
<1>11. CASE fault # NoName
  <2>1. Shaped /\ Core!At("store") /\ Core!Raise(fault, NoName)
    BY <1>1, <1>11, FailStep
  <2>2. Core!StoreInsn
    BY <1>1, <1>3, <1>10, <1>11, <2>1, CoreTop, CoreTypes DEF Core!StoreInsn
  <2> QED BY <1>9, <2>1, <2>2 DEF Simulated, Core!Next, Core!Execute, Core!Instruction
<1>12. CASE fault = NoName
  <2>1. Shaped /\ Core!At("store") /\ Core!Replace(Core!Advanced(Core!Top))
    BY <1>1, <1>2, <1>12, AdvanceStep
  <2>2. Core!StoreInsn
    BY <1>1, <1>3, <1>8, <1>10, <1>12, <2>1, CoreTop, CoreTypes DEF Core!StoreInsn
  <2> QED BY <1>9, <2>1, <2>2 DEF Simulated, Core!Next, Core!Execute, Core!Instruction
<1> QED BY <1>11, <1>12

----------------------------------------------------------------------------
(* Calls. *)

(* Lists with the same elements are the same. *)
LEMMA ListEqual ==
  ASSUME NEW s, NEW t, IsList(s), IsList(t), Len(s) = Len(t), \A k \in 1..Len(s) : s[k] = t[k]
  PROVE  s = t
<1>1. s \in [1..Len(s) -> Elements(s)] /\ t \in [1..Len(t) -> Elements(t)]
  BY LenProperties DEF IsList
<1> QED BY <1>1

(* A call is refused or entered at the same depth with the same arguments. *)
LEMMA CallSimulated ==
  ASSUME Live, DataOK, CallInsn
  PROVE  Simulated
<1> DEFINE name == Code.name
           n    == IndexOf(image.functions, name)
           f    == image.functions[n]
           new  == Frame(n, 1, 1, EntryValues(f, ArgValues))
<1>1. /\ At("call") /\ Code.op = "call" /\ UNCHANGED dataVars
      /\ CallFunction(name, ArgValues, Len(frames))
      /\ UNCHANGED <<document, runs>> /\ "call" \in InsnOps /\ Counted
  BY DEF CallInsn, At, hostVars, Counted, InsnOps, CallOps
<1>2. name \in Ids(image.functions)
  BY <1>1, InsnHere DEF InsnOK, CallOK
<1>3. n \in DOMAIN image.functions /\ Callee(image, name) = f
  BY <1>2, IndexOfId DEF Callee
<1>4. /\ IsList(ArgValues) /\ DOMAIN ArgValues = DOMAIN Code.args
      /\ \A k \in DOMAIN ArgValues : ArgValues[k] \in Int
  BY CodeReads, ListImage DEF ArgValues
<1>5. CoreStack = [k \in DOMAIN frames |-> Activation(frames[k])]
  BY DEF Live, CoreStack
<1>6. Core!Enter(name, ArgValues, Len(frames))
  BY <1>1, <1>2, <1>4, <1>5, CoreEnter DEF Live
<1>7. phase' # "entered"
  BY <1>1 DEF CallFunction, Fail
<1>8. Core!At("call")
  BY <1>1, <1>7, CoreAt
<1>9. DataOK' /\ UNCHANGED Core!dataVars
  BY <1>1, DataStays DEF dataVars
<1>10. Core!Depth(CoreStack) + 1 = Len(frames)
  BY StackIs, TopSound DEF Core!Depth
<1>11. Core!CallInsn
  BY <1>6, <1>8, <1>9, <1>10, CoreTop, CodeReads DEF Core!CallInsn, CoreStack
<1>12. Calls \/ Fails
  <2>1. CASE Fails
    BY <2>1
  <2>2. CASE ~Fails
    <3>1. /\ frames' = Append(frames, new) /\ phase' = "running" /\ UNCHANGED failVars
          /\ Len(ArgValues) = Len(f.params)
      BY <1>1, <1>3, <2>2 DEF CallFunction, Fail, Fails
    <3>2. IsList(f.params)
      <4>1. FunctionShaped(f)
        BY <1>3, DocumentsAssumption DEF Live, Translated, image, WellShaped, Elements
      <4> QED BY <4>1 DEF FunctionShaped, Named
    <3>3. DOMAIN ArgValues = DOMAIN f.params
      BY <1>4, <3>1, <3>2, ListLen
    <3>4. SoundFrame(new)
      <4>1. \A k \in DOMAIN image.functions[n].params : ArgValues[k] \in Int
        BY <1>4, <3>3
      <4> QED BY <1>3, <4>1, EntrySound DEF Live
    <3>5. new.fn = n
      BY DEF Frame
    <3> HIDE DEF new
    <3> QED BY <1>1, <3>1, <3>4, <3>5 DEF Calls, Going, Live
  <2> QED BY <2>1, <2>2
<1> QED BY <1>1, <1>9, <1>11, <1>12
        DEF Simulated, Shaped, Core!Next, Core!Execute, Core!Instruction

(* The callback of the C gets what the binding of the executor gets. *)
LEMMA HostCallSimulated ==
  ASSUME Live, DataOK, HostCall
  PROVE  Simulated
<1>1. /\ At("host_call") /\ Code.op = "host_call" /\ UNCHANGED <<state, memory>>
      /\ requests' = Append(requests, <<Code.name, ArgValues>>)
      /\ UNCHANGED <<document, runs>> /\ "host_call" \in InsnOps
  BY DEF HostCall, At, hostVars, InsnOps, CallOps
<1>2. /\ DataOK'
      /\ UNCHANGED <<IF runs = 0 THEN NoValues ELSE state, IF runs = 0 THEN NoValues ELSE memory>>
      /\ requests' = Append(requests, <<Core!Code.name, Core!ArgValues>>)
  BY <1>1, DataStays, CoreTop, CodeReads
<1> DEFINE Same == Shaped /\ Core!HostCall
<1>3. ASSUME Fail("host-failure", Code.name), UNCHANGED frames PROVE Same
  <2>1. Shaped /\ Core!At("host_call") /\ Core!Raise("host-failure", Code.name)
    BY <1>1, <1>3, FailStep
  <2>2. Core!HostCall
    BY <1>2, <2>1, CoreTop DEF Core!HostCall
  <2> QED BY <2>1, <2>2
<1>4. ASSUME NEW reply \in HostReplies,
             IF Code.result = NoName THEN Replace(Advanced(Top))
             ELSE IF reply = <<>> THEN Fail("host-void", Code.name) /\ UNCHANGED frames
             ELSE Define(reply[1])
      PROVE  Same
  <2>1. CASE Code.result = NoName
    <3>1. Shaped /\ Core!At("host_call") /\ Core!Replace(Core!Advanced(Core!Top))
      BY <1>1, <1>4, <2>1, AdvanceStep
    <3>2. Core!HostCall
      BY <1>2, <2>1, <3>1, CoreTop, CoreTypes DEF Core!HostCall
    <3> QED BY <3>1, <3>2
  <2>2. CASE Code.result # NoName /\ reply = <<>>
    <3>1. Shaped /\ Core!At("host_call") /\ Core!Raise("host-void", Code.name)
      BY <1>1, <1>4, <2>2, FailStep
    <3>2. Core!HostCall
      BY <1>2, <2>2, <3>1, CoreTop, CoreTypes DEF Core!HostCall
    <3> QED BY <3>1, <3>2
  <2>3. CASE Code.result # NoName /\ reply # <<>>
    <3> DEFINE x == reply[1]
    <3>1. Define(x) /\ x \in Int
      BY <1>4, <2>3, IntegersAssumption
    <3> HIDE DEF x
    <3>2. Shaped /\ Core!At("host_call") /\ Core!Define(x)
      BY <1>1, <2>3, <3>1, DefineStep
    <3>3. Core!HostCall
      BY <1>2, <2>3, <3>2, CoreTop, CoreTypes DEF Core!HostCall, x
    <3> QED BY <3>2, <3>3
  <2> QED BY <2>1, <2>2, <2>3
<1>5. Same
  <2> HIDE DEF Same
  <2>1. \/ Fail("host-failure", Code.name) /\ UNCHANGED frames
        \/ \E reply \in HostReplies :
             IF Code.result = NoName THEN Replace(Advanced(Top))
             ELSE IF reply = <<>> THEN Fail("host-void", Code.name) /\ UNCHANGED frames
             ELSE Define(reply[1])
    BY Zenon DEF HostCall
  <2> QED BY <1>3, <1>4, <2>1
<1> QED BY <1>2, <1>5 DEF Simulated, Core!Next, Core!Execute, Core!Instruction

----------------------------------------------------------------------------
(* Terminators. *)

(* The operation past max_operations fails before it is executed. *)
LEMMA LimitSimulated ==
  ASSUME Live, DataOK, OperationLimit
  PROVE  Simulated
<1>1. /\ Exhausted /\ operations' = operations + 1 /\ Fail("operation-limit", NoName)
      /\ UNCHANGED <<document, runs>> /\ UNCHANGED dataVars /\ UNCHANGED frames /\ Counted
  BY DEF OperationLimit, hostVars, Counted
<1>2. Core!Raise("operation-limit", NoName)
  BY <1>1, CoreRaise
<1>3. DataOK' /\ UNCHANGED Core!dataVars
  BY <1>1, DataStays DEF dataVars
<1>4. CorePhase = "running" /\ Core!Exhausted = Exhausted /\ UNCHANGED Core!loaderVars
  BY <1>1 DEF Live, CorePhase, Core!Exhausted, Core!image, Exhausted, image,
       Core!loaderVars, Fail
<1>5. Core!OperationLimit
  BY <1>1, <1>2, <1>3, <1>4, CoreTypes DEF Core!OperationLimit
<1> QED BY <1>1, <1>3, <1>5 DEF Simulated, Shaped, Fails, Fail, Core!Next, Core!Execute

(* What a terminator is. *)
LEMMA TermHere ==
  ASSUME Live, Code.op \in TermOps
  PROVE  /\ FunctionOK(image, Fn) /\ FunctionShaped(Fn) /\ IsList(Fn.blocks)
         /\ TermShaped(Code) /\ TermOK(image, Fn, Scope(Top), Code)
         /\ IsList(Code.targets) /\ DOMAIN Code.targets = 1..Len(Code.targets)
<1>1. /\ FunctionOK(image, Fn) /\ FunctionShaped(Fn) /\ IsList(Fn.blocks)
      /\ TermShaped(Code) /\ TermOK(image, Fn, Scope(Top), Code)
  BY TopSound, CodeHere DEF Live, SoundFrame, Fn, Code
<1> QED BY <1>1, ListLen DEF TermShaped

(* A jump, *)
LEMMA JumpSimulated ==
  ASSUME Live, DataOK, Jump
  PROVE  Simulated
<1>1. /\ At("jump") /\ Goto(Code.targets[1]) /\ UNCHANGED dataVars /\ Code.op = "jump"
      /\ UNCHANGED <<document, runs>> /\ "jump" \in TermOps
  BY DEF Jump, At, hostVars, TermOps
<1>2. Code.targets[1] \in Elements(Code.targets)
  BY <1>1, TermHere DEF TermShaped, Elements
<1>3. Shaped /\ Core!At("jump") /\ Core!GoTo(Code.targets[1])
  BY <1>1, <1>2, GotoStep
<1>4. DataOK' /\ UNCHANGED Core!dataVars
  BY <1>1, DataStays DEF dataVars
<1>5. Core!Jump
  BY <1>3, <1>4, CoreTop DEF Core!Jump
<1> QED BY <1>3, <1>4, <1>5 DEF Simulated, Core!Next, Core!Execute, Core!Terminator

(* a branch on a condition *)
LEMMA BranchSimulated ==
  ASSUME Live, DataOK, Branch
  PROVE  Simulated
<1> DEFINE id == Code.targets[IF Arg(1) # 0 THEN 1 ELSE 2]
<1>1. /\ At("branch") /\ Goto(id) /\ UNCHANGED dataVars /\ Code.op = "branch"
      /\ UNCHANGED <<document, runs>> /\ "branch" \in TermOps
  BY DEF Branch, At, hostVars, TermOps
<1>2. Len(Code.targets) = 2 /\ Len(Code.args) = 1
  BY <1>1, TermHere DEF TermShaped
<1>3. id \in Elements(Code.targets)
  BY <1>2, TermHere DEF Elements
<1>4. 1 \in DOMAIN Code.args
  BY <1>2, CodeReads, ListLen
<1>5. Core!Arg(1) = Arg(1)
  BY <1>4, CodeReads
<1>6. id = IF Core!Arg(1) # 0 THEN Code.targets[1] ELSE Code.targets[2]
  BY <1>5
<1> HIDE DEF id
<1>7. Shaped /\ Core!At("branch") /\ Core!GoTo(id)
  BY <1>1, <1>3, GotoStep
<1>8. DataOK' /\ UNCHANGED Core!dataVars
  BY <1>1, DataStays DEF dataVars
<1>9. Core!Branch
  BY <1>6, <1>7, <1>8, CoreTop DEF Core!Branch
<1> QED BY <1>7, <1>8, <1>9 DEF Simulated, Core!Next, Core!Execute, Core!Terminator

(* and a trap, which is a fault. *)
LEMMA TrapSimulated ==
  ASSUME Live, DataOK, Trap
  PROVE  Simulated
<1>1. /\ At("trap") /\ Fail("trap", NoName) /\ UNCHANGED frames /\ UNCHANGED dataVars
      /\ UNCHANGED <<document, runs>>
  BY DEF Trap, At, hostVars
<1>2. Shaped /\ Core!At("trap") /\ Core!Raise("trap", NoName)
  BY <1>1, FailStep
<1>3. DataOK' /\ UNCHANGED Core!dataVars
  BY <1>1, DataStays DEF dataVars
<1>4. Core!Trap
  BY <1>2, <1>3, CoreTypes DEF Core!Trap
<1> QED BY <1>2, <1>3, <1>4 DEF Simulated, Core!Next, Core!Execute, Core!Terminator

(* The C's switch over the candidates and the executor's table of block    *)
(* addresses find the same block, since no two blocks share an address.    *)
LEMMA IndirectSimulated ==
  ASSUME Live, DataOK, IndirectJump, UniqueAddresses(Fn)
  PROVE  Simulated
<1> DEFINE blocks == Fn.blocks
           target == Arg(1)
           cases  == {id \in Elements(Code.targets) : blocks[IndexOf(blocks, id)].address = target}
           found  == {b \in DOMAIN blocks : /\ blocks[b].address = target
                                            /\ \A c \in DOMAIN blocks :
                                                 blocks[c].address = target => c <= b}
           chosen == CHOOSE b \in found : TRUE
<1>1. /\ At("indirect_jump") /\ UNCHANGED dataVars /\ Code.op = "indirect_jump"
      /\ UNCHANGED <<document, runs>> /\ "indirect_jump" \in TermOps
      /\ IF cases = {} THEN Fail("indirect-target", NoName) /\ UNCHANGED frames
         ELSE Goto(CHOOSE id \in cases : TRUE)
  BY DEF IndirectJump, At, hostVars, TermOps
<1>2. Len(Code.args) = 1
  BY <1>1, TermHere DEF TermShaped
<1>3. 1 \in DOMAIN Code.args
  BY <1>2, CodeReads, ListLen
<1>4. Core!Arg(1) = target
  BY <1>3, CodeReads
<1>5. /\ \A i, j \in DOMAIN blocks : blocks[i].id = blocks[j].id => i = j
      /\ \A b, c \in DOMAIN blocks : blocks[b].address = blocks[c].address => b = c
      /\ DOMAIN blocks \subseteq Int
  BY <1>1, TermHere, ListLen DEF FunctionOK, UniqueIds, UniqueAddresses
<1>6. \A id \in Elements(Code.targets) :
        /\ IndexOf(blocks, id) \in DOMAIN blocks /\ blocks[IndexOf(blocks, id)].id = id
  BY <1>1, TargetIsBlock
<1>7. /\ Core!BlockAtAddress(Core!Fn, Core!Arg(1)) = found
      /\ Core!Fn.blocks = blocks
      /\ Core!Elements(Core!Code.targets) = Elements(Code.targets)
  BY <1>4, CoreTop, CoreElements DEF Core!BlockAtAddress
<1>8. DataOK' /\ UNCHANGED Core!dataVars
  BY <1>1, DataStays DEF dataVars
<1> HIDE DEF blocks, target
<1>9. CASE cases = {}
  <2>1. Shaped /\ Core!At("indirect_jump") /\ Core!Raise("indirect-target", NoName)
    BY <1>1, <1>9, FailStep
  <2>2. found # {} => blocks[chosen].id \notin Elements(Code.targets)
    <3>1. SUFFICES ASSUME found # {}, blocks[chosen].id \in Elements(Code.targets) PROVE FALSE
      OBVIOUS
    <3>2. chosen \in found
      BY <3>1
    <3> HIDE DEF chosen
    <3>3. chosen \in DOMAIN blocks /\ blocks[chosen].address = target
      BY <3>2
    <3>4. IndexOf(blocks, blocks[chosen].id) = chosen
      BY <1>5, <1>6, <3>1, <3>3
    <3>5. blocks[chosen].id \in cases
      BY <3>1, <3>3, <3>4
    <3> QED BY <1>9, <3>5
  <2> HIDE DEF found, cases
  <2>3. Core!IndirectJump
    BY <1>7, <1>8, <2>1, <2>2, CoreTypes DEF Core!IndirectJump, chosen
  <2> QED BY <1>8, <2>1, <2>3 DEF Simulated, Core!Next, Core!Execute, Core!Terminator
<1>10. CASE cases # {}
  <2> DEFINE id == CHOOSE id \in cases : TRUE
             b  == IndexOf(blocks, id)
  <2>1. id \in cases
    BY <1>10
  <2>2. Goto(id)
    BY <1>1, <1>10
  <2> HIDE DEF id
  <2>3. /\ id \in Elements(Code.targets) /\ b \in DOMAIN blocks
        /\ blocks[b].address = target /\ blocks[b].id = id
    BY <1>6, <2>1
  <2>4. Shaped /\ Core!At("indirect_jump") /\ Core!GoTo(id)
    BY <1>1, <2>2, <2>3, GotoStep
  <2> HIDE DEF b, cases
  <2>5. found = {b}
    BY <1>5, <2>3
  <2> HIDE DEF found
  <2>6. found # {} /\ chosen = b
    BY <2>5
  <2> HIDE DEF chosen
  <2>7. Core!IndirectJump
    BY <1>7, <1>8, <2>3, <2>4, <2>6, CoreTypes DEF Core!IndirectJump, chosen
  <2> QED BY <1>8, <2>4, <2>7 DEF Simulated, Core!Next, Core!Execute, Core!Terminator
<1> QED BY <1>9, <1>10

----------------------------------------------------------------------------
(* Returns. *)

(* Each C function but the last waits at the call of the next one. *)
Waiting ==
  \A k \in 1..(Len(frames) - 1) :
    /\ CodeOf(frames[k]).op = "call"
    /\ frames[k + 1].fn = IndexOf(image.functions, CodeOf(frames[k]).name)

(* A return has a value just if the function has a type, and it fits it. *)
LEMMA ReturnHere ==
  ASSUME Live, Code.op = "return"
  PROVE  /\ HasReturn <=> Fn.returnType # Void
         /\ HasReturn => /\ ReturnValue = Arg(1) /\ Core!Arg(1) = Arg(1) /\ Arg(1) \in Int
                         /\ ArgValues = <<Arg(1)>>
         /\ ~HasReturn => ArgValues = <<>>
<1>1. /\ TermShaped(Code) /\ TermOK(image, Fn, Scope(Top), Code)
      /\ Fn.returnType \in IntTypes \cup {Void} /\ Code.op \in TermOps
  BY TermHere DEF TermOps, FunctionShaped
<1>2. /\ IF Fn.returnType = Void THEN Code.args = <<>>
         ELSE Code.args # <<>> /\ HasType(Scope(Top), Code.args[1], Fn.returnType)
      /\ Len(Code.args) <= 1
  BY <1>1 DEF TermOK, TermShaped
<1>3. HasReturn <=> Fn.returnType # Void
  BY <1>2 DEF HasReturn
<1>4. CASE HasReturn
  <2>1. Len(Code.args) = 1 /\ DOMAIN Code.args = 1..1
    <3> DEFINE n == Len(Code.args)
    <3>1. n \in Nat /\ DOMAIN Code.args = 1..n /\ n > 0 /\ n <= 1
      BY <1>2, <1>4, CodeReads, ListLen DEF HasReturn
    <3> HIDE DEF n
    <3>2. n = 1
      BY <3>1
    <3> QED BY <3>1, <3>2 DEF n
  <2>2. 1 \in DOMAIN Code.args /\ HasType(Scope(Top), Code.args[1], Fn.returnType)
    BY <1>2, <1>3, <1>4, <2>1
  <2>3. Core!Arg(1) = Arg(1) /\ Arg(1) \in Nat /\ Fits(Arg(1), Fn.returnType)
    <3>1. \A a \in DOMAIN Code.args : Core!Arg(a) = Arg(a) /\ Arg(a) \in Nat
      BY CodeReads
    <3>2. \A a \in DOMAIN Code.args : \A t :
            HasType(Scope(Top), Code.args[a], t) => Fits(Arg(a), t)
      BY CodeReads
    <3> QED BY <2>2, <3>1, <3>2
  <2>4. Fn.returnType \in IntTypes
    BY <1>1, <1>3, <1>4
  <2>5. PICK n \in Nat : n = TypeBits[Fn.returnType]
    BY <2>4, TypeWidths DEF Positive
  <2>6. PICK y \in Nat : y = Arg(1)
    BY <2>3
  <2>7. y < Pow2[n]
    BY <2>3, <2>5, <2>6 DEF Fits
  <2>8. Mask(y, n) = y
    BY <2>7, MaskKeeps
  <2>9. ReturnValue = Arg(1)
    BY <1>4, <2>5, <2>6, <2>8 DEF ReturnValue
  <2>10. ArgValues = <<Arg(1)>>
    BY <2>1 DEF ArgValues
  <2> QED BY <1>3, <1>4, <2>3, <2>9, <2>10
<1>5. CASE ~HasReturn
  <2>1. Code.args = <<>> /\ DOMAIN Code.args = {}
    BY <1>5 DEF HasReturn
  <2>2. ArgValues = [k \in {} |-> Arg(k)]
    BY <2>1 DEF ArgValues
  <2> QED BY <1>3, <1>5, <2>2, EmptySeq
<1> QED BY <1>4, <1>5

(* The return of the entry function is the end of the run. *)
LEMMA RunReturnsSimulated ==
  ASSUME Live, DataOK, RunReturns
  PROVE  Simulated
<1>1. /\ Len(frames) = 1 /\ Code.op = "return" /\ ~Exhausted /\ Counted
      /\ entryHas' = HasReturn /\ entryReturn' = ReturnValue
      /\ phase' = "idle" /\ frames' = <<>> /\ UNCHANGED failVars /\ UNCHANGED dataVars
      /\ UNCHANGED <<document, runs>>
  BY DEF RunReturns, hostVars, Counted
<1>2. Core!At("return")
  BY <1>1, CoreStep
<1>3. DataOK' /\ UNCHANGED Core!dataVars
  BY <1>1, DataStays DEF dataVars
<1>4. ArgValues = IF HasReturn THEN <<ReturnValue>> ELSE <<>>
  BY <1>1, ReturnHere
<1>5. CoreOutcome' = Core!Returned(Core!ArgValues)
  BY <1>1, <1>4, CodeReads DEF CoreOutcome, Core!Returned, Live, failVars
<1>6. CorePhase' = "ready" /\ CoreStack' = <<>>
  BY <1>1 DEF Live, CorePhase, CoreStack
<1>7. Len(CoreStack) = 1
  BY <1>1, StackIs
<1>8. Core!Return
  BY <1>2, <1>3, <1>5, <1>6, <1>7 DEF Core!Return, CoreStack
<1> QED BY <1>1, <1>3, <1>8
        DEF Simulated, Shaped, Ends, Core!Next, Core!Execute, Core!Terminator

(* The caller of a function that returns goes on after its call. *)
LEMMA ReturnSimulated ==
  ASSUME Live, DataOK, Waiting, ReturnToCaller
  PROVE  Simulated
<1> DEFINE len    == Len(frames)
           caller == frames[len - 1]
           call   == CodeOf(caller)
           new    == IF call.result = NoName THEN Advanced(caller)
                     ELSE Assigned(caller, call, ReturnValue)
<1>1. /\ len > 1 /\ At("return") /\ Code.op = "return" /\ UNCHANGED dataVars
      /\ UNCHANGED <<document, runs>> /\ Counted /\ len \in Nat
  BY TopSound DEF ReturnToCaller, At, hostVars, Counted
<1>2. SoundFrame(caller) /\ call.op = "call" /\ Top.fn = IndexOf(image.functions, call.name)
  <2> HIDE DEF len
  <2>1. len - 1 \in 1..len /\ len - 1 \in 1..(len - 1) /\ (len - 1) + 1 = len
    BY <1>1
  <2> QED BY <2>1 DEF Live, Waiting, Top, len
<1>3. call.op \in InsnOps
  BY <1>2 DEF InsnOps, CallOps
<1>4. call.result # NoName => HasReturn
  <2>1. InsnShaped(call) /\ CallOK(image, Scope(caller), call)
    BY <1>2, <1>3, CodeHere DEF Live, SoundFrame, InsnOK
  <2>2. call.result # NoName => call.type = Fn.returnType
    BY <1>2, <2>1 DEF CallOK, Callee, Fn, FnOf
  <2>3. call.type # Void
    BY <2>1 DEF InsnShaped, IntTypes, TypeBits, Void
  <2> QED BY <1>1, <2>2, <2>3, ReturnHere
<1>5. HasReturn => ReturnValue \in Int /\ Core!Arg(1) = ReturnValue
  BY <1>1, ReturnHere
<1>6. /\ SoundFrame(new) /\ new.fn = caller.fn
      /\ Activation(new) = IF call.result = NoName THEN Core!Advanced(Activation(caller))
                           ELSE Core!Assigned(Activation(caller), call, Core!Arg(1))
  <2>1. CASE call.result = NoName
    BY <1>2, <1>3, <2>1, AdvancedSound, AdvancedActivation DEF Live
  <2>2. CASE call.result # NoName
    <3> DEFINE x == ReturnValue
    <3>1. x \in Int /\ Core!Arg(1) = x
      BY <1>4, <1>5, <2>2
    <3> HIDE DEF x
    <3>2. /\ SoundFrame(Assigned(caller, call, x)) /\ Assigned(caller, call, x).fn = caller.fn
          /\ Activation(Assigned(caller, call, x)) = Core!Assigned(Activation(caller), call, x)
      BY <1>2, <1>3, <2>2, <3>1, AssignedSound, AssignedActivation DEF Live
    <3> QED BY <2>2, <3>1, <3>2 DEF x
  <2> QED BY <2>1, <2>2
<1>7. frames' = Append(SubSeq(frames, 1, len - 2), new) /\ UNCHANGED <<phase, failVars>>
  BY <1>4 DEF ReturnToCaller
<1> HIDE DEF new
<1>8. Resumes
  BY <1>1, <1>6, <1>7 DEF Resumes, Going
<1>9. Core!At("return")
  BY <1>1, <1>7, CoreAt DEF Live
<1>10. DataOK' /\ UNCHANGED Core!dataVars
  BY <1>1, DataStays DEF dataVars
<1>11. UNCHANGED <<CorePhase, CoreOutcome>>
  BY <1>1, <1>7, NoOutcomeYet
<1>12. /\ IsList(CoreStack) /\ Len(CoreStack) = len
       /\ \A k \in 1..len : CoreStack[k] = Activation(frames[k])
  BY StackIs
<1>13. CoreStack' = Append(SubSeq(CoreStack, 1, len - 2), Activation(new))
  <2> DEFINE u == Append(SubSeq(CoreStack, 1, len - 2), Activation(new))
  <2>1. /\ IsList(u) /\ Len(u) = len - 1
        /\ \A k \in 1..(len - 2) : u[k] = CoreStack[k]
        /\ u[len - 1] = Activation(new)
    <3>1. LET t == Append(SubSeq(CoreStack, 1, Len(CoreStack) - 2), Activation(new))
          IN  /\ IsList(t)
              /\ Len(t) = Len(CoreStack) - 1
              /\ \A k \in 1..(Len(CoreStack) - 2) : t[k] = CoreStack[k]
              /\ t[Len(CoreStack) - 1] = Activation(new)
      BY <1>1, <1>12, ListPop
    <3> QED BY <1>12, <3>1
  <2>2. /\ IsList(frames') /\ Len(frames') = len - 1
        /\ \A k \in 1..(len - 2) : frames'[k] = frames[k]
        /\ frames'[len - 1] = new
    <3>1. LET t == Append(SubSeq(frames, 1, Len(frames) - 2), new)
          IN  /\ IsList(t)
              /\ Len(t) = Len(frames) - 1
              /\ \A k \in 1..(Len(frames) - 2) : t[k] = frames[k]
              /\ t[Len(frames) - 1] = new
      BY <1>1, ListPop DEF Live
    <3> QED BY <1>7, <3>1
  <2>3. phase' = "running"
    BY <1>7 DEF Live
  <2>4. CoreStack' = [k \in DOMAIN frames' |-> Activation(frames'[k])]
    BY <1>1, <2>3, StackAfter
  <2> HIDE DEF u, len
  <2>5. IsList(CoreStack') /\ Len(CoreStack') = len - 1
    <3> DEFINE w == CoreStack'
    <3>1. w = [k \in DOMAIN frames' |-> w[k]]
      BY <2>4
    <3> HIDE DEF w
    <3>2. IsList(w) /\ Len(w) = Len(frames')
      BY <2>2, <3>1, ListImage
    <3> QED BY <2>2, <3>2 DEF w
  <2>6. ASSUME NEW k \in 1..(len - 1) PROVE CoreStack'[k] = u[k]
    <3>1. k \in DOMAIN frames'
      BY <2>2, ListLen
    <3>2. k \in 1..(len - 2) \/ k = len - 1
      BY <1>1
    <3>3. k \in 1..len
      BY <1>1
    <3> QED BY <1>12, <2>1, <2>2, <2>4, <3>1, <3>2, <3>3
  <2> DEFINE w == CoreStack'
  <2>7. IsList(w) /\ Len(w) = Len(u) /\ \A k \in 1..Len(w) : w[k] = u[k]
    BY <2>1, <2>5, <2>6
  <2> HIDE DEF w
  <2>8. w = u
    BY <2>1, <2>7, ListEqual
  <2> QED BY <2>8 DEF w, u
<1>14. /\ Len(CoreStack) # 1
       /\ CoreStack[Len(CoreStack) - 1] = Activation(caller)
  <2>1. len - 1 \in 1..len
    BY <1>1
  <2> QED BY <1>1, <1>12, <2>1
<1>15. Core!CodeOf(Activation(caller)) = call
  BY CoreLookup DEF Activation, Core!CodeOf, Core!FnOf, Core!image, CodeOf, FnOf, image
<1>16. call.result # NoName => Code.args # <<>>
  BY <1>4 DEF HasReturn
<1> HIDE DEF caller, call
<1>17. Core!Return
  <2>1. CASE call.result = NoName
    BY <1>6, <1>9, <1>10, <1>11, <1>12, <1>13, <1>14, <1>15, <2>1, CoreTypes
       DEF Core!Return, CoreStack
  <2>2. CASE call.result # NoName
    <3> DEFINE below == CoreStack[Len(CoreStack) - 1]
    <3>1. CoreStack' = Append(SubSeq(CoreStack, 1, Len(CoreStack) - 2),
                              Core!Assigned(below, Core!CodeOf(below), Core!Arg(1)))
      BY <1>6, <1>12, <1>13, <1>14, <1>15, <2>2
    <3>2. Core!Code.args # <<>> /\ Core!CodeOf(below).result # Core!NoName /\ Len(CoreStack) # 1
      BY <1>14, <1>15, <1>16, <2>2, CoreTop, CoreTypes
    <3> QED BY <1>9, <1>10, <1>11, <3>1, <3>2 DEF Core!Return, CoreStack
  <2> QED BY <2>1, <2>2
<1> QED BY <1>1, <1>8, <1>10, <1>17
        DEF Simulated, Shaped, Core!Next, Core!Execute, Core!Terminator

(* Every step of the C that executes guest code is one of the executor. *)
LEMMA StepSimulated ==
  ASSUME Live, DataOK, Waiting, UniqueAddresses(Fn),
         OperationLimit \/ Instruction \/ Terminator
  PROVE  Simulated
BY LimitSimulated, ConstSimulated, ReadStateSimulated, WriteStateSimulated, BinopSimulated,
   CompareSimulated, CastSimulated, SelectSimulated, LoadSimulated, StoreSimulated,
   CallSimulated, HostCallSimulated, JumpSimulated, BranchSimulated, IndirectSimulated,
   TrapSimulated, ReturnSimulated, RunReturnsSimulated
   DEF Instruction, Terminator

----------------------------------------------------------------------------
(* The inductive invariant.                                                *)

(* The phases of a native module: only what is translated is run, and a    *)
(* failure is raised only in a run, whose functions return one by one.     *)
Control ==
  /\ document \in Documents
  /\ phase \in {"translating", "refused", "idle", "entered", "running", "unwinding"}
  /\ runs \in 0..MaxRuns /\ operations \in Nat
  /\ phase \in {"translating", "refused"} => runs = 0
  /\ phase \in {"entered", "running", "unwinding"} => runs > 0
  /\ phase \notin {"translating", "refused"} => Translatable(image)
  /\ failed \in BOOLEAN
  /\ failed => phase \in {"unwinding", "idle"}
  /\ phase = "unwinding" => failed

(* While a run goes on its C functions stand at code, in a chain of calls. *)
Working ==
  /\ IsList(frames) /\ frames # <<>>
  /\ \A k \in 1..Len(frames) : SoundFrame(frames[k])
  /\ Waiting

(* Only a run in progress has C functions, and only a translated image data. *)
AInv ==
  /\ Control
  /\ phase = "running" => Working
  /\ phase \notin {"running", "unwinding"} => frames = <<>>
  /\ phase \notin {"translating", "refused"} => DataOK

(* A run that goes on is live. *)
LEMMA RunIsLive ==
  ASSUME AInv, phase = "running"
  PROVE  Live /\ DataOK /\ Waiting /\ UniqueAddresses(Fn)
<1>1. Live /\ DataOK /\ Waiting
  BY DEF AInv, Control, Working, Live, Translated, Translatable
<1>2. Fn \in Elements(image.functions)
  BY <1>1, TopSound DEF SoundFrame, Placed, Fn, FnOf, Elements
<1> QED BY <1>1, <1>2 DEF AInv, Control, Translatable

(* The chain that a step leaves, given frame by frame. *)
LEMMA WorkingAfter ==
  ASSUME document' = document, IsList(frames'), frames' # <<>>,
         \A k \in 1..Len(frames') : SoundFrame(frames'[k]),
         \A k \in 1..(Len(frames') - 1) :
           /\ CodeOf(frames'[k]).op = "call"
           /\ frames'[k + 1].fn = IndexOf(image.functions, CodeOf(frames'[k]).name)
  PROVE  Working'
<1>1. image' = image
  BY DEF image
<1>2. (\A k \in 1..Len(frames) : SoundFrame(frames[k]))'
  BY <1>1 DEF SoundFrame, Placed, Filled, FnOf, Block
<1>3. Waiting'
  BY <1>1 DEF Waiting, CodeOf, FnOf
<1> QED BY <1>2, <1>3 DEF Working

(* The function that runs moves; its callers still wait for it, *)
LEMMA MovesWorking ==
  ASSUME Live, Waiting, Moves, document' = document
  PROVE  Working'
<1> DEFINE n == Len(frames)
<1>1. PICK new : /\ SoundFrame(new) /\ new.fn = Top.fn
                 /\ frames' = [frames EXCEPT ![n] = new]
  BY DEF Moves
<1>2. /\ IsList(frames') /\ Len(frames') = n /\ n \in Nat \ {0}
      /\ \A k \in 1..(n - 1) : frames'[k] = frames[k]
      /\ frames'[n] = new
  <2>1. LET t == [frames EXCEPT ![Len(frames)] = new]
        IN  /\ IsList(t)
            /\ Len(t) = Len(frames) /\ Len(frames) \in Nat \ {0}
            /\ \A k \in 1..(Len(frames) - 1) : t[k] = frames[k]
            /\ t[Len(frames)] = new
    BY ListReplace DEF Live
  <2> QED BY <1>1, <2>1
<1>3. frames[n].fn = new.fn
  BY <1>1 DEF Top
<1> HIDE DEF n
<1>4. \A k \in 1..n : SoundFrame(frames'[k]) /\ frames'[k].fn = frames[k].fn
  <2>1. SUFFICES ASSUME NEW k \in 1..n
                 PROVE  SoundFrame(frames'[k]) /\ frames'[k].fn = frames[k].fn
    OBVIOUS
  <2>2. k = n \/ k \in 1..(n - 1)
    BY <1>2
  <2> QED BY <1>1, <1>2, <1>3, <2>2 DEF Live, n
<1>5. \A k \in 1..(n - 1) :
        /\ CodeOf(frames'[k]).op = "call"
        /\ frames'[k + 1].fn = IndexOf(image.functions, CodeOf(frames'[k]).name)
  <2>1. SUFFICES ASSUME NEW k \in 1..(n - 1)
                 PROVE  /\ CodeOf(frames'[k]).op = "call"
                        /\ frames'[k + 1].fn = IndexOf(image.functions, CodeOf(frames'[k]).name)
    OBVIOUS
  <2>2. k + 1 \in 1..n /\ frames'[k] = frames[k]
    BY <1>2
  <2>3. frames'[k + 1].fn = frames[k + 1].fn
    BY <1>4, <2>2
  <2> QED BY <2>2, <2>3 DEF Waiting, n
<1>6. frames' # <<>>
  BY <1>2, ListLen
<1> QED BY <1>2, <1>4, <1>5, <1>6, WorkingAfter

(* or calls another, *)
LEMMA CallsWorking ==
  ASSUME Live, Waiting, Calls, document' = document
  PROVE  Working'
<1> DEFINE n == Len(frames)
<1>1. PICK new : /\ SoundFrame(new) /\ new.fn = IndexOf(image.functions, Code.name)
                 /\ frames' = Append(frames, new)
  BY DEF Calls
<1>2. /\ IsList(frames') /\ Len(frames') = n + 1 /\ n \in Nat \ {0}
      /\ \A k \in 1..n : frames'[k] = frames[k]
      /\ frames'[n + 1] = new
  <2>1. LET t == Append(frames, new)
        IN  /\ IsList(t)
            /\ Len(t) = Len(frames) + 1
            /\ \A k \in 1..Len(frames) : t[k] = frames[k]
            /\ t[Len(frames) + 1] = new
    BY ListAppend DEF Live
  <2> QED BY <1>1, <2>1, TopSound
<1>3. CodeOf(frames[n]) = Code /\ Code.op = "call"
  BY DEF Code, Top, Calls
<1> HIDE DEF n
<1>4. \A k \in 1..(n + 1) : SoundFrame(frames'[k])
  <2>1. SUFFICES ASSUME NEW k \in 1..(n + 1) PROVE SoundFrame(frames'[k])
    OBVIOUS
  <2>2. k = n + 1 \/ k \in 1..n
    BY <1>2
  <2> QED BY <1>1, <1>2, <2>2 DEF Live, n
<1>5. \A k \in 1..n :
        /\ CodeOf(frames'[k]).op = "call"
        /\ frames'[k + 1].fn = IndexOf(image.functions, CodeOf(frames'[k]).name)
  <2>1. SUFFICES ASSUME NEW k \in 1..n
                 PROVE  /\ CodeOf(frames'[k]).op = "call"
                        /\ frames'[k + 1].fn = IndexOf(image.functions, CodeOf(frames'[k]).name)
    OBVIOUS
  <2>2. CASE k = n
    <3>1. n \in 1..n
      BY <1>2
    <3> QED BY <1>1, <1>2, <1>3, <2>2, <3>1
  <2>3. CASE k # n
    <3>1. k \in 1..(n - 1) /\ k + 1 \in 1..n
      BY <1>2, <2>3
    <3> QED BY <1>2, <3>1 DEF Waiting, n
  <2> QED BY <2>2, <2>3
<1>6. frames' # <<>> /\ (n + 1) - 1 = n
  BY <1>2, ListLen
<1> QED BY <1>2, <1>4, <1>5, <1>6, WorkingAfter

(* or returns to its caller. *)
LEMMA ResumesWorking ==
  ASSUME Live, Waiting, Resumes, document' = document
  PROVE  Working'
<1> DEFINE len == Len(frames)
           n   == len - 1
<1>1. PICK new : /\ SoundFrame(new) /\ new.fn = frames[n].fn
                 /\ frames' = Append(SubSeq(frames, 1, len - 2), new)
  BY DEF Resumes
<1>2. len \in Nat /\ len > 1
  BY TopSound DEF Resumes
<1>3. LET t == Append(SubSeq(frames, 1, Len(frames) - 2), new)
      IN  /\ IsList(t)
          /\ Len(t) = Len(frames) - 1
          /\ \A k \in 1..(Len(frames) - 2) : t[k] = frames[k]
          /\ t[Len(frames) - 1] = new
  BY <1>2, ListPop DEF Live
<1>4. /\ IsList(frames') /\ Len(frames') = n
      /\ \A k \in 1..(len - 2) : frames'[k] = frames[k]
      /\ frames'[n] = new
  BY <1>1, <1>3
<1> HIDE DEF len
<1>5. n \in Nat \ {0} /\ n - 1 = len - 2 /\ n + 1 = len
  BY <1>2
<1> HIDE DEF n
<1>6. \A k \in 1..n : SoundFrame(frames'[k]) /\ frames'[k].fn = frames[k].fn
  <2>1. SUFFICES ASSUME NEW k \in 1..n
                 PROVE  SoundFrame(frames'[k]) /\ frames'[k].fn = frames[k].fn
    OBVIOUS
  <2>2. k = n \/ k \in 1..(len - 2)
    BY <1>5
  <2>3. k \in 1..len
    BY <1>2, <1>5
  <2> QED BY <1>1, <1>4, <2>2, <2>3 DEF Live, len
<1>7. \A k \in 1..(n - 1) :
        /\ CodeOf(frames'[k]).op = "call"
        /\ frames'[k + 1].fn = IndexOf(image.functions, CodeOf(frames'[k]).name)
  <2>1. SUFFICES ASSUME NEW k \in 1..(n - 1)
                 PROVE  /\ CodeOf(frames'[k]).op = "call"
                        /\ frames'[k + 1].fn = IndexOf(image.functions, CodeOf(frames'[k]).name)
    OBVIOUS
  <2>2. k \in 1..(len - 1) /\ k + 1 \in 1..n /\ frames'[k] = frames[k]
    BY <1>4, <1>5
  <2>3. frames'[k + 1].fn = frames[k + 1].fn
    BY <1>6, <2>2
  <2> QED BY <2>2, <2>3 DEF Waiting, len
<1>8. frames' # <<>>
  BY <1>4, <1>5, ListLen
<1> QED BY <1>4, <1>6, <1>7, <1>8, WorkingAfter

(* A step of guest code keeps the invariant and is one of the executor. *)
LEMMA StepAInv ==
  ASSUME AInv, OperationLimit \/ Instruction \/ Terminator
  PROVE  AInv' /\ Core!Next
<1>1. phase = "running"
  BY DEF OperationLimit, Instruction, ConstInsn, ReadState, WriteState, BinopInsn,
         CompareInsn,
         CastInsn, SelectInsn, LoadInsn, StoreInsn, CallInsn, HostCall, Terminator, Jump, Branch,
         IndirectJump, Trap, ReturnToCaller, RunReturns, At
<1>2. Live /\ Waiting
  BY <1>1, RunIsLive
<1>3. Simulated
  BY <1>1, RunIsLive, StepSimulated
<1>4. Shaped /\ DataOK' /\ Core!Next
  BY <1>3 DEF Simulated
<1>5. document' = document /\ runs' = runs /\ operations' = operations + 1
  BY <1>4 DEF Shaped, Counted, hostVars
<1>6. \/ phase' = "running" /\ ~failed' /\ Working'
      \/ phase' = "unwinding" /\ failed' = TRUE
      \/ phase' = "idle" /\ ~failed' /\ frames' = <<>>
  BY <1>1, <1>2, <1>4, <1>5, MovesWorking, CallsWorking, ResumesWorking
     DEF Shaped, Moves, Calls, Resumes, Fails, Ends, Going, failVars, Live
<1>7. Translatable(image)' /\ failed' \in BOOLEAN
  <2>1. image' = image
    BY <1>5 DEF image
  <2>2. failed' \in BOOLEAN
    BY <1>4 DEF AInv, Control, Shaped, Moves, Calls, Resumes, Fails, Ends, Going, failVars
  <2> QED BY <1>1, <2>1, <2>2 DEF AInv, Control, Translatable
<1>8. Control'
  BY <1>1, <1>5, <1>6, <1>7 DEF AInv, Control
<1> QED BY <1>4, <1>6, <1>8 DEF AInv

----------------------------------------------------------------------------
(* The host's side.                                                        *)

(* A slot starts with its initial value or with zero, as the executor's. *)
LEMMA ResetIs ==
  ASSUME Translated
  PROVE  /\ DOMAIN ResetState = Ids(image.slots)
         /\ \A slot \in DOMAIN ResetState : ResetState[slot] \in Int
         /\ Core!InitialState = ResetState
<1>1. ASSUME NEW slot \in Ids(image.slots) PROVE ResetState[slot] \in Int
  <2> DEFINE t      == SlotType(image, slot)
             given  == {x \in Elements(image.initialState) : x.slot = slot}
             chosen == CHOOSE x \in given : TRUE
             v      == chosen.value
  <2>1. t \in IntTypes
    <3>1. IndexOf(image.slots, slot) \in DOMAIN image.slots
      BY <1>1, IndexOfId
    <3> QED BY <3>1, DocumentsAssumption
            DEF Translated, SlotType, image, WellShaped, Named, Elements
  <2>2. given # {} => chosen \in given
    OBVIOUS
  <2>3. chosen \in given => v \in Int
    BY DEF Translated, Admissible, InitialStateOK, Fits
  <2>4. ResetState[slot] = IF given = {} THEN 0 ELSE Mask(v, TypeBits[t])
    BY <1>1 DEF ResetState
  <2> HIDE DEF v
  <2>5. v \in Int => Mask(v, TypeBits[t]) \in Int
    <3>1. PICK n \in Nat : n = TypeBits[t]
      BY <2>1, TypeWidths DEF Positive
    <3> QED BY <3>1, MaskFits
  <2> HIDE DEF given, chosen, t
  <2> QED BY <2>2, <2>3, <2>4, <2>5
<1>2. Core!InitialState = ResetState
  BY DEF Core!InitialState, ResetState, Core!image, image, Core!Elements, Elements,
         Core!Ids, Ids,
         Core!SlotType, SlotType, Core!IndexOf, IndexOf, Core!Mask, Mask, Core!Pow2, Pow2,
         Core!TypeBits, TypeBits, Core!IntTypes, IntTypes
<1> QED BY <1>1, <1>2 DEF ResetState

(* Generation loads the image, or refuses one the loader may well admit. *)
LEMMA GenerateAInv ==
  ASSUME AInv, Generate
  PROVE  AInv' /\ Core!Next
<1>1. /\ phase = "translating" /\ runs = 0 /\ ~failed /\ frames = <<>>
      /\ UNCHANGED <<document, runs, operations, failed, frames, requests>>
      /\ image' = image
  BY DEF AInv, Control, Generate, hostVars, failVars, image
<1>2. CASE Translatable(image)
  <2>1. /\ phase' = "idle" /\ state' = [slot \in Ids(image.slots) |-> 0]
        /\ memory' = [a \in Addresses(image) |-> 0]
    BY <1>2 DEF Generate
  <2>2. DataOK'
    <3>1. 0 \in Byte
      <4>1. Pow2[ByteBits] \in Positive
        BY TypeWidths, Power DEF Positive
      <4> QED BY <4>1 DEF Byte, Positive
    <3> QED BY <1>1, <2>1, <3>1 DEF DataOK
  <2>3. Control'
    BY <1>1, <1>2, <2>1 DEF AInv, Control, Translatable
  <2>4. AInv'
    BY <1>1, <2>1, <2>2, <2>3 DEF AInv
  <2>5. Admissible(image)
    BY <1>2 DEF Translatable
  <2>6. CorePhase = "loading" /\ CorePhase' = "image"
    BY <1>1, <2>1 DEF CorePhase
  <2>7. Core!Load
    BY <1>1, <2>1, <2>5, <2>6, CoreAdmissible
       DEF Core!Load, Core!loaderVars, Core!dataVars, Core!image, image, CoreOutcome
  <2> QED BY <2>4, <2>7 DEF Core!Next
<1>3. CASE ~Translatable(image)
  <2>1. phase' = "refused" /\ UNCHANGED <<state, memory>>
    BY <1>3 DEF Generate
  <2>2. AInv'
    BY <1>1, <2>1 DEF AInv, Control
  <2>3. /\ CorePhase = "loading"
        /\ CorePhase' = IF Admissible(image) THEN "image" ELSE "rejected"
    BY <1>1, <2>1 DEF CorePhase
  <2>4. Core!Load
    BY <1>1, <2>1, <2>3, CoreAdmissible
       DEF Core!Load, Core!loaderVars, Core!dataVars, Core!image, image, CoreOutcome
  <2> QED BY <2>2, <2>4 DEF Core!Next
<1> QED BY <1>2, <1>3

(* The callback is the host's; the executor is not concerned. *)
LEMMA SetHostCallbackAInv ==
  ASSUME AInv, SetHostCallback
  PROVE  AInv' /\ UNCHANGED Core!vars
<1>1. UNCHANGED <<document, phase, runs, operations, state, memory, requests, failed, error,
                  entryReturn, entryHas, frames>>
  BY DEF SetHostCallback, dataVars, failVars, returnVars
<1>2. phase = "idle" /\ phase' = "idle" /\ image' = image
  BY <1>1 DEF SetHostCallback, image
<1>3. AInv'
  BY <1>1, <1>2 DEF AInv, Control, Translatable, DataOK
<1>4. UNCHANGED Core!vars
  BY <1>1, <1>2 DEF Core!vars, CorePhase, CoreOutcome
<1> QED BY <1>3, <1>4

(* or_reset is the construction of a new executor. *)
LEMMA ResetAInv ==
  ASSUME AInv, Reset
  PROVE  AInv' /\ Core!Next
<1>1. /\ phase = "idle" /\ phase' = "entered" /\ runs < MaxRuns /\ runs' = runs + 1
      /\ state' = ResetState /\ memory' = InitialMemory(image)
      /\ operations' = 0 /\ failed' = FALSE /\ requests' = <<>>
      /\ UNCHANGED <<document, frames>> /\ frames = <<>> /\ frames' = <<>>
      /\ Translatable(image) /\ runs \in 0..MaxRuns
  BY DEF Reset, ResetMemory, AInv, Control
<1>2. Translated /\ image' = image
  BY <1>1 DEF AInv, Control, Translated, Translatable, image
<1>3. /\ DOMAIN InitialMemory(image) = Addresses(image)
      /\ \A a \in Addresses(image) : InitialMemory(image)[a] \in Byte
  <2>1. PICK m : m = image
    OBVIOUS
  <2>2. WellShaped(m)
    BY <1>2, <2>1, DocumentsAssumption DEF Translated, image
  <2>3. /\ DOMAIN InitialMemory(m) = Addresses(m)
        /\ \A a \in Addresses(m) : InitialMemory(m)[a] \in Byte
    BY <2>2, InitialMemoryFits
  <2> QED BY <2>1, <2>3
<1>4. DataOK'
  BY <1>1, <1>2, <1>3, ResetIs DEF DataOK
<1>5. runs + 1 \in 1..MaxRuns
  BY <1>1, BoundsAssumption
<1>6. Control'
  <2>1. document' \in Documents /\ operations' \in Nat /\ failed' = FALSE
    BY <1>1 DEF AInv, Control
  <2>2. Translatable(image)'
    BY <1>1, <1>2 DEF Translatable
  <2>3. runs' \in 0..MaxRuns /\ runs' > 0
    BY <1>1, <1>5, BoundsAssumption
  <2> QED BY <1>1, <2>1, <2>2, <2>3 DEF Control
<1>7. AInv'
  BY <1>1, <1>4, <1>6 DEF AInv
<1>8. Core!HostBound
  <2>1. HostProvides(image)
    BY <1>2, ComparableAssumption DEF Translated, image
  <2> QED BY <2>1 DEF HostProvides, Core!HostBound, Core!image, image
<1>9. /\ CorePhase \in {"image", "ready"} /\ CorePhase' = "ready"
      /\ CoreOutcome' = Core!NoOutcome /\ runs' # 0
      /\ (IF phase' = "entered" THEN runs' - 1 ELSE runs') = runs
  BY <1>1, <1>5 DEF CorePhase, CoreOutcome, Core!NoOutcome
<1>10. /\ Core!InitialState = ResetState /\ Core!InitialMemory(Core!image) = InitialMemory(image)
  BY <1>2, ResetIs, CoreMemory DEF Core!image, image
<1>11. Core!Construct
  BY <1>1, <1>8, <1>9, <1>10 DEF Core!Construct
<1> QED BY <1>7, <1>11 DEF Core!Next

(* or_fn_entry is the run. *)
LEMMA EnterAInv ==
  ASSUME AInv, Enter
  PROVE  AInv' /\ Core!Next
<1> DEFINE name == image.entry
           n    == IndexOf(image.functions, name)
           f    == image.functions[n]
           new  == Frame(n, 1, 1, EntryValues(f, <<>>))
<1>1. /\ phase = "entered" /\ frames = <<>> /\ runs \in Nat \ {0} /\ runs \in 0..MaxRuns /\ ~failed
      /\ CallFunction(name, <<>>, 0)
      /\ UNCHANGED <<document, runs, operations, state, memory, requests>>
  BY DEF AInv, Control, Enter, hostVars, dataVars
<1>2. Translated /\ image' = image /\ Translatable(image)
  BY <1>1 DEF AInv, Control, Translated, Translatable, image
<1>3. name \in Ids(image.functions)
  BY <1>2 DEF Translated, Admissible, ValidIR
<1>4. n \in DOMAIN image.functions /\ Callee(image, name) = f
  BY <1>3, IndexOfId DEF Callee
<1>5. IsList(<<>>) /\ Len(<<>>) = 0 /\ DOMAIN <<>> = {}
  <2>1. <<>> \in Seq({})
    OBVIOUS
  <2>2. Len(<<>>) = 0 /\ DOMAIN <<>> = {}
    BY <2>1
  <2> QED BY <2>1, <2>2, SeqIsList
<1>6. \/ phase' = "unwinding" /\ failed' = TRUE
      \/ /\ phase' = "running" /\ failed' = failed /\ frames' = <<new>>
         /\ Len(f.params) = 0
  BY <1>1, <1>4, <1>5 DEF CallFunction, Fail, failVars
<1>7. ASSUME Len(f.params) = 0 PROVE SoundFrame(new)
  <2>1. IsList(f.params)
    <3>1. FunctionShaped(f)
      BY <1>2, <1>4, DocumentsAssumption DEF Translated, image, WellShaped, Elements
    <3> QED BY <3>1 DEF FunctionShaped, Named
  <2>2. DOMAIN f.params = {}
    BY <1>7, <2>1, ListLen
  <2>3. \A k \in DOMAIN image.functions[n].params : <<>>[k] \in Int
    BY <2>2
  <2> HIDE DEF n
  <2> QED BY <1>2, <1>4, <2>3, EntrySound
<1> HIDE DEF new
<1>8. phase' = "running" => Working'
  <2>1. SUFFICES ASSUME phase' = "running" PROVE Working'
    OBVIOUS
  <2>2. frames' = <<new>> /\ SoundFrame(new)
    BY <1>6, <1>7, <2>1
  <2>3. IsList(<<new>>) /\ Len(<<new>>) = 1 /\ <<new>>[1] = new /\ <<new>> # <<>>
    <3>1. <<new>> \in Seq({new})
      OBVIOUS
    <3> QED BY <3>1, SeqIsList
  <2>4. \A k \in 1..Len(frames') : SoundFrame(frames'[k])
    BY <2>2, <2>3
  <2>5. 1..(Len(frames') - 1) = {}
    BY <2>2, <2>3
  <2> QED BY <1>1, <2>2, <2>3, <2>4, <2>5, WorkingAfter
<1>9. Control'
  <2>1. document' \in Documents /\ operations' \in Nat /\ runs' \in 0..MaxRuns /\ runs' > 0
    BY <1>1 DEF AInv, Control
  <2>3. (phase' = "running" /\ ~failed') \/ (phase' = "unwinding" /\ failed')
    BY <1>1, <1>6
  <2>4. failed' \in BOOLEAN
    BY <1>1, <1>6 DEF AInv, Control
  <2>2. Translatable(image)'
    BY <1>1, <1>2 DEF Translatable
  <2> QED BY <2>1, <2>2, <2>3, <2>4 DEF Control
<1>10. DataOK /\ DataOK'
  BY <1>1, <1>2 DEF AInv, DataOK
<1>11. AInv'
  BY <1>6, <1>8, <1>9, <1>10 DEF AInv
<1>12. CoreStack = [k \in DOMAIN frames |-> Activation(frames[k])]
  <2>1. [k \in DOMAIN frames |-> Activation(frames[k])] = <<>>
    <3>1. DOMAIN frames = {}
      BY <1>1, <1>5
    <3>2. [k \in DOMAIN frames |-> Activation(frames[k])] = [k \in {} |-> Activation(frames[k])]
      BY <3>1
    <3> QED BY <3>2, EmptySeq
  <2> QED BY <1>1, <2>1 DEF CoreStack
<1>13. Core!Enter(name, <<>>, 0)
  BY <1>1, <1>2, <1>3, <1>5, <1>12, CoreEnter
<1>14. CorePhase = "ready" /\ phase' # "entered"
  BY <1>1, <1>6 DEF CorePhase
<1>15. /\ (IF phase = "entered" THEN runs - 1 ELSE runs) = runs - 1
       /\ (IF phase' = "entered" THEN runs' - 1 ELSE runs') = (runs - 1) + 1
       /\ runs - 1 < MaxRuns /\ runs > 0
  BY <1>1, <1>14, BoundsAssumption
<1>16. UNCHANGED Core!dataVars
  BY <1>1 DEF Core!dataVars
<1>17. Core!Run
  <2>1. Core!image.entry = name
    BY DEF Core!image, image
  <2> HIDE DEF name
  <2> QED BY <1>1, <1>13, <1>14, <1>15, <1>16, <2>1 DEF Core!Run
<1> QED BY <1>11, <1>17 DEF Core!Next

(* What unwinds is not visible. *)
LEMMA UnwindAInv ==
  ASSUME AInv, Unwind \/ RunFailed
  PROVE  AInv' /\ UNCHANGED Core!vars
<1>1. /\ phase = "unwinding" /\ phase' \in {"unwinding", "idle"} /\ failed
      /\ phase' = "idle" => frames' = <<>>
      /\ UNCHANGED <<document, runs, operations, state, memory, requests, failed, error>>
  BY DEF AInv, Control, Unwind, Unwound, RunFailed, hostVars, dataVars, failVars
<1>2. image' = image /\ runs > 0 /\ runs \in Nat
  BY <1>1 DEF image, AInv, Control
<1>3. AInv'
  BY <1>1, <1>2 DEF AInv, Control, Translatable, DataOK
<1>4. UNCHANGED Core!vars
  BY <1>1, <1>2 DEF Core!vars, CorePhase, CoreOutcome
<1> QED BY <1>3, <1>4

(* A stutter is one. *)
LEMMA StutterAInv ==
  ASSUME AInv, UNCHANGED vars
  PROVE  AInv' /\ UNCHANGED Core!vars
<1>1. UNCHANGED <<document, phase, runs, operations, state, memory, failed, error,
                  entryReturn, entryHas, frames, requests>>
  BY DEF vars
<1>2. image' = image
  BY <1>1 DEF image
<1>3. AInv'
  BY <1>1, <1>2 DEF AInv, Control, Translatable, DataOK, Working, Waiting,
       SoundFrame, Placed,
     Filled, FnOf, Block, CodeOf
<1>4. UNCHANGED Core!vars
  BY <1>1, <1>2 DEF Core!vars, CorePhase, CoreOutcome, Activation, Environment, FnOf
<1> QED BY <1>3, <1>4

(* Every step keeps the invariant, and is a step of the executor or none. *)
LEMMA NextAInv ==
  ASSUME AInv, [Next]_vars
  PROVE  AInv' /\ [Core!Next]_(Core!vars)
BY GenerateAInv, SetHostCallbackAInv, ResetAInv, EnterAInv, StepAInv, UnwindAInv,
     StutterAInv
   DEF Next, Running

(* A module to be translated is an executor to be loaded. *)
LEMMA InitAInv ==
  ASSUME Init
  PROVE  AInv /\ Core!Init
<1>1. AInv
  <2>1. 0 \in 0..MaxRuns
    BY BoundsAssumption
  <2>2. Control
    BY <2>1 DEF Init, Control
  <2> QED BY <2>2 DEF Init, AInv
<1>2. Core!Init
  BY DEF Init, Core!Init, CorePhase, CoreOutcome, Core!NoValues, Core!NoOutcome, NoValues
<1> QED BY <1>1, <1>2

----------------------------------------------------------------------------
(* Theorems.                                                               *)

(* In every native module, whatever its image and whatever the callback    *)
(* answers, the C functions at work stand at code the validator accepted,  *)
(* each waiting at the call of the next one, and each slot of v holds a    *)
(* value of its type (emit_function, value_layout).                        *)
THEOREM NativeInductive == Spec => []AInv
<1>1. Init => AInv
  BY InitAInv
<1>2. AInv /\ [Next]_vars => AInv'
  BY NextAInv
<1> QED BY <1>1, <1>2, PTL DEF Spec

(* After an or_fail nothing is executed any more: until openrecomp_run has *)
(* returned no operation is counted, nothing is written, no host call is   *)
(* made and the error stays.                                               *)
THEOREM FailuresAreSilent == Spec => SilentUnwinding
<1>1. AInv /\ [Next]_vars =>
        [failed /\ failed' => UNCHANGED <<operations, state, memory, requests, error>>]_vars
  <2>1. SUFFICES ASSUME AInv, [Next]_vars, failed, failed'
                 PROVE  \/ UNCHANGED <<operations, state, memory, requests, error>>
                        \/ UNCHANGED vars
    OBVIOUS
  <2>2. phase \in {"unwinding", "idle"}
    BY <2>1 DEF AInv, Control
  <2>3. \/ SetHostCallback \/ Unwind \/ RunFailed \/ UNCHANGED vars
    BY <2>1, <2>2 DEF Next, Running, Generate, Reset, Enter, OperationLimit, Instruction,
         ConstInsn, ReadState, WriteState, BinopInsn, CompareInsn, CastInsn, SelectInsn, LoadInsn,
         StoreInsn, CallInsn, HostCall, Terminator, Jump, Branch, IndirectJump, Trap,
         ReturnToCaller, RunReturns, At
  <2> QED BY <2>3 DEF SetHostCallback, Unwind, Unwound, RunFailed, dataVars, failVars, vars
<1> QED BY <1>1, NativeInductive, PTL DEF Spec, SilentUnwinding

(* The generated C implements the reference executor: every behaviour of a *)
(* native module is one of ReferenceExecutor, constructed anew for each    *)
(* run, with the same operations counted, the same faults, host calls,     *)
(* state, memory and results (AOT_TRANSLATOR_V1, AOT_HARDENING_V1).        *)
THEOREM NativeImplementsCore == Spec => ImplementsCore
<1>1. Init => Core!Init
  BY InitAInv
<1>2. AInv /\ [Next]_vars => [Core!Next]_(Core!vars)
  BY NextAInv
<1> QED BY <1>1, <1>2, NativeInductive, PTL DEF Spec, ImplementsCore
==============================================================================
