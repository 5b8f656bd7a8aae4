---------------------------- MODULE GuestMemory ----------------------------
(***************************************************************************)
(* The guest's byte-addressed memory: class GuestMemory of                 *)
(* openrecomp/runtime.py, and the or_load / or_store the AOT back end      *)
(* emits (tools/aot_c_backend_v1.py).  A memory is a function from         *)
(* 0..size-1 to bytes; an access is described by the load or store         *)
(* instruction i, whose address and value have been evaluated.             *)
(***************************************************************************)
EXTENDS IRModule

Byte == 0..(Pow2[ByteBits] - 1)

Addresses(m) == 0..(m.memorySize - 1)

\* __init__: zeros overlaid with the segments.
InitialMemory(m) ==
  [a \in Addresses(m) |->
     LET covering == {s \in Elements(m.segments) : s.address <= a /\ a < SegmentEnd(s)}
     IN  IF covering = {} THEN 0
         ELSE LET s == CHOOSE s \in covering : TRUE IN s.data[a - s.address + 1]]

Size(i) == i.width \div ByteBits

\* _bounds, with the subtraction written as in the code.
OutOfBounds(size, address, n) == address > size \/ n > size - address

Misaligned(i, address) == i.faulting /\ address % i.align # 0

\* The fault an access raises, or NoName.  Alignment is tested first.
AccessFault(m, i, address) ==
  IF Misaligned(i, address) THEN "misalignment"
  ELSE IF OutOfBounds(m.memorySize, address, Size(i)) THEN "memory-fault"
  ELSE NoName

\* int.from_bytes: the address offset of the k-th byte by significance.
Offset(m, n, k) == IF m.bigEndian THEN n - 1 - k ELSE k

RawValue(m, memory, address, n) ==
  LET low[k \in 0..n] ==
        IF k = 0 THEN 0
        ELSE low[k - 1] + memory[address + Offset(m, n, k - 1)] * Pow2[ByteBits * (k - 1)]
  IN  low[n]

LoadValue(m, memory, i, address) ==
  LET raw  == RawValue(m, memory, address, Size(i))
      bits == TypeBits[i.type]
  IN  Mask(IF i.signed /\ i.width < bits THEN SignedValue(raw, i.width) ELSE raw, bits)

\* int.to_bytes in the host's byte order, whatever the guest's is.
FaultyStored(m, memory, i, address, value) ==
  [a \in DOMAIN memory |->
     IF a \in address..(address + Size(i) - 1)
     THEN (value \div Pow2[ByteBits * (a - address)]) % Pow2[ByteBits]
     ELSE memory[a]]

\* The slice at the address rounded down to the width.
FaultySlice(m, memory, i, address, value) ==
  LET n == Size(i)
      base == address - (address % n)
  IN  [a \in DOMAIN memory |->
         IF a \in base..(base + n - 1)
         THEN (value \div Pow2[ByteBits * Offset(m, n, a - base)]) % Pow2[ByteBits]
         ELSE memory[a]]

\* int.to_bytes into the slice [address, address + n).
Stored(m, memory, i, address, value) ==
  LET n == Size(i)
  IN  [a \in DOMAIN memory |->
         IF a \in address..(address + n - 1)
         THEN (value \div Pow2[ByteBits * Offset(m, n, a - address)]) % Pow2[ByteBits]
         ELSE memory[a]]

----------------------------------------------------------------------------
(* The generated C. *)

\* or_bounds and the alignment test, which skips an alignment of 1.
CAccessFault(m, i, address) ==
  IF i.faulting /\ i.align > 1 /\ address % i.align # 0 THEN "misalignment"
  ELSE IF OutOfBounds(m.memorySize, address, Size(i)) THEN "memory-fault"
  ELSE NoName

\* value = (value << 8) | g_memory[a + p], from the most significant byte on.
CRawValue(m, memory, address, n) ==
  LET value[k \in 0..n] ==
        IF k = 0 THEN 0
        ELSE value[k - 1] * Pow2[ByteBits]
               + memory[address + (IF m.bigEndian THEN k - 1 ELSE n - k)]
  IN  value[n]

CLoadValue(m, memory, i, address) ==
  LET raw  == CRawValue(m, memory, address, Size(i))
      bits == TypeBits[i.type]
  IN  Mask(IF i.signed /\ i.width < bits THEN Uint64(CSigned(raw, i.width)) ELSE raw, bits)

\* g_memory[a + k] = value >> (s * 8), with s counted by the byte order.
CStored(m, memory, i, address, value) ==
  LET n == Size(i)
      s(k) == IF m.bigEndian THEN n - 1 - k ELSE k
  IN  [a \in DOMAIN memory |->
         IF a - address \in 0..(n - 1)
         THEN Mask(value \div Pow2[ByteBits * s(a - address)], ByteBits)
         ELSE memory[a]]
=============================================================================
