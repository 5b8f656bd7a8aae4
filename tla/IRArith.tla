------------------------------ MODULE IRArith ------------------------------
(***************************************************************************)
(* The fixed-width integer arithmetic of normalized IR V1, twice: as the   *)
(* Core API reference path computes it (openrecomp/runtime.py and          *)
(* openrecomp/executor.py: unbounded Python integers masked at the end)    *)
(* and as the generated portable C computes it (tools/aot_c_backend_v1.py: *)
(* uint64_t / int64_t arithmetic masked at the end).                       *)
(*                                                                         *)
(* ByteBits scales every width at once: the code has ByteBits = 8, i.e.    *)
(* i8 = 8 bits and a 64-bit host word; a TLC instance uses 2, where i8 is  *)
(* 2 bits wide, i32 is 8 bits and the host word 16.                        *)
(***************************************************************************)
EXTENDS Integers

CONSTANT ByteBits   \* bits of one guest byte (8 in the code)

ASSUME ByteBitsAssumption == ByteBits \in Nat \ {0, 1}

IntTypes == {"i1", "i8", "i16", "i32", "i64"}

TypeBits == [t \in IntTypes |->
               CASE t = "i1"  -> 1
                 [] t = "i8"  -> ByteBits
                 [] t = "i16" -> 2 * ByteBits
                 [] t = "i32" -> 4 * ByteBits
                 [] t = "i64" -> 8 * ByteBits]

\* 1 << n
Pow2[n \in Nat] == IF n = 0 THEN 1 ELSE 2 * Pow2[n - 1]

\* x & ((1 << bits) - 1), also for a negative x.
Mask(x, bits) == x % Pow2[bits]

\* The value fits the type: what _check_const accepts.
Fits(x, t) == x \in Nat /\ x < Pow2[TypeBits[t]]

SignedValue(x, bits) ==
  LET y == Mask(x, bits)
  IN  IF y >= Pow2[bits - 1] THEN y - Pow2[bits] ELSE y

----------------------------------------------------------------------------
(* Bitwise operators on non-negative integers, digit by digit. *)

Bit(x, i) == (x \div Pow2[i]) % 2

BitOf(kind, p, q) ==
  CASE kind = "and" -> p * q
    [] kind = "or"  -> p + q - p * q
    [] kind = "xor" -> (p + q) % 2

Logic(kind, a, b, bits) ==
  LET low[i \in 0..bits] ==
        IF i = 0 THEN 0
        ELSE low[i - 1] + Pow2[i - 1] * BitOf(kind, Bit(a, i - 1), Bit(b, i - 1))
  IN  low[bits]

----------------------------------------------------------------------------
(* The Python reference path. *)

ShiftKinds == {"shl", "lshr", "ashr"}
BinopKinds == {"add", "sub", "mul", "and", "or", "xor"} \cup ShiftKinds
Predicates == {"eq", "ne", "ult", "ule", "ugt", "uge", "slt", "sle", "sgt", "sge"}
CastKinds  == {"zext", "sext", "trunc", "bitcast"}

\* "shift count is not normalized": the only way a binop can fault.
ShiftFault(kind, b, bits) == kind \in ShiftKinds /\ b >= bits

Binop(kind, a, b, bits) ==
  Mask(CASE kind = "add"  -> a + b
         [] kind = "sub"  -> a - b
         [] kind = "mul"  -> a * b
         [] kind = "shl"  -> a * Pow2[b]
         [] kind = "lshr" -> a \div Pow2[b]
         [] kind = "ashr" -> SignedValue(a, bits) \div Pow2[b]
         [] OTHER         -> Logic(kind, a, b, bits), bits)

Holds(predicate, a, b, bits) ==
  LET sa == SignedValue(a, bits)
      sb == SignedValue(b, bits)
  IN  CASE predicate = "eq"  -> a = b
        [] predicate = "ne"  -> a # b
        [] predicate = "ult" -> a < b
        [] predicate = "ule" -> a <= b
        [] predicate = "ugt" -> a > b
        [] predicate = "uge" -> a >= b
        [] predicate = "slt" -> sa < sb
        [] predicate = "sle" -> sa <= sb
        [] predicate = "sgt" -> sa > sb
        [] predicate = "sge" -> sa >= sb

\* The i1 a compare defines.
Compare(predicate, a, b, bits) == IF Holds(predicate, a, b, bits) THEN 1 ELSE 0

Cast(kind, x, from, to) ==
  Mask(IF kind = "sext" THEN SignedValue(x, from) ELSE x, to)

\* IR V1.1: total division, truncating towards zero.
DivremKinds == {"udiv", "urem", "sdiv", "srem"}

Abs(x) == IF x < 0 THEN -x ELSE x

\* The edge cases both implementations test first, then the signed division.
DivremCases(kind, a, b, bits, signedResult) ==
  LET min == Pow2[bits - 1]
      ones == Pow2[bits] - 1
  IN  CASE b = 0 -> IF kind \in {"udiv", "sdiv"} THEN ones ELSE a
        [] b # 0 /\ kind = "udiv" -> a \div b
        [] b # 0 /\ kind = "urem" -> a % b
        [] kind \in {"sdiv", "srem"} /\ a = min /\ b = ones ->
             IF kind = "sdiv" THEN min ELSE 0
        [] OTHER -> signedResult

\* Python's own // and %, which round towards minus infinity.
FaultyPySignedDivrem(kind, a, b, bits) ==
  LET sa == SignedValue(a, bits)
      sb == SignedValue(b, bits)
      quotient == IF sb < 0 THEN (-sa) \div (-sb) ELSE sa \div sb
  IN  Mask(IF kind = "sdiv" THEN quotient ELSE sa - quotient * sb, bits)

PySignedDivrem(kind, a, b, bits) ==
  LET sa   == SignedValue(a, bits)
      sb   == SignedValue(b, bits)
      size == Abs(sa) \div Abs(sb)
      quotient == IF (sa < 0) # (sb < 0) THEN -size ELSE size
  IN  Mask(IF kind = "sdiv" THEN quotient ELSE sa - quotient * sb, bits)

DivremResult(kind, a, b, bits) ==
  DivremCases(kind, a, b, bits, PySignedDivrem(kind, a, b, bits))

----------------------------------------------------------------------------
(* The generated C: every intermediate is a uint64_t, signed values are    *)
(* int64_t obtained by setting the bits above the sign bit.                *)

HostBits == TypeBits["i64"]

Uint64(x) == Mask(x, HostBits)
Int64(x)  == IF x >= Pow2[HostBits - 1] THEN x - Pow2[HostBits] ELSE x

\* or_signed: `if (value & sign) value |= ~mask`.
CSigned(x, bits) ==
  LET y == Mask(x, bits)
      sign == Pow2[bits - 1]
  IN  IF bits >= HostBits THEN Int64(y)
      ELSE Int64(IF Bit(y, bits - 1) = 1
                 THEN y + (Pow2[HostBits] - Pow2[bits]) ELSE y)

CBinop(kind, a, b, bits) ==
  Mask(CASE kind = "add"  -> Uint64(a + b)
         [] kind = "sub"  -> Uint64(a - b)
         [] kind = "mul"  -> Uint64(a * b)
         [] kind = "shl"  -> Uint64(a * Pow2[b])
         [] kind = "lshr" -> a \div Pow2[b]
         [] kind = "ashr" -> Uint64(CSigned(a, bits) \div Pow2[b])
         [] OTHER         -> Logic(kind, a, b, HostBits), bits)

CCompare(predicate, a, b, bits) ==
  LET unsigned == predicate \in {"eq", "ne", "ult", "ule", "ugt", "uge"}
      sa == CSigned(a, bits)
      sb == CSigned(b, bits)
  IN  IF unsigned THEN Compare(predicate, a, b, bits)
      ELSE CASE predicate = "slt" -> IF sa <  sb THEN 1 ELSE 0
             [] predicate = "sle" -> IF sa <= sb THEN 1 ELSE 0
             [] predicate = "sgt" -> IF sa >  sb THEN 1 ELSE 0
             [] predicate = "sge" -> IF sa >= sb THEN 1 ELSE 0

CCast(kind, x, from, to) ==
  Mask(IF kind = "sext" THEN Uint64(CSigned(x, from)) ELSE x, to)

\* C's int64_t division truncates towards zero. INT64_MIN / -1 is undefined:
\* the outcome chosen for it here, 1, is the one that shows it was reached.
CTruncDiv(x, y) ==
  IF x = -(Pow2[HostBits - 1]) /\ y = -1 THEN 1
  ELSE LET size == Abs(x) \div Abs(y) IN IF (x < 0) = (y < 0) THEN size ELSE -size

CSignedDivrem(kind, a, b, bits) ==
  LET sa == CSigned(a, bits)
      sb == CSigned(b, bits)
      q  == CTruncDiv(sa, sb)
  IN  Mask(Uint64(IF kind = "sdiv" THEN q ELSE sa - q * sb), bits)

\* or_divrem without its `lhs == sign && rhs == mask` line.
FaultyCDivrem(kind, a, b, bits) ==
  IF kind \in {"sdiv", "srem"} /\ b # 0
  THEN CSignedDivrem(kind, a, b, bits)
  ELSE DivremCases(kind, a, b, bits, 0)

CDivrem(kind, a, b, bits) ==
  DivremCases(kind, a, b, bits, CSignedDivrem(kind, a, b, bits))

----------------------------------------------------------------------------
(* The binops of IR V1.1 are those of V1 and the divisions.  *)

BinopV11(kind, a, b, bits) ==
  IF kind \in DivremKinds THEN DivremResult(kind, a, b, bits) ELSE Binop(kind, a, b, bits)

CBinopV11(kind, a, b, bits) ==
  IF kind \in DivremKinds THEN CDivrem(kind, a, b, bits) ELSE CBinop(kind, a, b, bits)
=============================================================================
