------------------------------- MODULE MIPS32 -------------------------------
(***************************************************************************)
(* MIPS32 instruction words and their decoders (adapters/mips32.py, and    *)
(* adapters/mips32_divrem.py, which adds div and divu).                    *)
(*                                                                         *)
(* A word is a record of the fields both halves of the repository extract  *)
(* from the 32 bits, [opcode, rs, rt, rd, shamt, funct, imm]; the decoder  *)
(* never reads two fields that overlap (imm is the index of j and jal).    *)
(* Widths follow ByteBits: WordBits stands for 32 and HalfBits for 16.     *)
(***************************************************************************)
EXTENDS IRArith, TLC

CONSTANT Registers   \* the general registers a program uses: 0..31 in the code

ASSUME RegistersAssumption == {0, 31} \subseteq Registers /\ Registers \subseteq 0..31

\* The widths of "i32" and "i16".
WordBits == 4 * ByteBits
HalfBits == 2 * ByteBits

U32(x) == x % 2^WordBits

Sign16(imm) ==
  LET half == imm % 2^HalfBits
  IN  IF half < 2^(HalfBits - 1) THEN half ELSE half - 2^HalfBits

IsZero(w) == \A field \in DOMAIN w : w[field] = 0

----------------------------------------------------------------------------
(* The opcode tables, and the fields an operation requires to be zero.     *)

SpecialOps ==   \* by funct
  \h00 :> "sll" @@ \h02 :> "srl" @@ \h03 :> "sra" @@ \h04 :> "sllv" @@ \h06 :> "srlv"
    @@ \h07 :> "srav" @@ \h08 :> "jr" @@ \h10 :> "mfhi" @@ \h12 :> "mflo" @@ \h18 :> "mult"
    @@ \h19 :> "multu" @@ \h21 :> "addu" @@ \h23 :> "subu" @@ \h24 :> "and" @@ \h25 :> "or"
    @@ \h26 :> "xor" @@ \h27 :> "nor" @@ \h2A :> "slt" @@ \h2B :> "sltu"

DivremOps == \h1A :> "div" @@ \h1B :> "divu"   \* by funct

PrimaryOps ==   \* by opcode
  \h02 :> "j" @@ \h03 :> "jal" @@ \h04 :> "beq" @@ \h05 :> "bne" @@ \h06 :> "blez"
    @@ \h07 :> "bgtz" @@ \h09 :> "addiu" @@ \h0A :> "slti" @@ \h0B :> "sltiu"
    @@ \h0C :> "andi" @@ \h0D :> "ori" @@ \h0E :> "xori" @@ \h0F :> "lui"
    @@ \h20 :> "lb" @@ \h21 :> "lh" @@ \h23 :> "lw" @@ \h24 :> "lbu" @@ \h25 :> "lhu"
    @@ \h28 :> "sb" @@ \h29 :> "sh" @@ \h2B :> "sw"

ZeroFields(op) ==
  CASE op \in {"sll", "srl", "sra", "lui"}  -> {"rs"}
    [] op \in {"blez", "bgtz"}              -> {"rt"}
    [] op = "jr"                            -> {"rt", "rd", "shamt"}
    [] op \in {"mfhi", "mflo"}              -> {"rs", "rt", "shamt"}
    [] op \in {"mult", "multu", "div", "divu"} -> {"rd", "shamt"}
    [] op \in {"sllv", "srlv", "srav", "addu", "subu", "and", "or", "xor", "nor", "slt", "sltu"}
                                            -> {"shamt"}
    [] OTHER                                -> {}

Undecodable == "DecodeError"

OpIn(table, number, w) ==
  IF number \in DOMAIN table /\ \A field \in ZeroFields(table[number]) : w[field] = 0
  THEN table[number]
  ELSE Undecodable

Operation(w) ==
  IF IsZero(w) THEN "nop"
  ELSE IF w.opcode = \h00 THEN OpIn(SpecialOps, w.funct, w)
  ELSE IF w.opcode = \h01
  THEN IF w.rt = 0 THEN "bltz" ELSE IF w.rt = 1 THEN "bgez" ELSE Undecodable
  ELSE OpIn(PrimaryOps, w.opcode, w)

DivremOperation(w) ==
  IF w.opcode = \h00 /\ w.funct \in DOMAIN DivremOps THEN OpIn(DivremOps, w.funct, w)
  ELSE Operation(w)

BranchOps == {"beq", "bne", "blez", "bgtz", "bltz", "bgez"}

\* is_control_flow
ControlOps == BranchOps \cup {"j", "jal", "jr"}

BranchTarget(address, w) == U32(address + 4 + 4 * Sign16(w.imm))

\* ((address + 4) & 0xF0000000) | (index << 2)
JumpTarget(address, w) ==
  LET region == 2^(WordBits - WordBits \div 8)
      next   == U32(address + 4)
  IN  (next - (next % region)) + 4 * w.imm

Decoded(op, address, w) ==
  [op |-> op, rs |-> w.rs, rt |-> w.rt, rd |-> w.rd, shamt |-> w.shamt,
   imm |-> IF op \in {"andi", "ori", "xori", "lui"} THEN w.imm ELSE Sign16(w.imm),
   target |-> IF op \in {"j", "jal"} THEN JumpTarget(address, w) ELSE BranchTarget(address, w)]

Decode(address, w) == Decoded(Operation(w), address, w)

DecodeDivrem(address, w) == Decoded(DivremOperation(w), address, w)
=============================================================================
