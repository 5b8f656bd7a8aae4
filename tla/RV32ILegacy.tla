----------------------------- MODULE RV32ILegacy -----------------------------
(***************************************************************************)
(* RV32I instruction words and their decoder (adapters/riscv32.py), and    *)
(* the E07 path's own intermediate representation: what tools/make_ir.py   *)
(* makes of an RV32I ELF file, "legacy IR 0.1.1".                          *)
(*                                                                         *)
(* A word is a record of its fields, [opcode, rd, f3, rs1, rs2, f7, imm];  *)
(* imm is the immediate field of the word's format, whose bits the I, S,   *)
(* B, U and J formats scatter differently, before it is sign-extended.     *)
(* Widths follow ByteBits: WordBits stands for 32.  Legacy(f) is a record  *)
(*   [fixtureEntry, functions, code, sections, symbols]                    *)
(* with code[a] the decoded word at address a, and functions a sequence of *)
(* [name, address, size, blocks] in the order of their addresses; a block  *)
(* is [start, body] with body the set of its instructions' addresses.      *)
(***************************************************************************)
EXTENDS ELF, TLC

CONSTANTS
  Registers,      \* the general registers a program uses: 0..31 in the code
  ImmediateBits,  \* of the I and S formats: 12
  BranchBits,     \* of a branch's byte offset: 13
  JumpBits        \* of a jump's byte offset: 21

ASSUME RegistersAssumption ==
  {0, 1, 2, 10, 11, 12} \subseteq Registers /\ Registers \subseteq 0..31

WordBits == TypeBits["i32"]
HalfBits == TypeBits["i16"]

ASSUME ImmediatesAssumption == {ImmediateBits, BranchBits, JumpBits} \subseteq 1..WordBits

U32(x) == Mask(x, WordBits)

Undecodable == "ValueError"

\* By f3, of the words whose f7 matters, then of the others.
ShiftOps  == [f3 \in {1, 5} |-> IF f3 = 1 THEN "slli" ELSE "srli"]
LogicOps  == [f3 \in {0, 7} |-> IF f3 = 0 THEN "addi" ELSE "andi"]
AluOps    == [f3 \in {0, 4} |-> IF f3 = 0 THEN "add" ELSE "xor"]
LoadOps   == [f3 \in {2, 5} |-> IF f3 = 2 THEN "lw" ELSE "lhu"]
BranchOps == [f3 \in {0, 1, 6, 7} |->
                CASE f3 = 0 -> "beq" [] f3 = 1 -> "bne" [] f3 = 6 -> "bltu" [] f3 = 7 -> "bgeu"]

OpIn(table, number) == IF number \in DOMAIN table THEN table[number] ELSE Undecodable

Operation(w) ==
  CASE w.opcode = \h13 -> IF w.f3 \in DOMAIN ShiftOps
                          THEN IF w.f7 = 0 THEN ShiftOps[w.f3] ELSE Undecodable
                          ELSE OpIn(LogicOps, w.f3)
    [] w.opcode = \h33 -> IF w.f7 = 0 THEN OpIn(AluOps, w.f3) ELSE Undecodable
    [] w.opcode = \h03 -> OpIn(LoadOps, w.f3)
    [] w.opcode = \h23 -> IF w.f3 = 2 THEN "sw" ELSE Undecodable
    [] w.opcode = \h37 -> "lui"
    [] w.opcode = \h63 -> OpIn(BranchOps, w.f3)
    [] w.opcode = \h6F -> "jal"
    [] w.opcode = \h67 -> IF w.f3 = 0 THEN "jalr" ELSE Undecodable
    [] OTHER           -> Undecodable

Branches == {"beq", "bne", "bltu", "bgeu"}

Immediate(w, op) ==
  CASE op \in {"slli", "srli"} -> w.rs2
    [] op = "lui"              -> w.imm * 2^ImmediateBits
    [] op \in Branches         -> SignedValue(w.imm, BranchBits)
    [] op = "jal"              -> SignedValue(w.imm, JumpBits)
    [] OTHER                   -> SignedValue(w.imm, ImmediateBits)

Decode(address, w) ==
  LET op  == Operation(w)
      imm == Immediate(w, op)
  IN  [op |-> op, rd |-> w.rd, rs1 |-> w.rs1, rs2 |-> w.rs2, imm |-> imm,
       target |-> U32(address + imm)]

----------------------------------------------------------------------------
(* make_ir.py *)

Hosts == {"host_graphics", "host_audio", "host_input", "host_system"}

EntryName == "fixture_main"

\* sorted(..., key=value), which keeps the order of equal values.
ByValue(s) ==
  LET Before(i, j) == s[i].value < s[j].value \/ (s[i].value = s[j].value /\ i < j)
  IN  [k \in DOMAIN s |->
         s[CHOOSE j \in DOMAIN s : Cardinality({i \in DOMAIN s : Before(i, j)}) = k - 1]]

TextCode(f) == [a \in TextAddresses(f) |-> Decode(a, TextWords(f)[a])]

EntrySymbols(f) == {k \in DOMAIN Symbols(f) : Symbols(f)[k].name = EntryName}

\* build() returns instead of raising an ELFError, ValueError or StopIteration.
Buildable(f) ==
  /\ LoadsRV32I(f)
  /\ \A a \in TextAddresses(f) : TextCode(f)[a].op # Undecodable
  /\ EntrySymbols(f) # {}

\* Where a block starts, but for the instruction after a conditional branch.
FaultyTargets(start, code) ==
  {start} \cup {code[a].target : a \in {b \in DOMAIN code : code[b].op \in Branches \cup {"jal"}}}

\* Where a block starts.  What follows a jump or a return is not one of them.
Targets(start, code) ==
  {start}
    \cup {code[a].target : a \in {b \in DOMAIN code : code[b].op \in Branches \cup {"jal"}}}
    \cup {a + 4 : a \in {b \in DOMAIN code : code[b].op \in Branches}}

\* The blocks of the function at `first', up to `end'; a start without an
\* instruction makes no block.
FunctionBlocks(first, end, targets, code) ==
  LET starts == {first} \cup {t \in targets : first <= t /\ t < end}
      Next(s) == LET later == {t \in starts : t > s} IN IF later = {} THEN end ELSE Least(later)
      Body(s) == {a \in DOMAIN code : s <= a /\ a < Next(s)}
      kept    == Ascending({s \in starts : Body(s) # {}})
  IN  [k \in DOMAIN kept |-> [start |-> kept[k], body |-> Body(kept[k])]]

Legacy(f) ==
  LET text    == Text(f)
      code    == TextCode(f)
      targets == Targets(text.addr, code)
      IsFunction(s) == s.type = TypeFunc /\ s.size # 0 /\ Covers(text, s.value)
      sorted  == ByValue(Picked(Symbols(f), {k \in DOMAIN Symbols(f) : IsFunction(Symbols(f)[k])}))
      Function(s) == [name |-> s.name, address |-> s.value, size |-> s.size,
                      blocks |-> FunctionBlocks(s.value, s.value + s.size, targets, code)]
  IN  [fixtureEntry |-> Symbols(f)[Least(EntrySymbols(f))].value,
       functions |-> [k \in DOMAIN sorted |-> Function(sorted[k])],
       code |-> code, sections |-> AllocSections(f), symbols |-> Symbols(f)]
=============================================================================
