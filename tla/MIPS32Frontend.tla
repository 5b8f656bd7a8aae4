---------------------------- MODULE MIPS32Frontend ----------------------------
(***************************************************************************)
(* The MIPS32 front ends: tools/mips32_expansion_frontend_v1.py, and       *)
(* tools/mips32_frontend_v1.py, its predecessor with fewer instructions    *)
(* (profile "slice").  tools/mips32_elf_static_memory_frontend_v1.py adds  *)
(* memory segments to what the expansion front end writes ("static"), and  *)
(* tools/mips32_divrem_frontend_v1.py runs it with div and divu ("divrem").*)
(* A fixture p is a record as in MIPS32Reference;                          *)
(* Convertible says which ones are not refused with a FrontendError or a   *)
(* DecodeError, Converted what is written for the others, as packaged by   *)
(* tools/package_ir_v1_module.py.                                          *)
(*                                                                         *)
(* The legacy delay slot becomes plain order in a block: condition, then   *)
(* delay slot, then branch; link, delay slot, call; delay slot, return.    *)
(***************************************************************************)
EXTENDS MIPS32, IRBuild, TLC

CONSTANT PackagedCallDepth   \* max_call_depth of every packaged module: 1024

Slot(r) == "gpr:r" \o ToString(r)

Tmp(address, tag) == "%mx" \o ToString(address) \o "_" \o tag

BlockId(address) == "b_" \o ToString(address)

----------------------------------------------------------------------------
(* _lower_simple *)

\* Register 0 reads as the constant 0 and is never written.
Get(address, r, tag)    == IF r = 0 THEN <<>> ELSE <<Rd(Tmp(address, tag), "i32", Slot(r))>>
Source(address, r, tag) == IF r = 0 THEN Word(0) ELSE Ref(Tmp(address, tag))
Put(r, o)               == IF r = 0 THEN <<>> ELSE <<Wr(Slot(r), o)>>

ImmediateKind == [addiu |-> "add", andi |-> "and", ori |-> "or", xori |-> "xor"]

RegisterKind == [addu |-> "add", subu |-> "sub", and |-> "and", or |-> "or", xor |-> "xor"]

ShiftKind == [sll |-> "shl", sllv |-> "shl", srl |-> "lshr", srlv |-> "lshr",
              sra |-> "ashr", srav |-> "ashr"]

ComparePredicate == [slt |-> "slt", slti |-> "slt", sltu |-> "ult", sltiu |-> "ult"]

LoadShape == [lb |-> <<1, TRUE>>, lbu |-> <<1, FALSE>>, lh |-> <<2, TRUE>>,
              lhu |-> <<2, FALSE>>, lw |-> <<4, TRUE>>]

StoreSize == [sb |-> 1, sh |-> 2, sw |-> 4]

NarrowType(n) == IF n = 1 THEN "i8" ELSE "i16"

LowerImmediate(a, i) ==
  Get(a, i.rs, "rs")
    \o <<Bin(Tmp(a, i.op), "i32", ImmediateKind[i.op], Source(a, i.rs, "rs"), Word(U32(i.imm)))>>
    \o Put(i.rt, Ref(Tmp(a, i.op)))

LowerUpper(a, i) ==
  <<Con(Tmp(a, "lui"), "i32", U32(i.imm * 2^HalfBits))>> \o Put(i.rt, Ref(Tmp(a, "lui")))

LowerRegister(a, i) ==
  LET s == Source(a, i.rs, "rs")
      t == Source(a, i.rt, "rt")
      ones == Word(2^WordBits - 1)
  IN  Get(a, i.rs, "rs") \o Get(a, i.rt, "rt")
        \o (IF i.op = "nor"
            THEN <<Bin(Tmp(a, "nor_or"), "i32", "or", s, t),
                   Bin(Tmp(a, "nor"), "i32", "xor", Ref(Tmp(a, "nor_or")), ones)>>
            ELSE <<Bin(Tmp(a, i.op), "i32", RegisterKind[i.op], s, t)>>)
        \o Put(i.rd, Ref(Tmp(a, i.op)))

LowerShift(a, i) ==
  LET fixed == i.op \in {"sll", "srl", "sra"}
      raw   == Source(a, i.rs, "shift_raw")
      count == IF fixed THEN Word(i.shamt) ELSE Ref(Tmp(a, "shift_mask"))
  IN  Get(a, i.rt, "shift_value")
        \o (IF fixed THEN <<>>
            ELSE Get(a, i.rs, "shift_raw")
                   \o <<Bin(Tmp(a, "shift_mask"), "i32", "and", raw, Word(WordBits - 1))>>)
        \o <<Bin(Tmp(a, i.op), "i32", ShiftKind[i.op], Source(a, i.rt, "shift_value"), count)>>
        \o Put(i.rd, Ref(Tmp(a, i.op)))

LowerCompare(a, i) ==
  LET registers == i.op \in {"slt", "sltu"}
      rhs == IF registers THEN Source(a, i.rt, "cmp_rhs") ELSE Word(U32(i.imm))
  IN  Get(a, i.rs, "cmp_lhs")
        \o (IF registers THEN Get(a, i.rt, "cmp_rhs") ELSE <<>>)
        \o <<Cmp(Tmp(a, "cmp"), ComparePredicate[i.op], Source(a, i.rs, "cmp_lhs"), rhs),
             Cst(Tmp(a, "cmp_i32"), "i32", "zext", Ref(Tmp(a, "cmp")))>>
        \o Put(IF registers THEN i.rd ELSE i.rt, Ref(Tmp(a, "cmp_i32")))

LowerMultiply(a, i) ==
  LET extension == IF i.op = "mult" THEN "sext" ELSE "zext"
      product   == Ref(Tmp(a, "mul64"))
  IN  Get(a, i.rs, "mul_lhs32") \o Get(a, i.rt, "mul_rhs32")
        \o <<Cst(Tmp(a, "mul_lhs64"), "i64", extension, Source(a, i.rs, "mul_lhs32")),
             Cst(Tmp(a, "mul_rhs64"), "i64", extension, Source(a, i.rt, "mul_rhs32")),
             Bin(Tmp(a, "mul64"), "i64", "mul", Ref(Tmp(a, "mul_lhs64")), Ref(Tmp(a, "mul_rhs64"))),
             Cst(Tmp(a, "mul_lo"), "i32", "trunc", product),
             Bin(Tmp(a, "mul_high64"), "i64", "lshr", product, Lit(WordBits, "i64")),
             Cst(Tmp(a, "mul_hi"), "i32", "trunc", Ref(Tmp(a, "mul_high64"))),
             Wr("special:lo", Ref(Tmp(a, "mul_lo"))),
             Wr("special:hi", Ref(Tmp(a, "mul_hi")))>>

\* _lower_simple_divrem
LowerDivide(a, i) ==
  LET s == Source(a, i.rs, "div_lhs")
      t == Source(a, i.rt, "div_rhs")
  IN  Get(a, i.rs, "div_lhs") \o Get(a, i.rt, "div_rhs")
        \o <<Bin(Tmp(a, "div_q"), "i32", IF i.op = "div" THEN "sdiv" ELSE "udiv", s, t),
             Bin(Tmp(a, "div_r"), "i32", IF i.op = "div" THEN "srem" ELSE "urem", s, t),
             Wr("special:lo", Ref(Tmp(a, "div_q"))),
             Wr("special:hi", Ref(Tmp(a, "div_r")))>>

LowerMoveFrom(a, i) ==
  <<Rd(Tmp(a, i.op), "i32", IF i.op = "mfhi" THEN "special:hi" ELSE "special:lo")>>
    \o Put(i.rd, Ref(Tmp(a, i.op)))

\* Base and effective address of a load or store.
Effective(a, i) ==
  Get(a, i.rs, "base")
    \o <<Bin(Tmp(a, "addr"), "i32", "add", Source(a, i.rs, "base"), Word(U32(i.imm)))>>

LowerLoad(a, i) ==
  LET n == LoadShape[i.op][1]
  IN  Effective(a, i)
        \o <<Ld(Tmp(a, "load"), "i32", n, n, LoadShape[i.op][2], Ref(Tmp(a, "addr")))>>
        \o Put(i.rt, Ref(Tmp(a, "load")))

LowerStore(a, i) ==
  LET n == StoreSize[i.op]
      value == Source(a, i.rt, "store_value")
      narrow == Tmp(a, "store_narrow")
  IN  Effective(a, i) \o Get(a, i.rt, "store_value")
        \o (IF n < 4 THEN <<Cst(narrow, NarrowType(n), "trunc", value)>> ELSE <<>>)
        \o <<St(n, n, IF n < 4 THEN Ref(narrow) ELSE value, Ref(Tmp(a, "addr")))>>

Lower(a, i) ==
  CASE i.op = "nop"                      -> <<>>
    [] i.op \in DOMAIN ImmediateKind     -> LowerImmediate(a, i)
    [] i.op = "lui"                      -> LowerUpper(a, i)
    [] i.op \in DOMAIN RegisterKind \cup {"nor"} -> LowerRegister(a, i)
    [] i.op \in DOMAIN ShiftKind         -> LowerShift(a, i)
    [] i.op \in DOMAIN ComparePredicate  -> LowerCompare(a, i)
    [] i.op \in {"mult", "multu"}        -> LowerMultiply(a, i)
    [] i.op \in {"div", "divu"}          -> LowerDivide(a, i)
    [] i.op \in {"mfhi", "mflo"}         -> LowerMoveFrom(a, i)
    [] i.op \in DOMAIN LoadShape         -> LowerLoad(a, i)
    [] i.op \in DOMAIN StoreSize         -> LowerStore(a, i)

\* What the slice lowers, the same way; a conditional branch is beq or bne.
SliceSimple == {"nop", "addiu", "ori", "lui", "addu", "slt", "sltu", "lw", "sw"}

SliceControl == {"beq", "bne", "j", "jal", "jr"}

Lowerable(p, op) == p.profile = "slice" => op \in SliceSimple \cup SliceControl

----------------------------------------------------------------------------
(* _function_ranges *)

\* The division front end puts its own decoder in place of the other one.
Ins(p, address) ==
  IF p.profile = "divrem" THEN DecodeDivrem(address, p.words[address])
  ELSE Decode(address, p.words[address])

IsTransfer(p, address) == Ins(p, address).op \in ControlOps

EndOf(p, f) ==
  LET later == {g.address : g \in {h \in p.functions : h.address > f.address}}
  IN  IF later = {} THEN Greatest(DOMAIN p.words) + 4 ELSE Least(later)

\* range(start, end, 4)
Body(p, f) == {a \in f.address..(EndOf(p, f) - 1) : (a - f.address) % 4 = 0}

FunctionRangesOK(p) ==
  /\ p.functions # {}
  /\ \A f, g \in p.functions : f # g => f.id # g.id /\ f.address # g.address
  /\ \A f \in p.functions : Body(p, f) \subseteq DOMAIN p.words

FunctionAt(p, address) == CHOOSE f \in p.functions : f.address = address

----------------------------------------------------------------------------
(* _collect_leaders *)

Transfers(p, body) == {a \in body : IsTransfer(p, a)}

\* Overlooks that a call comes back.
FaultyArrivals(p, a) ==
  LET i == Ins(p, a)
  IN  (IF i.op \in BranchOps \cup {"j"} THEN {i.target} ELSE {})
        \cup (IF i.op \in BranchOps THEN {a + 8} ELSE {})

\* Where control may arrive from the transfer at a, inside the function.
Arrivals(p, a) ==
  LET i == Ins(p, a)
  IN  (IF i.op \in BranchOps \cup {"j"} THEN {i.target} ELSE {})
        \cup (IF i.op \in BranchOps \cup {"jal"} THEN {a + 8} ELSE {})

\* The slice overlooks the branches it does not know, until it lowers one.
Overlooked(p, a) == ~Lowerable(p, Ins(p, a).op)

Leaders(p, f) ==
  {f.address} \cup UNION {Arrivals(p, a) :
                           a \in {b \in Transfers(p, Body(p, f)) : ~Overlooked(p, b)}}

\* What the two passes find: each function with its addresses and its leaders.
Outline(p) ==
  {[id |-> f.id, address |-> f.address, body |-> Body(p, f), leaders |-> Leaders(p, f)] :
     f \in p.functions}

TransferOK(p, f, a) ==
  LET i == Ins(p, a)
  IN  /\ a + 4 \in f.body
      /\ ~IsTransfer(p, a + 4)
      /\ ~Overlooked(p, a) => Arrivals(p, a) \subseteq f.body
      /\ i.op = "jal" => i.target \in {g.address : g \in p.functions}
      /\ i.op = "jr" => i.rs = 31

LeadersOK(p, f) ==
  /\ \A a \in f.body : Ins(p, a).op # Undecodable
  /\ \A a \in Transfers(p, f.body) :
       TransferOK(p, f, a) /\ a + 4 \notin f.leaders

----------------------------------------------------------------------------
(* _convert_function *)

Ends(p, f, a) == IsTransfer(p, a) \/ a + 4 \in f.leaders

\* The instructions of a block, the delay slot apart: up to a transfer or to
\* the one before the next leader.
Block(p, f, leader) ==
  {a \in f.body : leader <= a /\ \A b \in f.body : leader <= b /\ b < a => ~Ends(p, f, b)}

BlockConvertible(p, f, leader) ==
  /\ \E a \in Block(p, f, leader) : Ends(p, f, a)
  /\ \A a \in Block(p, f, leader) :
       /\ Lowerable(p, Ins(p, a).op)
       /\ IsTransfer(p, a) => Lowerable(p, Ins(p, a + 4).op)

Straight(p, leader, next) ==
  Seqs!FlattenSeq([k \in 1..((next - leader) \div 4) |->
                     Lower(leader + 4 * (k - 1), Ins(p, leader + 4 * (k - 1)))])

BranchPredicate == [beq |-> "eq", bne |-> "ne", blez |-> "sle", bgtz |-> "sgt",
                    bltz |-> "slt", bgez |-> "sge"]

\* _branch_condition
Condition(a, i) ==
  LET registers == i.op \in {"beq", "bne"}
      rhs == IF registers THEN Source(a, i.rt, "branch_rhs") ELSE Word(0)
  IN  Get(a, i.rs, "branch_lhs")
        \o (IF registers THEN Get(a, i.rt, "branch_rhs") ELSE <<>>)
        \o <<Cmp(Tmp(a, "branch_cond"), BranchPredicate[i.op], Source(a, i.rs, "branch_lhs"), rhs)>>

\* The delay slot lowered before what the branch tests.
FaultyTransferCode(p, a) ==
  LET i == Ins(p, a)
      delay == Lower(a + 4, Ins(p, a + 4))
  IN  CASE i.op \in BranchOps -> delay \o Condition(a, i)
        [] i.op = "jal" -> Put(31, Word(U32(a + 8))) \o delay
                             \o <<Call(NoName, "i32", FunctionAt(p, i.target).id, <<>>)>>
        [] i.op \in {"j", "jr"} -> delay

\* The code of the transfer at a, its delay slot included.
TransferCode(p, a) ==
  LET i == Ins(p, a)
      delay == Lower(a + 4, Ins(p, a + 4))
  IN  CASE i.op \in BranchOps -> Condition(a, i) \o delay
        [] i.op = "jal" -> Put(31, Word(U32(a + 8))) \o delay
                             \o <<Call(NoName, "i32", FunctionAt(p, i.target).id, <<>>)>>
        [] i.op \in {"j", "jr"} -> delay

\* A call that leaves its function when it comes back.
FaultyExit(p, a) ==
  LET i == Ins(p, a)
  IN  CASE i.op \in BranchOps -> Br(Ref(Tmp(a, "branch_cond")), BlockId(i.target), BlockId(a + 8))
        [] i.op = "j"         -> Jmp(BlockId(i.target))
        [] i.op \in {"jal", "jr"} -> Ret

\* Where the block goes on after the transfer at a.
Exit(p, a) ==
  LET i == Ins(p, a)
  IN  CASE i.op \in BranchOps -> Br(Ref(Tmp(a, "branch_cond")), BlockId(i.target), BlockId(a + 8))
        [] i.op = "jal"       -> Jmp(BlockId(a + 8))
        [] i.op = "j"         -> Jmp(BlockId(i.target))
        [] i.op = "jr"        -> Ret

BlockUpTo(p, leader, last) ==
  IF IsTransfer(p, last)
  THEN Blk(BlockId(leader), leader, Straight(p, leader, last) \o TransferCode(p, last),
           Exit(p, last))
  ELSE Blk(BlockId(leader), leader, Straight(p, leader, last + 4), Jmp(BlockId(last + 4)))

Blocks(p, f) ==
  [k \in 1..Cardinality(f.leaders) |->
     LET leader == Ascending(f.leaders)[k]
     IN  BlockUpTo(p, leader, Greatest(Block(p, f, leader)))]

----------------------------------------------------------------------------
(* convert *)

SlotIds(p) ==
  {Slot(r) : r \in Registers \ {0}}
    \cup (IF p.profile = "slice" THEN {} ELSE {"special:hi", "special:lo"})

Convertible(p) ==
  /\ DOMAIN p.words # {}
  /\ \A a \in DOMAIN p.words : a % 4 = 0
  /\ p.profile \in {"slice", "static"} => ~p.bigEndian
  /\ FunctionRangesOK(p)
  /\ p.entry \in {f.address : f \in p.functions}
  /\ \A f \in Outline(p) :
       /\ LeadersOK(p, f)
       /\ \A leader \in f.leaders : BlockConvertible(p, f, leader)
  /\ {v.slot : v \in Elements(p.initial)} \subseteq SlotIds(p)
  /\ p.observe \in SlotIds(p)

\* The normalized module and the image packaged around it.
Converted(p) ==
  LET starts == Ascending({f.address : f \in p.functions})
      gprs   == Ascending(Registers \ {0})
      OfFunction(f) == Fun(f.id, <<>>, Void, Blocks(p, f))
  IN  [addressType |-> "i32", bigEndian |-> p.bigEndian,
       features |-> {"core-v1"} \cup (IF p.profile = "divrem" THEN {DivremFeature} ELSE {}),
       slots |-> [k \in DOMAIN gprs |-> Par(Slot(gprs[k]), "i32")]
                   \o (IF p.profile = "slice" THEN <<>>
                       ELSE <<Par("special:hi", "i32"), Par("special:lo", "i32")>>),
       hosts |-> {}, contract |-> "1",
       entry |-> FunctionAt(p, p.entry).id,
       functions |-> [k \in DOMAIN starts |->
                        OfFunction(CHOOSE f \in Outline(p) : f.address = starts[k])],
       memorySize |-> p.memorySize, segments |-> p.segments,
       initialState |-> p.initial, observe |-> p.observe,
       maxOperations |-> p.maxOperations, maxCallDepth |-> PackagedCallDepth,
       identityOK |-> TRUE]
=============================================================================
