------------------------------- MODULE IRBuild -------------------------------
(***************************************************************************)
(* Constructors of IR documents, as the front ends append them to a block  *)
(* (_read_state, _write_state, _binop, _cast, _compare_i32 and the dicts   *)
(* written in place): operands, instructions, terminators, blocks and      *)
(* functions in the shape IRModule describes.  Widths are in bytes.  And   *)
(* sorted(), as they arrange addresses, functions and symbols.             *)
(***************************************************************************)
EXTENDS IRModule, FiniteSets

Seqs == INSTANCE SequencesExt

Least(S)    == CHOOSE x \in S : \A y \in S : x <= y
Greatest(S) == CHOOSE x \in S : \A y \in S : y <= x

Ascending(S) ==
  [k \in 1..Cardinality(S) |-> CHOOSE x \in S : Cardinality({y \in S : y < x}) = k - 1]

\* What is at these positions of s, in order.
Picked(s, positions) ==
  LET order == Ascending(positions) IN [k \in DOMAIN order |-> s[order[k]]]

----------------------------------------------------------------------------

Ref(n)      == [ref |-> n, const |-> 0, type |-> "i1"]
Lit(v, t)   == [ref |-> NoName, const |-> v, type |-> t]
Word(v)     == Lit(v, "i32")

Blank == [op |-> "", kind |-> "", name |-> NoName, args |-> <<>>, result |-> NoName,
          type |-> "i32", imm |-> 0, width |-> ByteBits, align |-> 1,
          faulting |-> TRUE, signed |-> FALSE]

Con(r, t, v)        == [Blank EXCEPT !.op = "const", !.result = r, !.type = t, !.imm = v]
Rd(r, t, slot)      == [Blank EXCEPT !.op = "read_state", !.result = r, !.type = t, !.name = slot]
Wr(slot, o)         == [Blank EXCEPT !.op = "write_state", !.name = slot, !.args = <<o>>]
Bin(r, t, k, x, y)  == [Blank EXCEPT !.op = "binop", !.result = r, !.type = t, !.kind = k,
                                     !.args = <<x, y>>]
Cmp(r, k, x, y)     == [Blank EXCEPT !.op = "compare", !.result = r, !.type = "i1", !.kind = k,
                                     !.args = <<x, y>>]
Cst(r, t, k, x)     == [Blank EXCEPT !.op = "cast", !.result = r, !.type = t, !.kind = k,
                                     !.args = <<x>>]
Sel(r, t, c, x, y)  == [Blank EXCEPT !.op = "select", !.result = r, !.type = t, !.args = <<c, x, y>>]
Ld(r, t, n, al, sg, a) == [Blank EXCEPT !.op = "load", !.result = r, !.type = t, !.args = <<a>>,
                                     !.width = n * ByteBits, !.align = al, !.signed = sg]
St(n, al, x, a)     == [Blank EXCEPT !.op = "store", !.args = <<x, a>>,
                                     !.width = n * ByteBits, !.align = al]
Call(r, t, f, args) == [Blank EXCEPT !.op = "call", !.result = r, !.type = t, !.name = f,
                                     !.args = args]
Host(r, t, s, args) == [Blank EXCEPT !.op = "host_call", !.result = r, !.type = t, !.name = s,
                                     !.args = args]

Term(op, args, targets) == [op |-> op, args |-> args, targets |-> targets]
Jmp(b)        == Term("jump", <<>>, <<b>>)
Br(c, b1, b2) == Term("branch", <<c>>, <<b1, b2>>)
Ret           == Term("return", <<>>, <<>>)
RetV(o)       == Term("return", <<o>>, <<>>)
Ind(o, bs)    == Term("indirect_jump", <<o>>, bs)
TrapT         == Term("trap", <<>>, <<>>)

Blk(id, addr, insns, term) == [id |-> id, address |-> addr, insns |-> insns, term |-> term]
Fun(id, params, ret, blocks) == [id |-> id, params |-> params, returnType |-> ret, blocks |-> blocks]
Par(id, t) == [id |-> id, type |-> t]
=============================================================================
