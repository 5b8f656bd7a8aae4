----------------------------- MODULE MCPrograms -----------------------------
(***************************************************************************)
(* The module images the TLC instances load: families of small programs,   *)
(* well formed and not, built from menus of instructions.  Widths follow   *)
(* ByteBits = 2: i8 is 2 bits, i32 (the address type) 8 bits.              *)
(***************************************************************************)
EXTENDS IRBuild

\* A module around a list of functions, with room for two 4-byte words.
Module(functions, maxOps, maxDepth) ==
  [addressType |-> "i32", bigEndian |-> FALSE, features |-> {"core-v1"},
   slots |-> <<[id |-> "r", type |-> "i32"], [id |-> "c", type |-> "i8"]>>,
   hosts |-> {"in"}, contract |-> "1", entry |-> "main", functions |-> functions,
   memorySize |-> 6, segments |-> <<[address |-> 1, data |-> <<1, 2, 3>>]>>,
   initialState |-> <<[slot |-> "r", value |-> 4]>>, observe |-> "r",
   maxOperations |-> maxOps, maxCallDepth |-> maxDepth, identityOK |-> TRUE]

Main(insns, term, insns2, term2) ==
  <<Fun("main", <<>>, Void, <<Blk("B1", 0, insns, term), Blk("B2", 4, insns2, term2)>>)>>

----------------------------------------------------------------------------
(* Straight-line pairs of instructions, then a terminator. *)

Firsts ==
  <<Con("a", "i32", 4), Con("a", "i8", 3), Con("a", "i8", 4), Rd("a", "i32", "r"), Rd("a", "i32", "c"),
   Host("a", "i32", "in", <<Word(7)>>), Host("a", "i8", "out", <<>>)>>

Seconds ==
  <<Wr("r", Ref("a")), Wr("c", Ref("a")), Wr("x", Ref("a")),
   Bin("b", "i32", "add", Ref("a"), Word(254)), Bin("b", "i32", "shl", Word(3), Ref("a")),
   Bin("b", "i32", "xor", Ref("z"), Word(1)),
   Cst("b", "i32", "sext", Ref("a")), Cst("b", "i8", "trunc", Ref("a")), Cst("b", "i32", "bitcast", Ref("a")),
   Cmp("b", "slt", Ref("a"), Lit(0, "i8")), Cmp("b", "ult", Ref("a"), Word(4)),
   Sel("b", "i32", Lit(1, "i1"), Ref("a"), Ref("z")), Sel("b", "i8", Lit(0, "i1"), Lit(2, "i8"), Ref("a")),
   Ld("b", "i32", 1, 1, TRUE, Ref("a")), Ld("b", "i32", 2, 2, FALSE, Ref("a")),
   Ld("b", "i8", 2, 1, FALSE, Ref("a")), Ld("b", "i32", 4, 1, FALSE, Word(2)),
   St(4, 4, Ref("a"), Word(4)), St(4, 2, Word(200), Ref("a")), St(1, 1, Ref("a"), Word(5)),
   St(2, 4, Ref("a"), Word(0)), Con("a", "i32", 0),
   Host("b", "i8", "in", <<Ref("a"), Lit(1, "i8")>>), Host(NoName, "i8", "in", <<Ref("a")>>)>>

Terms ==
  <<Ret, Jmp("B2"), Jmp("B1"), Br(Ref("b"), "B1", "B2"), Ind(Ref("a"), <<"B2">>), Ind(Ref("b"), <<"B1", "B2">>),
   TrapT, RetV(Ref("a")), Jmp("B9")>>

Tails == <<<<>>, <<Wr("r", Ref("a"))>>, <<Wr("r", Word(9))>>>>

StraightFiles ==
  {"straight"} \X (DOMAIN Firsts) \X (DOMAIN Seconds) \X (DOMAIN Terms) \X (DOMAIN Tails)

Straight(k) ==
  Module(Main(<<Firsts[k[2]], Seconds[k[3]]>>, Terms[k[4]], Tails[k[5]], Ret), 5, 1)

----------------------------------------------------------------------------
(* Calls: a caller that wants a result or not, and callees that return it  *)
(* or not, recur, loop, or come back to their entry block.                 *)

Callers ==
  <<Call("a", "i32", "f", <<Word(3)>>), Call(NoName, "i32", "f", <<Word(3)>>),
   Call("a", "i8", "f", <<Word(3)>>), Call("a", "i32", "f", <<>>), Call("a", "i32", "g", <<Word(3)>>),
   Call(NoName, "i32", "main", <<>>)>>

Bodies ==
  <<<<>>, <<Wr("r", Ref("p"))>>, <<Call("q", "i32", "f", <<Ref("p")>>)>>,
   <<Call(NoName, "i32", "f", <<Word(0)>>)>>, <<St(4, 1, Ref("p"), Word(1))>>>>

Ends ==
  <<Ret, RetV(Ref("p")), RetV(Lit(2, "i8")), Jmp("F2"), Jmp("F1"), Br(Lit(1, "i1"), "F1", "F2"),
   Ind(Ref("p"), <<"F1", "F2">>)>>

ReturnTypes == <<"i32", "i8", Void>>

SecondEnds == <<Ret, RetV(Word(1)), RetV(Ref("p")), Jmp("F1")>>

CallFiles ==
  {"call"} \X (DOMAIN Callers) \X (DOMAIN ReturnTypes) \X (DOMAIN Bodies) \X (DOMAIN Ends)
           \X (DOMAIN SecondEnds)

Calling(k) ==
  Module(<<Fun("main", <<>>, Void, <<Blk("B1", 0, <<Callers[k[2]]>>, Ret)>>),
           Fun("f", <<Par("p", "i32")>>, ReturnTypes[k[3]],
               <<Blk("F1", 3, Bodies[k[4]], Ends[k[5]]), Blk("F2", 8, <<>>, SecondEnds[k[6]])>>)>>,
         7, 2)

----------------------------------------------------------------------------
(* IR V1.1: a division of a value read from state, declared or not.         *)

Operands == <<Word(0), Word(1), Word(7), Word(128), Word(255), Lit(2, "i8")>>

DivideFiles ==
  {"divide"} \X DivremKinds \X (DOMAIN Operands) \X {0, 7, 128, 250} \X BOOLEAN

Dividing(k) ==
  [Module(Main(<<Rd("a", "i32", "r"), Bin("b", "i32", k[2], Ref("a"), Operands[k[3]])>>, Jmp("B2"),
               <<Rd("d", "i32", "r"), Bin("e", "i32", k[2], Word(k[4]), Ref("d")), Wr("r", Ref("e"))>>,
               Ret), 6, 1)
     EXCEPT !.initialState = <<[slot |-> "r", value |-> k[4]]>>,
            !.features = IF k[5] THEN {"core-v1", DivremFeature} ELSE {"core-v1"}]

----------------------------------------------------------------------------
(* Images whose package, host contract or entry is at fault.               *)

Plain == Module(Main(<<Rd("a", "i32", "r"), Ld("b", "i32", 4, 1, FALSE, Word(0))>>,
                     Jmp("B2"), <<Wr("r", Word(1)), St(2, 1, Lit(9, "i16"), Word(1))>>, Ret), 6, 1)

ImagePrograms ==
  <<Plain,
   [Plain EXCEPT !.bigEndian = TRUE],
   [Plain EXCEPT !.identityOK = FALSE],
   [Plain EXCEPT !.observe = "x"],
   [Plain EXCEPT !.contract = "2"],
   [Plain EXCEPT !.hosts = {"in", "out"}],
   [Plain EXCEPT !.features = {"core-v2"}],
   [Plain EXCEPT !.initialState = <<[slot |-> "x", value |-> 1]>>],
   [Plain EXCEPT !.initialState = <<[slot |-> "c", value |-> 4]>>],
   [Plain EXCEPT !.initialState = <<[slot |-> "c", value |-> 1], [slot |-> "c", value |-> 2]>>],
   [Plain EXCEPT !.segments = <<[address |-> 4, data |-> <<1, 2, 3>>]>>],
   [Plain EXCEPT !.segments = <<[address |-> 1, data |-> <<1, 2>>], [address |-> 2, data |-> <<3>>]>>],
   [Plain EXCEPT !.segments = <<[address |-> 0, data |-> <<1, 2>>], [address |-> 2, data |-> <<3>>],
                                [address |-> 1, data |-> <<>>]>>],
   [Plain EXCEPT !.slots = <<[id |-> "r", type |-> "i32"], [id |-> "r", type |-> "i8"]>>],
   [Plain EXCEPT !.entry = "f"],
   \* an entry function with a parameter
   [Plain EXCEPT !.functions[1].params = <<Par("p", "i32")>>],
   [Plain EXCEPT !.functions = <<Fun("main", <<Par("p", "i32")>>, "i32",
      <<Blk("B1", 0, <<Wr("r", Ref("p")), Wr("c", Lit(1, "i8"))>>, RetV(Ref("p")))>>)>>,
                 !.maxOperations = 3],
   \* a loop that only the operation limit ends
   [Plain EXCEPT !.functions = Main(<<Wr("c", Lit(1, "i8"))>>, Jmp("B2"), <<>>, Jmp("B2"))],
   \* two blocks with the same guest address: the last one is the target
   [Plain EXCEPT !.functions = <<Fun("main", <<>>, Void,
      <<Blk("B1", 0, <<>>, Ind(Word(4), <<"B2", "B3">>)), Blk("B2", 4, <<>>, TrapT),
        Blk("B3", 4, <<>>, Ret)>>)>>]>>

ImageFiles == {"image"} \X (DOMAIN ImagePrograms)

ProgramIn(k) ==
  CASE k[1] = "straight" -> Straight(k)
    [] k[1] = "call"     -> Calling(k)
    [] k[1] = "divide"   -> Dividing(k)
    [] k[1] = "image"    -> ImagePrograms[k[2]]
=============================================================================
