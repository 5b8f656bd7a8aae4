---------------------------- MODULE MCMIPS32Parity ----------------------------
(* TLC instance of MIPS32Ingestion, the texts: families of small fixtures.   *)
(* ByteBits = 2, so that a word has 8 bits and an immediate 4.              *)
EXTENDS MIPS32Ingestion

R(funct, s, t, d, shamt) ==
  [opcode |-> 0, rs |-> s, rt |-> t, rd |-> d, shamt |-> shamt, funct |-> funct, imm |-> 0]
I(opcode, s, t, imm) ==
  [opcode |-> opcode, rs |-> s, rt |-> t, rd |-> 0, shamt |-> 0, funct |-> 0, imm |-> imm]

Nop          == R(0, 0, 0, 0, 0)
Move(d, s)   == R(\h21, s, 0, d, 0)
Addiu(t, s, imm) == I(\h09, s, t, imm)
Sw(t, imm, s) == I(\h2B, s, t, imm)
Jr(s)        == R(\h08, s, 0, 0, 0)
J(address)   == I(\h02, 0, 0, address \div 4)
Jal(address) == I(\h03, 0, 0, address \div 4)

\* A fixture whose words are code, from address start on.
Code(start, code) ==
  [a \in {start + 4 * (k - 1) : k \in DOMAIN code} |-> code[(a - start) \div 4 + 1]]

Fixture(start, code, r1, r2) ==
  [profile |-> "expansion", bigEndian |-> FALSE, words |-> Code(start, code),
   functions |-> {[id |-> "main", address |-> start]}, entry |-> start,
   memorySize |-> 8, segments |-> <<>>,
   initial |-> <<[slot |-> Slot(1), value |-> r1], [slot |-> Slot(2), value |-> r2]>>,
   observe |-> Slot(2), maxOperations |-> 90, maxSteps |-> 14]

----------------------------------------------------------------------------
(* Two simple instructions and a return with a delay slot. *)

Firsts ==
  {R(f, 1, 2, d, 0) : f \in {\h21, \h23, \h24, \h25, \h26, \h27, \h2A, \h2B}, d \in {0, 2}}
  \cup {R(f, 0, 1, 2, 0) : f \in {\h23, \h27, \h2A, \h2B}}
  \cup {R(f, 0, 1, 2, n) : f \in {\h00, \h02, \h03}, n \in {0, 1, 7}}
  \cup {R(f, 2, 1, 2, 0) : f \in {\h04, \h06, \h07}}
  \cup {R(\h02, 1, 1, 2, 1), R(\h04, 2, 1, 2, 1), R(\h21, 1, 2, 2, 1), R(\h10, 0, 1, 2, 0)}
  \cup {R(f, 1, 2, 0, 0) : f \in {\h18, \h19, \h1A}}
  \cup {I(o, 1, 2, imm) : o \in \h09..\h0E, imm \in {1, 8, 15}}
  \cup {I(\h0F, 0, 2, 9), I(\h0F, 1, 2, 9), I(\h3F, 1, 2, 0)}
  \cup {I(o, 1, 2, imm) : o \in {\h20, \h21, \h23, \h24, \h25, \h28, \h29, \h2B},
                          imm \in {0, 1, 2, 15}}

Seconds ==
  <<Nop, R(\h10, 0, 0, 1, 0), R(\h12, 0, 0, 0, 0), R(\h2A, 2, 1, 1, 0), I(\h21, 1, 2, 0)>>

Delays == <<Addiu(2, 2, 1), Sw(2, 0, 1)>>

Inputs == <<<<4, 131>>, <<130, 127>>, <<1, 255>>>>

PairFixtures ==
  Firsts \X (DOMAIN Seconds) \X (DOMAIN Delays) \X (DOMAIN Inputs) \X BOOLEAN

Static ==   \* .rodata, .data and .bss
  <<[address |-> 1, data |-> <<1, 2>>], [address |-> 3, data |-> <<3, 0, 2>>],
    [address |-> 6, data |-> <<0>>]>>

\* Little-endian memory comes from an ELF file, big-endian memory is stored first.
Pair(k) ==
  LET body == <<k[1], Seconds[k[2]], Jr(31), Delays[k[3]]>>
      p(code) == Fixture(4, code, Inputs[k[4]][1], Inputs[k[4]][2])
  IN  IF k[5] THEN [p(<<Sw(1, 0, 0), Sw(2, 4, 0)>> \o body) EXCEPT !.bigEndian = TRUE]
      ELSE [p(body) EXCEPT !.profile = "static", !.segments = Static]

----------------------------------------------------------------------------
(* A division, and one in the delay slot of the return; the quotient and    *)
(* the remainder are read between the two.                                  *)

Divide(funct, s, t, d) == R(funct, s, t, d, 0)

DivideFixtures ==
  {\h1A, \h1B} \X {<<1, 2>>, <<2, 1>>, <<1, 1>>, <<0, 1>>, <<1, 0>>} \X {0, 1, 2}
    \X {\h1A, \h1B} \X {0, 1, 7, 127, 128, 249, 255} \X {0, 1, 2, 128, 254, 255}

Dividing(k) ==
  [Fixture(4, <<Divide(k[1], k[2][1], k[2][2], IF k[3] = 2 THEN 1 ELSE 0),
                R(IF k[3] = 0 THEN \h10 ELSE \h12, 0, 0, 1, 0), Jr(31), Divide(k[4], 1, 2, 0)>>,
           k[5], k[6])
     EXCEPT !.profile = "divrem"]

----------------------------------------------------------------------------
(* A conditional branch to anywhere, with a delay slot that may change what *)
(* it tests, fault, or be a transfer itself.                                *)

Tests ==
  {<<\h04, 1, 2>>, <<\h05, 1, 2>>, <<\h04, 1, 1>>, <<\h05, 0, 1>>, <<\h06, 1, 0>>, <<\h07, 1, 0>>,
   <<\h06, 1, 1>>, <<\h01, 1, 0>>, <<\h01, 1, 1>>, <<\h01, 1, 2>>}

BranchDelays == <<Nop, Addiu(1, 1, 1), Addiu(1, 1, 15), Sw(1, 0, 1), I(\h04, 0, 0, 1)>>

BranchFixtures ==
  Tests \X {0, 1, 2, 3, 4, 14, 15} \X (DOMAIN BranchDelays)
             \X {0, 1, 127, 128, 255} \X {"slice", "expansion"}

Branching(k) ==
  LET test == I(k[1][1], k[1][2], k[1][3], k[2])
  IN  [Fixture(8, <<test, BranchDelays[k[3]], Addiu(2, 2, 1), Jr(31), Addiu(2, 2, 2)>>, k[4], 1)
         EXCEPT !.profile = k[5]]

----------------------------------------------------------------------------
(* Calls: main, at 8, saves $ra or not, calls what is at 32, and returns.   *)

Saves    == <<Move(2, 31), Nop>>
Transfer == <<Jal(32), Jal(36), J(20), J(32)>>
LinkDelays == <<Nop, Addiu(31, 31, 4), Move(1, 31)>>
Restores == <<Move(31, 2), Nop>>
Homes    == <<Jr(31), Jr(1), Nop>>

Callees ==
  <<<<Addiu(1, 1, 1), Jr(31), Move(1, 31), Nop>>,
    <<Jr(31), Addiu(31, 31, 4)>>,
    <<Addiu(31, 31, 4), Jr(31), Nop>>,
    <<Jal(32), Nop, Jr(31), Nop>>,
    <<I(\h04, 1, 0, 3), Addiu(1, 1, 1), J(32), Sw(1, 0, 1), Jr(31), Nop>>,
    <<J(8), Nop>>,
    <<Jr(31), Nop, Nop>>,
    <<I(\h07, 1, 0, 1), Nop, Nop>>,
    <<Jr(31)>>,
    \* a second callee, at 56
    <<Move(1, 31), Jal(56), Sw(31, 4, 0), Move(31, 1), Jr(31), Nop, Jr(31), Sw(31, 0, 0)>>>>

CallFixtures ==
  (DOMAIN Saves) \X (DOMAIN Transfer) \X (DOMAIN LinkDelays) \X (DOMAIN Restores)
           \X (DOMAIN Homes) \X (DOMAIN Callees) \X {"slice", "expansion"}

CallFunctions(callee) ==
  {[id |-> "main", address |-> 8], [id |-> "f", address |-> 32]}
    \cup (IF Len(callee) = 8 THEN {[id |-> "g", address |-> 56]} ELSE {})

Calling(k) ==
  LET main == <<Saves[k[1]], Transfer[k[2]], LinkDelays[k[3]], Restores[k[4]], Homes[k[5]], Nop>>
  IN  [Fixture(8, main \o Callees[k[6]], 2, 0) EXCEPT
         !.profile = k[7], !.functions = CallFunctions(Callees[k[6]])]

----------------------------------------------------------------------------
(* Fixtures at fault, and the edges of a jump's region.                     *)

Small == Fixture(8, <<Addiu(2, 2, 1), Jr(31), Nop, Nop, Jr(31), Nop>>, 1, 2)
Two   == {[id |-> "main", address |-> 8], [id |-> "f", address |-> 20]}

Region(base, code) == Fixture(base, code, 1, 2)

Others ==
  <<Small,
    [Small EXCEPT !.functions = Two],
    [Small EXCEPT !.functions = Two, !.entry = 20],
    [Small EXCEPT !.functions = {}],
    [Small EXCEPT !.functions = Two \cup {[id |-> "g", address |-> 20]}],
    [Small EXCEPT !.functions = {[id |-> "main", address |-> 8], [id |-> "main", address |-> 20]}],
    [Small EXCEPT !.functions = {[id |-> "main", address |-> 8], [id |-> "f", address |-> 12]}],
    [Small EXCEPT !.functions = {[id |-> "main", address |-> 8], [id |-> "f", address |-> 32]}],
    [Small EXCEPT !.entry = 12],
    [Small EXCEPT !.words = [a \in {8, 12, 16, 24, 28} |-> Small.words[a]]],
    [Small EXCEPT !.words = [a \in {8, 12, 16, 18} |-> Nop]],
    [Small EXCEPT !.words = << >>],
    [Small EXCEPT !.observe = Slot(0)],
    [Small EXCEPT !.observe = "special:lo"],
    [Small EXCEPT !.observe = "special:lo", !.profile = "slice"],
    [Small EXCEPT !.initial = <<[slot |-> Slot(0), value |-> 1]>>],
    [Small EXCEPT !.initial = <<[slot |-> Slot(31), value |-> 8]>>],
    [Small EXCEPT !.bigEndian = TRUE, !.profile = "slice"],
    \* an instruction the slice does not know, where no block reaches it
    [Small EXCEPT !.words[20] = R(\h18, 1, 2, 0, 0), !.profile = "slice"],
    [Small EXCEPT !.words[8] = R(\h18, 1, 2, 0, 0), !.profile = "slice"],
    \* a word that does not decode there
    [Small EXCEPT !.words[20] = R(\h1A, 1, 2, 0, 0)],
    Region(116, <<Nop, J(124 + 4), Nop, Jr(31), Addiu(2, 2, 1)>>),
    Region(116, <<Nop, J(116), Nop, Jr(31), Addiu(2, 2, 1)>>),
    Region(120, <<Nop, J(4), Addiu(2, 2, 1), Jr(31), Nop>>),
    Region(240, <<Nop, Jr(31), Nop>>)>>

MCCalls == {Calling(k) : k \in CallFixtures}

MCFixtures ==
  {Pair(k) : k \in PairFixtures} \cup {Branching(k) : k \in BranchFixtures}
    \cup {Dividing(k) : k \in DivideFixtures}
    \cup MCCalls \cup Elements(Others)
=============================================================================
