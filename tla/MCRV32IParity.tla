---------------------------- MODULE MCRV32IParity ----------------------------
(* TLC instance of RV32IParity: families of small files.  ByteBits = 2, so  *)
(* that a word has 8 bits; an immediate has 4 and a branch offset 6.        *)
EXTENDS RV32IParity

Field(x, bits) == Mask(x, bits)

W(opcode, f3, rd, rs1, rs2, f7, imm) ==
  [opcode |-> opcode, rd |-> rd, f3 |-> f3, rs1 |-> rs1, rs2 |-> rs2, f7 |-> f7, imm |-> imm]

OpImm(f3, rd, rs1, imm) == W(\h13, f3, rd, rs1, 0, 0, Field(imm, ImmediateBits))
Addi(rd, rs1, imm) == OpImm(0, rd, rs1, imm)
Shift(f3, rd, rs1, n, f7) == W(\h13, f3, rd, rs1, n, f7, 0)
Alu(f3, rd, rs1, rs2, f7) == W(\h33, f3, rd, rs1, rs2, f7, 0)
LoadOf(f3, rd, imm, rs1) == W(\h03, f3, rd, rs1, 0, 0, Field(imm, ImmediateBits))
Sw(rs2, imm, rs1) == W(\h23, 2, 0, rs1, rs2, 0, Field(imm, ImmediateBits))
Lui(rd, upper) == W(\h37, 0, rd, 0, 0, 0, upper)
B(f3, rs1, rs2, offset) == W(\h63, f3, 0, rs1, rs2, 0, Field(offset, BranchBits))
JalBy(rd, offset) == W(\h6F, 0, rd, 0, 0, 0, Field(offset, JumpBits))
Jalr(rd, rs1, imm) == W(\h67, 0, rd, rs1, 0, 0, Field(imm, ImmediateBits))

Nop == Addi(0, 0, 0)
RetW == Jalr(0, 1, 0)

----------------------------------------------------------------------------
(* Files.  main is at 16, a second function at 64, a third at 96, and the   *)
(* host stubs, one word each, from 112 on.                                  *)

Origin == 16
F == 64
G == 96
HostAt == [host_graphics |-> 112, host_audio |-> 116, host_input |-> 120, host_system |-> 124]

Padded(code, n) == code \o [k \in 1..(n - Len(code)) |-> Nop]

Symbol(name, value, size) == [name |-> name, value |-> value, size |-> size, type |-> 2, shndx |-> 1]

HostSymbols4 ==
  <<Symbol("host_graphics", 112, 4), Symbol("host_audio", 116, 4),
    Symbol("host_input", 120, 4), Symbol("host_system", 124, 4)>>

Section(name, type, flags, addr, offset, size, data) ==
  [name |-> name, type |-> type, flags |-> flags, addr |-> addr, align |-> 4, offset |-> offset,
   size |-> size, link |-> 0, entsize |-> 0, data |-> data, symbols |-> <<>>]

TextSection(code) ==
  Section(".text", "progbits", {"alloc", "exec"}, Origin, 52, 4 * Len(code), code)

TableSection(symbols) ==
  [Section(".symtab", "symtab", {}, 0, 190, 16 * Len(symbols), <<>>) EXCEPT
     !.link = 1, !.entsize = 16, !.symbols = symbols]

DataSection(addr, data) ==
  Section(".data", "progbits", {"alloc", "write"}, addr, 176, Len(data), data)

FileOf(code, symbols, sections) ==
  [magic |-> TRUE, class |-> 1, encoding |-> 1, ident |-> 1, etype |-> 2, machine |-> RISCV,
   version |-> 1, ehsize |-> 52, entry |-> Origin, shoff |-> 320, shentsize |-> 40,
   shstrndx |-> 1, length |-> 600,
   sections |-> <<TextSection(code), Section(".shstrtab", "strtab", {}, 0, 164, 8, <<>>),
                  TableSection(symbols)>> \o sections]

Laid(main, f, g) ==
  Padded(Padded(Padded(main, 12) \o f, 20) \o g, 24) \o <<RetW, RetW, RetW, RetW>>

SymbolsOf(main, f, g) ==
  <<Symbol("fixture_main", Origin, 4 * Len(main))>>
    \o (IF f = <<>> THEN <<>> ELSE <<Symbol("f$1", F, 4 * Len(f))>>)
    \o (IF g = <<>> THEN <<>> ELSE <<Symbol("g", G, 4 * Len(g))>>)
    \o HostSymbols4

Program(main, f, g) == FileOf(Laid(main, f, g), SymbolsOf(main, f, g), <<>>)

WithData(p) == [p EXCEPT !.sections = p.sections \o
  <<DataSection(0, <<1, 2, 3, 0, 3>>), Section(".bss", "nobits", {"alloc", "write"}, 5, 900, 2, <<>>)>>]

\* A jump or call from the k-th word of main, or of f.
From(base, k, rd, target) == JalBy(rd, target - (base + 4 * (k - 1)))

----------------------------------------------------------------------------
(* Two instructions on 131 and 5, or 252, with data in memory. *)

Firsts ==
  {OpImm(f3, rd, 11, imm) : f3 \in {0, 7}, rd \in {0, 10}, imm \in {1, -1, 7, -8}}
  \cup {Shift(f3, 10, 11, n, 0) : f3 \in {1, 5}, n \in {0, 1, 7}}
  \cup {Alu(f3, rd, s, t, 0) : f3 \in {0, 4}, rd \in {0, 10}, s \in {10, 11}, t \in {0, 11}}
  \cup {LoadOf(f3, 10, imm, 0) : f3 \in {2, 5}, imm \in {0, 2, 4, 1, -1, 6}}
  \cup {LoadOf(f3, 10, 0, 12) : f3 \in {2, 5}}
  \cup {Sw(11, imm, 0) : imm \in {0, 4, 2, 5, -4}}
  \cup {Lui(rd, 9) : rd \in {0, 10}}
  \cup {Sw(1, -4, 2), LoadOf(2, 1, -4, 2)}
  \cup {OpImm(1, 10, 11, 1), OpImm(4, 10, 11, 1), Shift(5, 10, 11, 1, 32), Alu(0, 10, 10, 11, 32),
        Alu(1, 10, 10, 11, 0), LoadOf(0, 10, 0, 0), W(\h23, 0, 0, 0, 11, 0, 0),
        W(\h0F, 0, 0, 0, 0, 0, 0)}

Seconds == <<Nop, Addi(10, 10, -1), Sw(10, 4, 0), LoadOf(5, 12, 4, 0), Addi(12, 1, 1)>>

Pair(first, second, upper) ==
  WithData(Program(<<Lui(11, upper), Addi(11, 11, 3), Addi(10, 0, 5), Addi(12, 0, 4), first,
                     Seconds[second], RetW>>, <<>>, <<>>))

Pairs == {Pair(a, b, u) : a \in Firsts, b \in DOMAIN Seconds, u \in {0, 8}}

----------------------------------------------------------------------------
(* A conditional branch to anywhere near, and a loop. *)

Branching(f3, left, right, offset) ==
  Program(<<Lui(11, left), Addi(10, 0, right), B(f3, 11, 10, offset), Addi(12, 12, 1),
            B(1, 0, 0, 8), RetW, Addi(12, 12, 2), Sw(12, 0, 0), RetW>>, <<>>, <<>>)

Branchings ==
  {Branching(f3, left, right, offset) :
     f3 \in {0, 1, 6, 7, 4}, left \in {0, 15}, right \in {0, -1}, offset \in {4, 8, 12, -8, 0, 2, 24}}

Loop(f3) ==
  Program(<<Addi(10, 0, 3), Addi(11, 11, 1), Addi(10, 10, -1), B(f3, 10, 0, -8), RetW>>, <<>>, <<>>)

----------------------------------------------------------------------------
(* Calls: main saves $ra or not, goes somewhere, restores it, returns. *)

Prologues == <<<<Addi(2, 2, -4), Sw(1, 0, 2)>>, <<Addi(12, 1, 0), Nop>>, <<Nop, Nop>>>>
Epilogues == <<<<LoadOf(2, 1, 0, 2), Addi(2, 2, 4)>>, <<Addi(1, 12, 0), Nop>>, <<Nop, Nop>>>>
Goals == {F, G, 36} \cup {HostAt[h] : h \in Hosts}

Called ==
  <<<<Addi(10, 10, 2), RetW>>,
    <<Addi(10, 10, 1), JalBy(0, G - F - 4)>>,                      \* a tail call
    <<Addi(12, 1, 0), JalBy(1, G - F - 4)>>,                       \* runs out of f
    <<Addi(1, 1, 4), RetW>>,                                       \* returns elsewhere
    <<Addi(10, 10, 1), JalBy(0, HostAt["host_system"] - F - 4)>>,  \* ends in a host call
    <<Addi(11, 1, 0), JalBy(1, G - F - 4), Addi(1, 11, 0), RetW>>,
    <<JalBy(11, HostAt["host_input"] - F), Addi(10, 10, 1), Sw(10, 0, 0), RetW>>,
    \* recursion, three calls deep
    <<Addi(2, 2, -4), Sw(1, 0, 2), Addi(10, 10, -1), B(0, 10, 0, 8), JalBy(1, -16),
      LoadOf(2, 1, 0, 2), Addi(2, 2, 4), RetW>>>>

Calling(save, restore, rd, goal, called) ==
  LET head == <<Addi(10, 0, 3)>> \o Prologues[save]
      main == IF rd = 0 THEN head \o Epilogues[restore] \o <<From(Origin, 6, 0, goal)>>
              ELSE head \o <<From(Origin, 4, rd, goal)>> \o Epilogues[restore] \o <<RetW>>
  IN  Program(main, Called[called], <<Addi(10, 10, 1), RetW>>)

Callings ==
  {Calling(save, restore, rd, goal, called) :
     save \in DOMAIN Prologues, restore \in DOMAIN Epilogues, rd \in {0, 1, 11},
     goal \in Goals, called \in DOMAIN Called}

(* Every host function, twice, with its arguments in and out of range. *)
Hosting(h1, h2, x, y) ==
  LET main == <<Addi(12, 1, 0), Addi(10, 0, x), Addi(11, 0, y), From(Origin, 4, 1, HostAt[h1]),
                Addi(10, 10, 1), From(Origin, 6, 1, HostAt[h2]), Addi(1, 12, 0), RetW>>
  IN  Program(main, <<>>, <<>>)

Hostings == {Hosting(h1, h2, x, y) : h1 \in Hosts, h2 \in Hosts, x \in {0, 1, 2}, y \in {0, 1, 7}}

----------------------------------------------------------------------------
(* Files at fault, and symbols that are not plain. *)

Small == Program(<<Addi(10, 0, 3), RetW>>, <<Addi(10, 10, 1), RetW>>, <<>>)

WithSymbols(p, symbols) ==
  [p EXCEPT !.sections[3].symbols = symbols, !.sections[3].size = 16 * Len(symbols)]

SmallSymbols == Small.sections[3].symbols

HeaderFaults ==
  {[Small EXCEPT !.magic = FALSE], [Small EXCEPT !.class = 2], [Small EXCEPT !.encoding = 2],
   [Small EXCEPT !.etype = 3], [Small EXCEPT !.machine = 8], [Small EXCEPT !.version = 0],
   [Small EXCEPT !.ehsize = 40], [Small EXCEPT !.shoff = 0], [Small EXCEPT !.shentsize = 32],
   [Small EXCEPT !.shoff = 481], [Small EXCEPT !.shstrndx = 3], [Small EXCEPT !.length = 51],
   [Small EXCEPT !.entry = Origin - 4], [Small EXCEPT !.entry = 128]}

SectionFaults ==
  {[Small EXCEPT !.sections[1].name = ".init"], [Small EXCEPT !.sections[1].type = "nobits"],
   [Small EXCEPT !.sections[1].size = 0], [Small EXCEPT !.sections[2].offset = 593],
   [Small EXCEPT !.sections[3].link = 3], [Small EXCEPT !.sections[3].entsize = 0],
   WithSymbols(Small, <<>>),
   [WithData(Small) EXCEPT !.sections[4].addr = 4], [WithData(Small) EXCEPT !.sections[5].addr = 11],
   [WithData(Small) EXCEPT !.sections[5].addr = 4], [WithData(Small) EXCEPT !.sections[4].size = 0],
   [WithData(Small) EXCEPT !.sections[4].name = ".text"]}

SymbolFaults ==
  {WithSymbols(Small, SelectSeq(SmallSymbols, LAMBDA s : s.name # n)) :
     n \in {"fixture_main", "host_audio", "f$1"}}
  \cup {WithSymbols(Small, SmallSymbols \o <<s>>) :
          s \in {Symbol("f_1", 88, 8), Symbol("g", F, 8), Symbol("fixture_main", F, 8),
                 Symbol("g", Origin, 16), Symbol("", 88, 8), Symbol("host_input", 88, 8),
                 Symbol("g", 90, 2), Symbol("g", F + 4, 4), [Symbol("g", 88, 8) EXCEPT !.type = 0]}}
  \cup {WithSymbols(Small, [SmallSymbols EXCEPT ![1].type = 1]),
        WithSymbols(Small, [SmallSymbols EXCEPT ![1].size = 0]),
        WithSymbols(Small, [SmallSymbols EXCEPT ![1].value = Origin + 4]),
        WithSymbols(Small, <<Symbol("fixture_main", Origin, 8), Symbol("f$1", F, 8),
                             Symbol("f_1", G, 8)>> \o HostSymbols4),
        WithSymbols(Program(<<JalBy(1, F - Origin), JalBy(1, G - Origin - 4), RetW>>,
                            <<Addi(10, 10, 1), RetW>>, <<Addi(10, 10, 1), RetW>>),
                    <<Symbol("fixture_main", Origin, 12), Symbol("f$1", F, 8),
                      Symbol("f_1", G, 8)>> \o HostSymbols4)}

Jalrs == {Program(<<Addi(10, 0, 3), w>>, <<>>, <<>>) :
            w \in {Jalr(0, 10, 0), Jalr(1, 1, 0), Jalr(0, 1, 4), Jalr(0, 1, 0)}}

Others == Jalrs \cup HeaderFaults \cup SectionFaults \cup SymbolFaults \cup {Loop(0), Loop(1), Small, WithData(Small)}

----------------------------------------------------------------------------
MCSafeId ==
  "f$1" :> "f_1" @@ "f_1" :> "f_1" @@ "g" :> "g" @@ "fixture_main" :> "fixture_main"
    @@ [h \in Hosts |-> h]

MCContract ==
  [version |-> "0.1.1", width |-> 2, height |-> 2, channels |-> 3, xorG |-> 1, xorB |-> 2,
   sampleCount |-> 2, sampleStep |-> 5, inputs |-> <<4, 7, 1>>, bias |-> 7, tickStart |-> 0,
   memorySize |-> 12]

MCRunArgs == {<<>>}

MCReplies == {<<v>> : v \in 0..(2^WordBits - 1)}

(* All modules that Bridge writes are well shaped, by its guard; the        *)
(* assumptions of CoreExecutor are evaluated on these.                      *)
MCDocuments == Packaged(Hostings \cup Branchings \cup Others)

MCFiles == Pairs \cup Branchings \cup Callings \cup Hostings \cup Others
=============================================================================
