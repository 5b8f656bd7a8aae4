-------------------------- MODULE MCMIPS32Ingestion --------------------------
(* TLC instance of MIPS32Ingestion, the files: every sequence of up to      *)
(* three more sections beside .text, and files and sidecars at fault.       *)
EXTENDS MCMIPS32Parity

JrRa == Jr(31)
LwS(t, imm) == I(\h23, 0, t, imm)
JalF == Jal(28)

\* main, at 16, and f, at 28; other code of the same length without f.
Origin == 16
CodeWords  == <<LwS(1, 4), JrRa, Nop, LwS(2, 0), JrRa, Nop>>
OtherWords == <<Nop, JrRa, Nop, Nop, JrRa, Nop>>

Section(name, type, flags, addr, align, offset, size, data) ==
  [name |-> name, type |-> type, flags |-> flags, addr |-> addr, align |-> align,
   offset |-> offset, size |-> size, link |-> 0, entsize |-> 0, data |-> data, symbols |-> <<>>]

TextSection == Section(".text", "progbits", {"alloc", "exec"}, Origin, 4, 52, 24, CodeWords)
StringTable == Section(".shstrtab", "strtab", {}, 0, 1, 160, 8, <<>>)

Symbol(name, value) == [name |-> name, value |-> value, size |-> 12, type |-> 2, shndx |-> 0]

SymbolTable(symbols) ==
  [Section(".symtab", "symtab", {}, 0, 4, 200, 16 * Len(symbols), <<>>) EXCEPT
     !.link = 1, !.entsize = 16, !.symbols = symbols]

PlainSymbolsOf == <<Symbol("main", 16), Symbol("f", 28)>>

FileOf(sections, symbols) ==
  [magic |-> TRUE, class |-> 1, encoding |-> 1, ident |-> 1, etype |-> 2, machine |-> MIPS,
   version |-> 1, ehsize |-> 52, entry |-> Origin, shoff |-> 320, shentsize |-> 40,
   shstrndx |-> 1, length |-> 900,
   sections |-> <<TextSection, StringTable, SymbolTable(symbols)>> \o sections]

----------------------------------------------------------------------------
(* Sections to add, good and bad. *)

Data(name, flags, addr, bytes) ==
  Section(name, "progbits", {"alloc"} \cup flags, addr, 1, 100, Len(bytes), bytes)

Rodata == Data(".rodata", {}, 0, <<1, 2>>)
DataS  == Data(".data", {"write"}, 2, <<3, 0>>)
Bss    == Section(".bss", "nobits", {"alloc", "write"}, 4, 4, 900, 2, <<>>)

Pool ==
  {Rodata, DataS, Bss,
   [DataS EXCEPT !.addr = 1], [DataS EXCEPT !.addr = 3], [DataS EXCEPT !.addr = 6],
   [DataS EXCEPT !.addr = 7], [DataS EXCEPT !.flags = {"alloc"}],
   [DataS EXCEPT !.flags = {"write"}], [DataS EXCEPT !.size = 0, !.data = <<>>],
   [DataS EXCEPT !.align = 4], [DataS EXCEPT !.align = 3],
   [DataS EXCEPT !.offset = 899],
   [Rodata EXCEPT !.flags = {"alloc", "write"}], [Rodata EXCEPT !.type = "nobits", !.data = <<>>],
   [Bss EXCEPT !.addr = 8], [Bss EXCEPT !.type = "progbits", !.data = <<0, 0>>],
   [Bss EXCEPT !.flags = {"alloc", "write", "exec"}],
   Data(".reginfo", {}, 0, <<1>>), Data(".sdata", {"write"}, 0, <<1>>),
   Section(".rel.text", "rel", {}, 0, 1, 100, 4, <<>>), Section(".rel.text", "rel", {}, 0, 1, 100, 0, <<>>),
   Section(".text", "progbits", {"alloc", "exec"}, 44, 4, 76, 24, OtherWords)}

Laid == {<<>>} \cup {<<a>> : a \in Pool} \cup {<<a, b>> : a \in Pool, b \in Pool}
          \cup {<<Rodata, a, b>> : a \in Pool, b \in Pool}
          \cup {<<Rodata, a, b, c>> : a \in {DataS, Bss}, b \in {DataS, Bss}, c \in Pool}

SectionFiles == {FileOf(s, PlainSymbolsOf) : s \in Laid}

----------------------------------------------------------------------------
(* Files and sidecars at fault. *)

Plain  == FileOf(<<>>, PlainSymbolsOf)
Placed == FileOf(<<Rodata, DataS, Bss>>, PlainSymbolsOf)

Faults(p) ==
  {[p EXCEPT !.magic = FALSE], [p EXCEPT !.class = 2], [p EXCEPT !.encoding = 2], [p EXCEPT !.ident = 0],
   [p EXCEPT !.machine = RISCV], [p EXCEPT !.etype = 3], [p EXCEPT !.shoff = 0],
   [p EXCEPT !.shstrndx = 9], [p EXCEPT !.shoff = 880], [p EXCEPT !.entry = 18],
   [p EXCEPT !.entry = 28], [p EXCEPT !.entry = 20], [p EXCEPT !.entry = 40],
   [p EXCEPT !.sections[1].flags = {"alloc"}], [p EXCEPT !.sections[1].flags = {"exec"}],
   [p EXCEPT !.sections[1].type = "nobits"], [p EXCEPT !.sections[1].size = 22],
   [p EXCEPT !.sections[1].offset = 54], [p EXCEPT !.sections[1].name = ".init"],
   [p EXCEPT !.sections[1].addr = 14], [p EXCEPT !.sections[1].data[2] = Nop],
   [p EXCEPT !.sections[1].data[1] = JalF], [p EXCEPT !.sections[2].type = "nobits"],
   [p EXCEPT !.sections[3].link = 8], [p EXCEPT !.sections[3].entsize = 12],
   [p EXCEPT !.sections[3].size = 40]}

SymbolLists ==
  {PlainSymbolsOf, <<Symbol("main", 16)>>, <<Symbol("f", 28)>>, <<>>,
   <<Symbol("f", 28), Symbol("main", 16)>>,
   <<Symbol("main", 16), Symbol("f", 30)>>, <<Symbol("main", 16), Symbol("f", 40)>>,
   <<Symbol("main", 16), Symbol("f", 12)>>, <<Symbol("main", 16), Symbol("f", 16)>>,
   <<Symbol("main", 16), Symbol("main", 28)>>, <<Symbol("main", 16), Symbol("", 30)>>,
   <<Symbol("main", 16), Symbol("f@1", 28)>>, <<Symbol("main", 16), [Symbol("f", 30) EXCEPT !.shndx = 1]>>,
   <<Symbol("main", 16), [Symbol("f", 30) EXCEPT !.type = 1]>>}

MCFiles ==
  SectionFiles \cup Faults(Plain) \cup Faults(Placed)
    \cup {FileOf(s, symbols) : s \in {<<>>, <<Rodata, DataS, Bss>>}, symbols \in SymbolLists}

Sidecar ==
  [profile |-> "expansion-v1", architecture |-> "mips32-le", entry |-> <<>>, functions |-> <<>>,
   memorySize |-> 8, initial |-> <<[slot |-> Slot(1), value |-> 3]>>, observe |-> Slot(2),
   maxOperations |-> 30, maxSteps |-> 10]

Declared == <<[id |-> "main", address |-> 16], [id |-> "f", address |-> 28]>>

MCRuntimes ==
  {Sidecar, [Sidecar EXCEPT !.entry = <<16>>, !.functions = Declared],
   [Sidecar EXCEPT !.entry = <<28>>], [Sidecar EXCEPT !.functions = <<Declared[2], Declared[1]>>],
   [Sidecar EXCEPT !.functions = <<Declared[1]>>], [Sidecar EXCEPT !.memorySize = 12],
   [Sidecar EXCEPT !.profile = "slice"], [Sidecar EXCEPT !.architecture = "mips32-be"],
   [Sidecar EXCEPT !.observe = Slot(0)], [Sidecar EXCEPT !.initial = <<[slot |-> Slot(0), value |-> 1]>>]}
=============================================================================
