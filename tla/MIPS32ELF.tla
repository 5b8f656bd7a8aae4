------------------------------ MODULE MIPS32ELF ------------------------------
(***************************************************************************)
(* The loaders of MIPS32 ELF files.  LoadsText(f) says which files         *)
(* load_mips32_elf of tools/mips32_elf_frontend_v1.py accepts, TextImage   *)
(* what it makes of them; StaticOK, Segments and TextOnlyView are          *)
(* _parse_original_sections of                                             *)
(* tools/mips32_elf_static_memory_frontend_v1.py, which then gives the     *)
(* view, in which its static sections are no longer allocated, to the      *)
(* first loader.                                                           *)
(***************************************************************************)
EXTENDS ELF

MIPS == 8

Metadata    == {".reginfo", ".MIPS.abiflags"}
StaticNames == <<".rodata", ".data", ".bss">>

IdentOK(f) == f.ident = 1   \* EI_VERSION

NamesOK(f) == NameTable(f).type # "nobits" /\ InFile(f, NameTable(f))

Aligned(x) == x % 4 = 0

----------------------------------------------------------------------------
(* load_mips32_elf *)

MIPSTextOK(f) ==
  /\ HasText(f)
  /\ LET text == Text(f)
     IN  /\ text.size # 0 /\ text.type # "nobits"
         /\ {"alloc", "exec"} \subseteq text.flags
         /\ Aligned(text.addr) /\ Aligned(text.size) /\ Aligned(text.offset)
         /\ Covers(text, f.entry) /\ Aligned(f.entry)

NoRelocations(f) == \A s \in Elements(f.sections) : s.type \in {"rel", "rela"} => s.size = 0

\* Of the sections that are loaded, none but .text and the metadata.
OnlyText(f) ==
  \A s \in Elements(f.sections) : Loaded(s) => s.name \in {".text"} \cup Metadata

MIPSSymbolTableOK(f, s) ==
  /\ s.entsize >= SymbolSize /\ s.size % s.entsize = 0
  /\ s.link < Len(f.sections)
  /\ LET strings == f.sections[s.link + 1] IN strings.type # "nobits" /\ InFile(f, strings)

FunctionSymbols(f) ==
  LET all == Seqs!FlattenSeq([k \in DOMAIN f.sections |->
               IF f.sections[k].type = "symtab" THEN f.sections[k].symbols ELSE <<>>])
      IsFunction(s) == s.type = TypeFunc /\ s.shndx = TextIndex(f) - 1 /\ s.name # NoName
  IN  Picked(all, {k \in DOMAIN all : IsFunction(all[k])})

FunctionsOK(f) ==
  LET symbols == FunctionSymbols(f)
  IN  /\ \A s \in Elements(symbols) : Aligned(s.value) /\ Covers(Text(f), s.value)
      /\ \A i, j \in DOMAIN symbols : symbols[i].value = symbols[j].value => i = j
      /\ f.entry \in {s.value : s \in Elements(symbols)}

LoadsText(f) ==
  /\ HeaderOK(f, MIPS) /\ IdentOK(f) /\ NamesOK(f) /\ ContentsInFile(f)
  /\ MIPSTextOK(f) /\ NoRelocations(f) /\ OnlyText(f)
  /\ \A s \in Elements(f.sections) : s.type = "symtab" => MIPSSymbolTableOK(f, s)
  /\ FunctionsOK(f)

TextImage(f) ==
  [entry |-> f.entry, words |-> TextWords(f),
   functions |-> {[id |-> s.name, address |-> s.value] : s \in Elements(FunctionSymbols(f))}]

----------------------------------------------------------------------------
(* _parse_original_sections *)

PowerOfTwoOrZero(n) == n = 0 \/ \E k \in 0..n : n = 2^k

\* by_name: of sections with one name, the last.
NamedLast(f, name) == CHOOSE k \in DOMAIN f.sections :
  f.sections[k].name = name /\ \A j \in DOMAIN f.sections : f.sections[j].name = name => j <= k

StaticSection(f, n) == f.sections[NamedLast(f, StaticNames[n])]

StaticFlags == <<{"alloc"}, {"alloc", "write"}, {"alloc", "write"}>>

Apart(s, r) == s.addr + s.size <= r.addr \/ r.addr + r.size <= s.addr

StaticOK(f, memorySize) ==
  /\ HeaderOK(f, MIPS) /\ IdentOK(f) /\ NamesOK(f) /\ ContentsInFile(f)
  /\ \A s \in Elements(f.sections) :
       /\ PowerOfTwoOrZero(s.align) /\ (s.align > 1 => s.addr % s.align = 0)
       /\ Loaded(s) => s.name \in {".text"} \cup Metadata \cup Elements(StaticNames)
  /\ \A n \in DOMAIN StaticNames :
       /\ \E s \in Elements(f.sections) : s.name = StaticNames[n]
       /\ LET s == StaticSection(f, n)
          IN  /\ s.size # 0
              /\ (s.type = "nobits") <=> (StaticNames[n] = ".bss")
              /\ s.flags = StaticFlags[n]
              /\ s.addr + s.size <= memorySize
  /\ \A i, j \in DOMAIN StaticNames : i # j => Apart(StaticSection(f, i), StaticSection(f, j))

Segments(f) ==
  [n \in DOMAIN StaticNames |->
     [address |-> StaticSection(f, n).addr, data |-> Content(StaticSection(f, n))]]

\* Every section of such a name is taken for the one that became a segment.
FaultyTextOnlyView(f) ==
  [f EXCEPT !.sections = [k \in DOMAIN f.sections |->
     IF f.sections[k].name \in Elements(StaticNames)
     THEN [f.sections[k] EXCEPT !.flags = f.sections[k].flags \ {"alloc"}]
     ELSE f.sections[k]]]

\* sanitized: the three sections lose SHF_ALLOC in the file's own table.
TextOnlyView(f) ==
  [f EXCEPT !.sections = [k \in DOMAIN f.sections |->
     IF k \in {NamedLast(f, name) : name \in Elements(StaticNames)}
     THEN [f.sections[k] EXCEPT !.flags = f.sections[k].flags \ {"alloc"}]
     ELSE f.sections[k]]]
=============================================================================
