--------------------------------- MODULE ELF ---------------------------------
(***************************************************************************)
(* ELF32 files as the loaders see them, and the loader of RV32I files      *)
(* (tools/elf_loader.py).  A file is a record                              *)
(*   [magic, class, encoding, ident, etype, machine, version, ehsize,      *)
(*    entry, shoff, shentsize, shstrndx, length, sections]                 *)
(* of its header fields and its section table; a section is                *)
(*   [name, type, flags, addr, align, offset, size, link, entsize, data,   *)
(*    symbols]                                                             *)
(* where flags is a subset of {"alloc", "write", "exec"}, data what the    *)
(* file holds at offset (the words of .text, the bytes of other sections,  *)
(* nothing for "nobits") and symbols the entries of a symbol table,        *)
(*   [name, value, size, type, shndx].                                     *)
(* Names stand for the offsets into the string tables that give them.      *)
(* Sections are numbered from 0 in the file and from 1 here.               *)
(***************************************************************************)
EXTENDS IRBuild

HeaderSize  == 52
SectionSize == 40   \* of an entry of the section table
SymbolSize  == 16

TypeFunc == 2   \* STT_FUNC

\* What makes a record a file: tables are lists, fields unsigned numbers.
FileShaped(f) ==
  /\ IsList(f.sections)
  /\ \A s \in Elements(f.sections) :
       /\ {s.addr, s.offset, s.size, s.align, s.entsize, s.link} \subseteq Nat
       /\ IsList(s.data) /\ IsList(s.symbols)
       /\ \A y \in Elements(s.symbols) : {y.value, y.size, y.type, y.shndx} \subseteq Nat

\* What both loaders demand of the header.
HeaderOK(f, machine) ==
  /\ f.length >= HeaderSize /\ f.magic
  /\ f.class = 1 /\ f.encoding = 1
  /\ f.etype = 2 /\ f.machine = machine
  /\ f.version = 1 /\ f.ehsize >= HeaderSize
  /\ f.shoff # 0 /\ f.sections # <<>> /\ f.shentsize >= SectionSize
  /\ f.shoff + Len(f.sections) * f.shentsize <= f.length
  /\ f.shstrndx < Len(f.sections)

NameTable(f) == f.sections[f.shstrndx + 1]

InFile(f, s) == s.offset <= f.length /\ s.size <= f.length - s.offset

\* Every section is looked at, with space or without.
ContentsInFile(f) == \A s \in Elements(f.sections) : s.type # "nobits" => InFile(f, s)

\* next(section named .text): the first one.
TextIndex(f) == CHOOSE k \in DOMAIN f.sections :
  f.sections[k].name = ".text" /\ \A j \in 1..(k - 1) : f.sections[j].name # ".text"

HasText(f) == \E s \in Elements(f.sections) : s.name = ".text"

Text(f) == f.sections[TextIndex(f)]

Covers(s, address) == s.addr <= address /\ address < s.addr + s.size

\* The addresses of the words of .text.
TextAddresses(f) == {Text(f).addr + 4 * (k - 1) : k \in DOMAIN Text(f).data}

TextWords(f) == [a \in TextAddresses(f) |-> Text(f).data[(a - Text(f).addr) \div 4 + 1]]

Loaded(s) == "alloc" \in s.flags /\ s.size # 0

\* What is in memory at its address; zeros where the file has nothing.
Content(s) == IF s.type = "nobits" THEN [n \in 1..s.size |-> 0] ELSE s.data

----------------------------------------------------------------------------
(* load_elf *)

RISCV == 243

IsSymbolTable(s) == s.type = "symtab" /\ s.entsize # 0

SymbolTableOK(f, s) ==
  /\ s.link < Len(f.sections)
  /\ \A k \in 1..(s.size \div s.entsize) :
       s.offset + (k - 1) * s.entsize + SymbolSize <= f.length

\* A .text without content, taken from the file all the same.
FaultyRV32ITextOK(f) ==
  HasText(f) /\ Text(f).size # 0 /\ Text(f).size % 4 = 0 /\ Covers(Text(f), f.entry)

RV32ITextOK(f) ==
  /\ HasText(f)
  /\ Text(f).size # 0 /\ Text(f).size % 4 = 0
  /\ Text(f).type # "nobits"
  /\ Covers(Text(f), f.entry)

LoadsRV32I(f) ==
  /\ HeaderOK(f, RISCV)
  /\ InFile(f, NameTable(f))
  /\ ContentsInFile(f)
  /\ \A s \in Elements(f.sections) : IsSymbolTable(s) => SymbolTableOK(f, s)
  /\ RV32ITextOK(f)

\* The named symbols of all symbol tables, in order.
Symbols(f) ==
  LET WithNames(t) == Picked(t, {k \in DOMAIN t : t[k].name # NoName})
      Table(s) == IF IsSymbolTable(s) THEN WithNames(s.symbols) ELSE <<>>
  IN  Seqs!FlattenSeq([k \in DOMAIN f.sections |-> Table(f.sections[k])])

\* meta["alloc_sections"]
AllocSections(f) ==
  LET kept == Picked(f.sections, {k \in DOMAIN f.sections : Loaded(f.sections[k])})
  IN  [k \in DOMAIN kept |-> [name |-> kept[k].name, address |-> kept[k].addr,
                              data |-> Content(kept[k])]]
=============================================================================
