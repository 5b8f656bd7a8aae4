----------------------------- MODULE RV32IParity -----------------------------
(***************************************************************************)
(* What tools/check_rv32i_ir_v1_bridge.py and tools/check_core_api_v1.py   *)
(* demand of one fixture, of all files in Files: the E07 native program    *)
(* (tools/translate.py), the module that the bridge writes, run by the     *)
(* Core API, and the bridge's own oracle (tools/run_ir_v1_bridge.py) end   *)
(* with the same observable state.  The oracle steps with the executor,    *)
(* the native program takes turns with them: the executor to the next      *)
(* block, then the program to an address where a block starts.             *)
(***************************************************************************)
EXTENDS RV32INative, OracleParity

CONSTANT Files   \* the ELF files given to the tools

ASSUME FilesAssumption == \A f \in Files : FileShaped(f)

\* The oracle's depth and the one it writes, and the stack, as the tools have them.
ASSUME BridgeAssumption == OracleDepth = PackagedCallDepth /\ Fits(StackTop, "i32")

VARIABLES            \* with those of RV32INative and OracleParity
  file,      \* the file on its way through the tools
  turn,      \* who runs: "tools", "core", "native"; "refused"
  links,     \* auxiliary: where each active call of the program has to return to
  strays     \* auxiliary: what the program did that the bridge makes no promise of

\* What the tools make of some files, and what the loader reads back.
Packaged(files) ==
  LET sources == {Legacy(f) : f \in {g \in files : Buildable(g)}}
      bridged == {Bridged(l) : l \in {s \in sources : Translatable(s) /\ Bridgeable(s)}}
  IN  {d \in bridged : WellShaped(d)}

Written(p) == p

NoPackage == <<>>
NoSource  == <<>>

coreVars   == <<phase, executors, runs, operations, state, memory, stack, outcome, hostLog,
                services, oracle>>
packaged   == <<document, package>>
nativeVars == <<native, links, strays>>
parityVars == <<file, source, turn, packaged, coreVars, nativeVars>>

----------------------------------------------------------------------------
ParityInit ==
  /\ file \in Files
  /\ source = NoSource /\ document = NoPackage /\ package = NoPackage /\ turn = "tools"
  /\ native = NoSource /\ links = <<>> /\ strays = {}
  /\ phase = "loading" /\ executors = 0 /\ runs = 0 /\ operations = 0
  /\ state = NoValues /\ memory = NoValues
  /\ stack = <<>> /\ outcome = NoOutcome /\ hostLog = <<>>
  /\ services = Services(Contract) /\ oracle = NoOracle

\* make_ir.py, then its refusal or the IR.
Build ==
  /\ turn = "tools" /\ source = NoSource
  /\ IF Buildable(file) THEN source' = Legacy(file) /\ UNCHANGED turn
     ELSE turn' = "refused" /\ UNCHANGED source
  /\ UNCHANGED <<file, packaged, coreVars, nativeVars>>

\* translate.py, bridge_rv32i_ir_v1.py, validate_ir_v1.py's schema.
Bridge ==
  /\ turn = "tools" /\ source # NoSource
  /\ IF Translatable(source) /\ Bridgeable(source) /\ WellShaped(Bridged(source))
     THEN /\ document' = Bridged(source) /\ package' = document' /\ turn' = "core"
          /\ native' = NewNative(source) /\ links' = <<Sentinel>>
     ELSE turn' = "refused" /\ UNCHANGED <<packaged, native, links>>
  /\ UNCHANGED <<file, source, coreVars, strays>>

\* The executor stands at the start of a block, or its run has ended.
AtBlock == phase = "running" => Top.pc = 1

\* Loading, construction and run(), of executor and oracle.
CoreStarts ==
  /\ turn = "core"
  /\ Start
  /\ UNCHANGED <<file, source, turn, document, nativeVars>>

\* One instruction of both.
CoreSteps ==
  /\ turn = "core"
  /\ Together
  /\ turn' = IF AtBlock' THEN "native" ELSE "core"
  /\ UNCHANGED <<file, source, document, nativeVars>>

----------------------------------------------------------------------------
(* The native program's turn.  Before the bridge the program's $ra and     *)
(* stack hold the sentinel where the executor's hold 0, and what the C     *)
(* does at an unaligned address or after a host call without link the      *)
(* bridge does not do: a program that looks at any of these strays.        *)

BlockAddresses ==
  UNION {{b.address : b \in Elements(g.blocks)} : g \in Elements(package.functions)}

Executing == ~Halted /\ native.steps < MaxSteps /\ native.pc \in DOMAIN source.code

OpenRegisters(i) ==
  CASE i.op = "jal" -> IF HostSymbolAt(source, i.target) = {} THEN {}
                       ELSE UNION {Elements(HostArgs[h]) : h \in HostSymbolAt(source, i.target)}
    [] i.op = "addi" -> IF i.imm = 0 THEN {} ELSE {i.rs1}
    [] i.op \in {"add", "xor"} \cup Branches -> {i.rs1, i.rs2}
    [] i.op \in {"lui", "jalr"} -> {}
    [] OTHER -> {i.rs1}

\* Half of a word that holds the sentinel.
ReadsHalf(i) ==
  /\ i.op = "lhu" /\ InMemory(Address(i), 2)
  /\ LET word == Address(i) - (Address(i) % 4)
     IN  /\ word + 4 <= Contract.memorySize
         /\ RawValue([bigEndian |-> FALSE], native.memory, word, 4) = Sentinel

Returns(i) == i.op = "jalr"

Home(pc) == pc = links[Len(links)]

Strays(i) ==
  (IF Returns(i) /\ ~Home(U32(R(i.rs1) + i.imm)) THEN {"return"} ELSE {})
    \cup (IF (\E r \in OpenRegisters(i) : R(r) = Sentinel) \/ ReadsHalf(i) THEN {"sentinel"} ELSE {})
    \cup (IF i.op \in {"lw", "sw"} /\ Address(i) % 4 # 0 THEN {"unaligned"} ELSE {})
    \cup (IF i.op = "lhu" /\ Address(i) % 2 # 0 THEN {"unaligned"} ELSE {})
    \cup (IF IsTail(i) /\ HostSymbolAt(source, i.target) # {} THEN {"tail host call"} ELSE {})

Interpret ==
  /\ turn = "native"
  /\ Step
  /\ links' = IF ~Executing THEN links
              ELSE IF IsCall(Here) /\ HostSymbolAt(source, Here.target) = {}
              THEN Append(links, Next4)
              ELSE IF Returns(Here) /\ Home(native'.pc) THEN SubSeq(links, 1, Len(links) - 1)
              ELSE links
  /\ strays' = IF Executing THEN strays \cup Strays(Here) ELSE strays
  /\ turn' = IF Halted' \/ native'.pc \in BlockAddresses THEN "core" ELSE "native"
  /\ UNCHANGED <<file, source, packaged, coreVars>>

\* The program has stopped where the executor still waits for it.
Stopped ==
  /\ turn = "native" /\ Halted
  /\ turn' = "core"
  /\ UNCHANGED <<file, source, packaged, coreVars, nativeVars>>

ParityNext == Build \/ Bridge \/ CoreStarts \/ CoreSteps \/ Interpret \/ Stopped

ParitySpec == ParityInit /\ [][ParityNext]_parityVars

----------------------------------------------------------------------------
(* Both have run as far: to the start of a block or to their ends. *)
Compared == turn = "core" /\ runs = 1 /\ AtBlock

(* A limit of one side ended the run: the two budgets count other things. *)
Limited ==
  \/ native.steps >= MaxSteps
  \/ outcome.kind = "fault" /\ outcome.fault \in {"operation-limit", "call-depth"}

(* The value the program starts with in $ra is 0 in the executor. *)
SameWord(n, c) == n = c \/ (n = Sentinel /\ c = 0)

SameMemory ==
  \A a \in {b \in 0..(Contract.memorySize - 4) : b % 4 = 0} :
    LET Word4(m) == RawValue([bigEndian |-> FALSE], m, a, 4)
    IN  SameWord(Word4(native.memory), Word4(memory))

SameState ==
  /\ \A r \in Registers \ {0} : SameWord(native.regs[r], state[Slot(r)])
  /\ SameMemory
  /\ services = native.services

SamePlace ==
  CASE phase = "running" ->
         ~Halted /\ native.pc = FnOf(Top).blocks[Top.blk].address
    [] outcome.kind = "returned" -> native.fault = NoName /\ native.pc = Sentinel
    [] outcome.kind = "fault"    -> native.fault = outcome.fault

Agree == SameState /\ SamePlace

(* Symbols that name one function each, also once they are IR ids, which   *)
(* are apart from each other, and jumps to words: where names, sizes and   *)
(* addresses tell the same story.                                          *)
PlainSymbols ==
  /\ \A i, j \in DOMAIN source.symbols :
       /\ source.symbols[i].name = source.symbols[j].name => i = j
       /\ SafeId[source.symbols[i].name] = SafeId[source.symbols[j].name] => i = j
  /\ \A g \in Elements(source.functions) :
       /\ g.address \in DOMAIN source.code
       /\ \A h \in Elements(source.functions) : h # g => h.address \notin Body(g)
  /\ \A s \in Elements(source.symbols) :
       s.name \in Hosts \cup {EntryName} => s.name \in {g.name : g \in Elements(source.functions)}
  /\ \A a \in DOMAIN source.code :
       source.code[a].op \in Branches \cup {"jal"} =>
         source.code[a].target % 4 = Text(file).addr % 4


(* Whatever the bridge writes keeps to the part of IR V1 that its oracle    *)
(* knows, and to the memory, depth and slots it expects (_convert_function *)
(* and convert against run_ir_v1_bridge.py).                               *)
OracleKnowsModule == turn = "core" => ModuleBridged(package)

(* Of files with plain symbols the bridge writes no module that the        *)
(* validator or the image refuse, but for sections outside the guest's     *)
(* memory or over one another: names, types, targets and the values a      *)
(* block uses are in order (_convert_function).                            *)
BridgedAreAdmitted ==
  /\ OracleKnowsModule
  /\ turn = "core" /\ PlainSymbols =>
       /\ phase = "rejected" => ~SegmentsOK(package)
       /\ runs = 0 => outcome = NoOutcome
=============================================================================
