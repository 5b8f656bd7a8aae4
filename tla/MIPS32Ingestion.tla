--------------------------- MODULE MIPS32Ingestion ---------------------------
(***************************************************************************)
(* The two MIPS32 ELF front ends, from a file and a runtime sidecar to a   *)
(* packaged module: main of tools/mips32_elf_frontend_v1.py ("text") and   *)
(* of tools/mips32_elf_static_memory_frontend_v1.py ("static"); and what   *)
(* the module and the machine do when they run, as MIPS32Parity says.  A   *)
(* fixture of MIPS32Parity is either written as text, or made here.        *)
(*                                                                         *)
(* A runtime sidecar is a record                                           *)
(*   [profile, architecture, entry, functions, memorySize, initial,        *)
(*    observe, maxOperations, maxSteps]                                    *)
(* where entry is <<>> or <<address>>, and functions a sequence of         *)
(* [id, address] records, empty where the sidecar declares none.           *)
(***************************************************************************)
EXTENDS MIPS32ELF, MIPS32Parity

CONSTANTS
  Files,        \* the ELF files given to the tools
  Runtimes,     \* the runtime sidecars
  HostMemory,   \* memory.size_bytes of the host contract
  Identifiers   \* the names that match the pattern of the IR's schema

VARIABLES
  file, runtime, frontend,   \* NoFile where the fixture is a text
  view,       \* the file given to load_mips32_elf
  segments,   \* memory_segments
  image       \* what load_mips32_elf returned, NoImage before

\* turn is also "sections", "text" and "convert" here.
ingestVars == <<file, runtime, frontend, view, segments, image>>
allVars == <<vars, ingestVars>>

NoFile == <<>>
NoImage == <<>>

NoFixture == <<>>

FromText ==
  /\ Init
  /\ file = NoFile /\ runtime = NoFile /\ frontend = "none" /\ view = NoFile
  /\ segments = <<>> /\ image = NoImage

FromElf ==
  /\ file \in Files /\ runtime \in Runtimes /\ frontend \in {"text", "static"}
  /\ view = file /\ segments = <<>> /\ image = NoImage
  /\ turn = IF frontend = "static" THEN "sections" ELSE "text"
  /\ fixture = NoFixture /\ guest = NoFixture
  /\ package = NoPackage /\ links = <<0>> /\ strayed = FALSE
  /\ CoreInit

IngestInit == FromText \/ FromElf

\* The static front end only: the sections, then the view for the other loader.
ParseSections ==
  /\ turn = "sections"
  /\ IF HostMemory = runtime.memorySize /\ StaticOK(file, runtime.memorySize)
     THEN segments' = Segments(file) /\ view' = TextOnlyView(file) /\ turn' = "text"
     ELSE turn' = "refused" /\ UNCHANGED <<segments, view>>
  /\ UNCHANGED <<file, runtime, frontend, image, fixture, package, guestVars, coreVars>>

LoadText ==
  /\ turn = "text"
  /\ IF LoadsText(view) THEN image' = TextImage(view) /\ turn' = "convert"
     ELSE turn' = "refused" /\ UNCHANGED image
  /\ UNCHANGED <<file, runtime, frontend, view, segments, fixture, package, guestVars, coreVars>>

\* runtime_meta_for_elf: what the sidecar declares is what the file says, in
\* the order of addresses.
RuntimeAgrees ==
  /\ runtime.profile = "expansion-v1" /\ runtime.architecture = "mips32-le"
  /\ runtime.entry # <<>> => runtime.entry = <<image.entry>>
  /\ runtime.functions # <<>> =>
       /\ Elements(runtime.functions) = image.functions
       /\ \A i, j \in DOMAIN runtime.functions :
            i < j => runtime.functions[i].address < runtime.functions[j].address

\* The arguments of convert(), with the segments the packager will find.
ElfFixture ==
  [profile |-> IF frontend = "static" THEN "static" ELSE "expansion", bigEndian |-> FALSE,
   words |-> image.words, functions |-> image.functions, entry |-> image.entry,
   memorySize |-> runtime.memorySize, segments |-> segments, initial |-> runtime.initial,
   observe |-> runtime.observe, maxOperations |-> runtime.maxOperations,
   maxSteps |-> runtime.maxSteps]

ConvertElf ==
  /\ turn = "convert"
  /\ IF RuntimeAgrees /\ HostMemory = runtime.memorySize /\ Convertible(ElfFixture)
     THEN /\ fixture' = ElfFixture /\ package' = Converted(ElfFixture)
          /\ guest' = Machine!NewMachine(ElfFixture) /\ turn' = "core"
     ELSE turn' = "refused" /\ UNCHANGED <<fixture, package, guest>>
  /\ UNCHANGED <<ingestVars, links, strayed, coreVars>>

IngestNext ==
  \/ Next /\ UNCHANGED ingestVars
  \/ ParseSections \/ LoadText \/ ConvertElf

IngestSpec == IngestInit /\ [][IngestNext]_allVars

----------------------------------------------------------------------------
\* What an ELF loader puts into memory, apart from metadata sections.
LoadedSections ==
  {s \in Elements(file.sections) : Loaded(s) /\ s.name \notin Metadata}

\* What the package was made of: one piece of code and the segments.
Kept ==
  {[address |-> g.address, data |-> g.data] : g \in Elements(package.segments)}
    \cup {[address |-> CHOOSE a \in DOMAIN image.words : \A b \in DOMAIN image.words : a <= b,
           data |-> [k \in 1..Cardinality(DOMAIN image.words) |->
                       image.words[Text(file).addr + 4 * (k - 1)]]]}

(* A packaged module has all that the file loads, each section at its      *)
(* address with its content, and nothing else: the front ends reject what  *)
(* they do not ingest, in two passes over different views of the file      *)
(* (_parse_original_sections and load_mips32_elf).  Of files with one      *)
(* section named .text: of a second one, both drop the content.            *)
OneTextKeepsAll ==
  /\ file # NoFile /\ turn = "core" /\ phase = "loading"
  /\ Cardinality({k \in DOMAIN file.sections : file.sections[k].name = ".text"}) = 1
  => Kept = {[address |-> s.addr, data |-> Content(s)] : s \in LoadedSections}

(* No module that a front end writes is refused by the validator, the      *)
(* packager or the executor: names, types, targets, the values a block     *)
(* uses, segments, their bounds and gaps, initial and observed slots are   *)
(* always in order (_convert_function, validate_ir_v1.py, module.py).      *)
(* Function names come from an ELF file as they are; this is about those   *)
(* that are identifiers of the IR.                                         *)
ConversionsAreAdmitted ==
  turn = "core" /\ {f.id : f \in fixture.functions} \subseteq Identifiers =>
    /\ phase = "loading" => WellShaped(package)
    /\ phase # "rejected"
    /\ runs = 0 => outcome = Core!NoOutcome
=============================================================================
