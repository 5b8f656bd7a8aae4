---------------------------- MODULE ElfToolchain ----------------------------
(***************************************************************************)
(* The tools that take one MIPS32 ELF with static memory from the file to  *)
(* the verdict that all execution paths agree, as                          *)
(* .github/workflows/mips32-elf-static-memory-v1.yml runs them: front end, *)
(* reference machine, packager, Core V1, C back end, ABI adapter,          *)
(* compiler, native run and checker.  They are separate programs, and all  *)
(* that passes between them are files: a tool reads its inputs, may refuse *)
(* them, and then writes its output files one after the other.  A script   *)
(* can stop anywhere, and the sources can change between two tools; what   *)
(* is left of earlier runs is still in the build directory at the next.    *)
(*                                                                         *)
(* A digest is the content it is computed from (no collisions).  What a    *)
(* program computes is the constant Outcome: two programs may have the     *)
(* same one.  Architecture, adapter names, formats and versions that every *)
(* tool of this path writes and expects alike are left out.  So is the     *)
(* second, identical output of each generating tool, which the script      *)
(* compares with the first.                                                *)
(***************************************************************************)
EXTENDS Naturals, Sequences

CONSTANTS
    Elfs,       \* [digest, words, functions, data]
    Runtimes,   \* [id, functions, size, setup, data, result]: the sidecar
                \* with the initial state and what is expected
    Contracts,  \* [version, size]
    Outcome,    \* [<<words, data, setup>> -> result]
    Undeclared, \* a runtime sidecar without function declarations
    Unreadable, \* a file that does not exist or was cut off
    MaxEdits,   \* bound on changes of the sources, by hand and by script
    MaxStarts   \* bound on starts of the script

ASSUME ToolchainAssumption ==
    /\ \A e, f \in Elfs : e.digest = f.digest => e = f
    /\ MaxEdits \in [BOOLEAN -> Nat] /\ MaxStarts \in Nat

VARIABLES
    elf, runtime, contract, \* the sources
    byHand,                 \* TRUE: tools in any order, FALSE: the workflow's
                            \* script
    file,                   \* the build directory
    left,                   \* what the running tool has still to write
    pc,                     \* the script's step, 0 when it does not run
    passed,                 \* the checker's last word on these files
    edits, starts           \* how often each happened

sources == <<elf, runtime, contract>>
vars == <<elf, runtime, contract, byHand, file, left, pc, passed, edits, starts>>

Files == {"ir", "sidecar", "report", "elfMeta", "module", "code", "adapter",
          "library", "reference", "core", "aot"}

\* The steps of "Run static-memory frontend, reference, Core and native AOT
\* matrix".
Script == <<"frontend", "reference", "package", "validate", "core",
            "translate", "adapt", "link", "test_abi", "aot", "check">>

Readable(names) == \A n \in names : file[n] # Unreadable

-----------------------------------------------------------------------------
(* Documents *)

\* What the machine, the executor and the C code are given to run.
Program(words, data, setup) == [words |-> words, data |-> data, setup |-> setup]
ResultOf(p) == Outcome[<<p.words, p.data, p.setup>>]

\* runtime_meta_for_elf
FunctionsAgree == runtime.functions \in {Undeclared, elf.functions}

Ir == [id |-> runtime.id, source |-> elf.digest, words |-> elf.words,
       version |-> contract.version]
Sidecar == [source |-> elf.digest, size |-> runtime.size,
            setup |-> runtime.setup, data |-> elf.data]
Report == [source |-> elf.digest]
ElfMeta == [source |-> elf.digest, data |-> elf.data]

\* The manifest of the files as they are.
Module ==
    [id |-> file["ir"].id, ir |-> file["ir"], source |-> file["ir"].source,
     version |-> contract.version, contract |-> contract,
     size |-> file["sidecar"].size, setup |-> file["sidecar"].setup,
     data |-> file["sidecar"].data]

\* ModuleImage.from_documents, as far as it compares one file with another.
Admitted ==
    LET module == file["module"]
        ir     == file["ir"]
    IN  /\ Readable({"module", "ir"})
        /\ module.id = ir.id
        /\ module.ir = ir
        /\ module.source = ir.source
        /\ module.version = contract.version
        /\ ir.version = contract.version
        /\ module.contract = contract
        /\ module.size = contract.size

ModuleProgram ==
    Program(file["ir"].words, file["module"].data, file["module"].setup)

\* The metadata that the adapter compiles in.
Metadata == [id |-> file["module"].id, version |-> contract.version,
             source |-> file["ir"].source]

\* A result with the program it is the result of: the document has the
\* latter only for the reference machine, and there as initial memory.
Result(source, program) ==
    [source |-> source, result |-> ResultOf(program), program |-> program]

-----------------------------------------------------------------------------
(* How tools run *)

Turn(tool) ==
    /\ left = <<>>
    /\ byHand \/ (pc > 0 /\ Script[pc] = tool)

NextStep == IF byHand THEN pc ELSE pc + 1

\* The tool has its output and starts to write it.
Produces(documents) ==
    /\ left' = documents
    /\ passed' = FALSE
    /\ UNCHANGED <<sources, file, pc, edits, starts>>

\* The tool only looks.
Approves ==
    /\ pc' = NextStep
    /\ UNCHANGED <<sources, file, left, passed, edits, starts>>

\* One file is written; after the last one the tool has ended.
Write ==
    /\ left # <<>>
    /\ file' = [file EXCEPT ![Head(left)[1]] = Head(left)[2]]
    /\ left' = Tail(left)
    /\ pc' = IF Tail(left) = <<>> THEN NextStep ELSE pc
    /\ UNCHANGED <<sources, passed, edits, starts>>

\* Somebody interrupts the tools, or (set -e) one of them has failed.  The
\* file that was being written may be cut off.
Stop ==
    /\ pc > 0 \/ left # <<>>
    /\ \/ UNCHANGED file
       \/ /\ left # <<>>
          /\ file' = [file EXCEPT ![Head(left)[1]] = Unreadable]
    /\ left' = <<>>
    /\ pc' = 0
    /\ UNCHANGED <<sources, passed, edits, starts>>

-----------------------------------------------------------------------------
(* The tools *)

\* mips32_elf_static_memory_frontend_v1.py
Frontend ==
    /\ Turn("frontend")
    /\ contract.size = runtime.size
    /\ FunctionsAgree
    /\ Produces(<<<<"ir", Ir>>, <<"sidecar", Sidecar>>,
                  <<"report", Report>>, <<"elfMeta", ElfMeta>>>>)

\* run_mips32_elf_static_memory_reference_v1.py
Reference ==
    /\ Turn("reference")
    /\ FunctionsAgree
    /\ Produces(<<<<"reference",
           Result(elf.digest, Program(elf.words, elf.data, runtime.setup))>>>>)

\* Mutant: the sidecar's source digest is not compared.
PackageAnySidecar ==
    /\ Turn("package")
    /\ Readable({"ir", "sidecar"})
    /\ contract.version = file["ir"].version
    /\ file["sidecar"].size = contract.size
    /\ Produces(<<<<"module", Module>>>>)

\* package_ir_v1_module.py
Package ==
    /\ Turn("package")
    /\ Readable({"ir", "sidecar"})
    /\ file["sidecar"].source = file["ir"].source
    /\ contract.version = file["ir"].version
    /\ file["sidecar"].size = contract.size
    /\ Produces(<<<<"module", Module>>>>)

\* validate_module_v1.py
Validate == Turn("validate") /\ Admitted /\ Approves

\* run_mips32_expansion_core_v1.py
Core ==
    /\ Turn("core")
    /\ Admitted
    /\ Produces(<<<<"core", Result(file["ir"].source, ModuleProgram)>>>>)

\* Mutant: C code that is there already is not generated again.
TranslateOnce ==
    /\ Turn("translate")
    /\ Admitted
    /\ IF Readable({"code"})
       THEN Approves
       ELSE Produces(<<<<"code", ModuleProgram>>>>)

\* aot_c_backend_v1.py
Translate ==
    /\ Turn("translate")
    /\ Admitted
    /\ Produces(<<<<"code", ModuleProgram>>>>)

\* native_aot_abi_v1.py
Adapt ==
    /\ Turn("adapt")
    /\ Admitted
    /\ Produces(<<<<"adapter", Metadata>>>>)

\* The compiler: the two C files know nothing of each other's origin.
Link ==
    /\ Turn("link")
    /\ Readable({"code", "adapter"})
    /\ Produces(<<<<"library", [code |-> file["code"],
                               adapter |-> file["adapter"]]>>>>)

\* test_native_aot_abi_v1.py: the metadata in the library.
TestAbi ==
    /\ Turn("test_abi")
    /\ Admitted
    /\ Readable({"library"})
    /\ file["library"].adapter = Metadata
    /\ Approves

\* run_aot_mips32_expansion_v1.py runs the library and takes the source digest
\* of the result from the IR file.
RunAot ==
    /\ Turn("aot")
    /\ Readable({"library", "ir"})
    /\ Produces(<<<<"aot", Result(file["ir"].source, file["library"].code)>>>>)

\* Mutant: the digests of the results are not among the compared ones.
AgreedOnResults ==
    LET module == file["module"]
    IN  /\ Readable({"report", "elfMeta", "ir", "module", "reference", "core",
                     "aot"})
        /\ file["elfMeta"].data = runtime.data
        /\ module.data = runtime.data
        /\ file["reference"].program.data = runtime.data
        /\ module.id = file["ir"].id
        /\ module.size = runtime.size
        /\ \A d, e \in {file["elfMeta"].source, file["ir"].source,
                        module.source, file["report"].source} : d = e
        /\ \A n \in {"reference", "core", "aot"} :
               file[n].result = runtime.result

\* What check_mips32_elf_static_memory_v1.py compares.  Its counts of delay slots
\* and operations are left out, so that it passes here whenever it does in the
\* code, and perhaps more often.
Agreed ==
    LET results == {file[n] : n \in {"reference", "core", "aot"}}
        module  == file["module"]
    IN  /\ Readable({"report", "elfMeta", "ir", "module", "reference", "core",
                     "aot"})
        /\ file["elfMeta"].data = runtime.data
        /\ module.data = runtime.data
        /\ file["reference"].program.data = runtime.data
        /\ module.id = file["ir"].id
        /\ module.size = runtime.size
        /\ \A d, e \in {r.source : r \in results}
                        \cup {file["elfMeta"].source, file["ir"].source,
                              module.source, file["report"].source} : d = e
        /\ \A r \in results : r.result = runtime.result

Check ==
    /\ Turn("check")
    /\ Agreed
    /\ passed' = TRUE
    /\ pc' = 0
    /\ UNCHANGED <<sources, file, left, edits, starts>>

-----------------------------------------------------------------------------
(* Sources and scripts *)

\* The workflow is started, in the build directory as it is.
Start ==
    /\ ~byHand
    /\ pc = 0 /\ left = <<>>
    /\ starts < MaxStarts
    /\ starts' = starts + 1
    /\ pc' = 1
    /\ passed' = FALSE
    /\ UNCHANGED <<sources, file, left, edits>>

\* A source is replaced, by the assembler or by an editor.
Edit ==
    /\ edits < MaxEdits[byHand]
    /\ edits' = edits + 1
    /\ \/ elf' \in Elfs \ {elf} /\ UNCHANGED <<runtime, contract>>
       \/ runtime' \in Runtimes \ {runtime} /\ UNCHANGED <<elf, contract>>
       \/ contract' \in Contracts \ {contract} /\ UNCHANGED <<elf, runtime>>
    /\ UNCHANGED <<file, left, pc, passed, starts>>

Init ==
    /\ elf \in Elfs
    /\ runtime \in Runtimes
    /\ contract \in Contracts
    /\ byHand \in BOOLEAN
    /\ file = [n \in Files |-> Unreadable]
    /\ left = <<>>
    /\ pc = 0
    /\ passed = FALSE
    /\ edits = 0 /\ starts = 0

Tool == \/ Frontend \/ Reference \/ Package \/ Validate \/ Core \/ Translate
        \/ Adapt \/ Link \/ TestAbi \/ RunAot \/ Check

Next == (Tool \/ Write \/ Stop \/ Start \/ Edit) /\ UNCHANGED byHand

Spec == Init /\ [][Next]_vars

-----------------------------------------------------------------------------
(* Properties *)

IsOf(program, digest) ==
    \E e \in Elfs :
        e.digest = digest /\ e.words = program.words /\ e.data = program.data

\* Whatever front end, packager and editors left in the build directory, a
\* module that ModuleImage admits runs the code and the initial memory of one
\* and the same ELF, the one its digest names: code comes from the IR file,
\* initial memory by way of the sidecar from another.
AdmittedIsOneBuild ==
    Admitted => IsOf(ModuleProgram, file["module"].source)

\* When the checker passes, the reference machine and Core V1 have both run
\* the ELF that the ELF metadata name, however old each result file is.
ComparedPathsRanTheElf ==
    passed => /\ IsOf(file["reference"].program, file["elfMeta"].source)
              /\ IsOf(file["core"].program, file["elfMeta"].source)

\* A PASS of the workflow is about one ELF on every path, the compiled one
\* included, whatever earlier and interrupted runs left in the build directory
\* and whenever the sources changed.
PassIsOfOneElf ==
    passed /\ ~byHand => \A n \in {"reference", "core", "aot"} :
                  IsOf(file[n].program, file["elfMeta"].source)
=============================================================================
