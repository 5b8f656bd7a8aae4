------------------------- MODULE ElfToolchainProofs -------------------------
(***************************************************************************)
(* For every set of ELFs, runtime sidecars and contracts, whatever          *)
(* programs compute, and however often sources change and tools stop:       *)
(* what the loader admits is of one ELF, the checker compares runs of one   *)
(* ELF, and in the workflow's order its verdict is about the library too.   *)
(*                                                                         *)
(* The argument is about documents.  Each tool copies a digest together     *)
(* with the content it belongs to, so a document that has been written, or  *)
(* is going to be, names the ELF of its content (Document).  Only the      *)
(* library does not name one; in the workflow's order it is of the ELF of   *)
(* the present IR from the step that compiles it on (InOrder).              *)
(***************************************************************************)
EXTENDS ElfToolchain, TLAPS

\* The words, or the data, are those of the ELF with this digest.
WordsOf(digest, words) ==
    \E e \in Elfs : e.digest = digest /\ e.words = words
DataOf(digest, data) ==
    \E e \in Elfs : e.digest = digest /\ e.data = data

\* What document d of the name n says of its source is so.
Document(n, d) ==
    /\ n = "ir" => WordsOf(d.source, d.words)
    /\ n \in {"sidecar", "module"} => DataOf(d.source, d.data)
    /\ n \in {"reference", "core"} => IsOf(d.program, d.source)

\* A document of the workflow's present step.
Scheduled(n, d) ==
    /\ n = "ir" => pc = 1
    /\ n = "code" <=> pc = 6
    /\ n = "code" => IsOf(d, file["ir"].source)
    /\ n = "library" <=> pc = 8
    /\ n = "library" => IsOf(d.code, file["ir"].source)
    /\ n = "aot" => IsOf(d.program, d.source)
    /\ pc < 11

Sources ==
    /\ elf \in Elfs
    /\ pc \in 0 .. 11
    /\ DOMAIN file = Files

Written == \A n \in Files : file[n] # Unreadable => Document(n, file[n])

\* The elements of `left` are pairs of a file name and a document.
Waiting ==
    \E A : /\ left \in Seq(A)
           /\ \A a \in A : /\ a[1] \in Files
                           /\ Document(a[1], a[2])
                           /\ ~byHand => Scheduled(a[1], a[2])

InOrder ==
    /\ pc > 6 => IsOf(file["code"], file["ir"].source)
    /\ pc > 8 => IsOf(file["library"].code, file["ir"].source)
    /\ file["aot"] # Unreadable => IsOf(file["aot"].program, file["aot"].source)

Verdict ==
    passed => /\ left = <<>>
              /\ \A n \in {"reference", "core", "aot"} :
                     /\ file[n] # Unreadable
                     /\ file[n].source = file["elfMeta"].source

IInv ==
    /\ Sources
    /\ Written
    /\ Waiting
    /\ ~byHand => InOrder
    /\ Verdict

-----------------------------------------------------------------------------

\* Words and data of the same digest are one ELF's: digests do not collide.
LEMMA OneElf ==
    ASSUME NEW p, NEW digest, WordsOf(digest, p.words), DataOf(digest, p.data)
    PROVE  IsOf(p, digest)
BY ToolchainAssumption DEF WordsOf, DataOf, IsOf

\* What ModuleImage admits is of the ELF that IR and module both name.
LEMMA AdmittedIsOne ==
    ASSUME Written, Admitted
    PROVE  /\ file["module"].source = file["ir"].source
           /\ WordsOf(file["ir"].source, file["ir"].words)
           /\ IsOf(ModuleProgram, file["ir"].source)
<1>1. /\ file["module"].source = file["ir"].source
      /\ file["module"] # Unreadable
      /\ file["ir"] # Unreadable
  BY DEF Admitted, Readable
<1>2. WordsOf(file["ir"].source, file["ir"].words)
  BY <1>1 DEF Written, Document, Files
<1>3. DataOf(file["ir"].source, file["module"].data)
  BY <1>1 DEF Written, Document, Files
<1>4. /\ ModuleProgram.words = file["ir"].words
      /\ ModuleProgram.data = file["module"].data
  BY DEF ModuleProgram, Program
<1> HIDE DEF ModuleProgram
<1> QED
  BY <1>1, <1>2, <1>3, <1>4, OneElf

\* Which step of the script a tool is.
LEMMA Steps ==
    ASSUME Sources, NEW t, Turn(t), ~byHand
    PROVE  /\ left = <<>>
           /\ t = "frontend" => pc = 1
           /\ t = "reference" => pc = 2
           /\ t = "package" => pc = 3
           /\ t = "validate" => pc = 4
           /\ t = "core" => pc = 5
           /\ t = "translate" => pc = 6
           /\ t = "adapt" => pc = 7
           /\ t = "link" => pc = 8
           /\ t = "test_abi" => pc = 9
           /\ t = "aot" => pc = 10
           /\ t = "check" => pc = 11
<1>1. pc \in 1 .. 11 /\ Script[pc] = t /\ left = <<>>
  BY DEF Sources, Turn
<1> QED
  BY <1>1 DEF Script

\* A tool that looks and approves keeps the invariant.
LEMMA Approving ==
    ASSUME IInv, left = <<>>, Approves, byHand' = byHand,
           ~byHand => pc \in {4, 9}
    PROVE  IInv'
<1>1. /\ file' = file /\ elf' = elf /\ left' = left /\ passed' = passed
      /\ pc' = NextStep
  BY DEF Approves, sources
<1>2. pc' \in 0 .. 11 /\ (~byHand => (pc' > 6 => pc > 6) /\ (pc' > 8 => pc > 8))
  BY <1>1 DEF NextStep, IInv, Sources
<1>3. Sources' /\ Written'
  BY <1>1, <1>2 DEF IInv, Sources, Written
<1>4. Waiting'
  <2>1. left' \in Seq({})
    BY <1>1
  <2> QED
    BY <2>1 DEF Waiting
<1>5. ~byHand => InOrder'
  BY <1>1, <1>2 DEF IInv, InOrder
<1>6. Verdict'
  BY <1>1 DEF IInv, Verdict
<1> QED
  BY <1>3, <1>4, <1>5, <1>6 DEF IInv

\* A tool that starts to write true documents keeps the invariant.
LEMMA Producing ==
    ASSUME IInv, NEW documents, NEW A, documents \in Seq(A), Produces(documents),
           byHand' = byHand,
           \A a \in A : /\ a[1] \in Files
                        /\ Document(a[1], a[2])
                        /\ ~byHand => Scheduled(a[1], a[2])
    PROVE  IInv'
<1>1. /\ file' = file /\ elf' = elf /\ pc' = pc
      /\ left' = documents /\ passed' = FALSE
  BY DEF Produces, sources
<1>2. Sources' /\ Written' /\ Verdict' /\ (~byHand => InOrder')
  BY <1>1 DEF IInv, Sources, Written, Verdict, InOrder
<1>3. \A a \in A : (~byHand => Scheduled(a[1], a[2]))'
  BY <1>1 DEF Scheduled
<1>4. Waiting'
  BY <1>1, <1>3 DEF Waiting
<1> QED
  BY <1>2, <1>4 DEF IInv

\* A tool with one output.
LEMMA ProducingOne ==
    ASSUME IInv, NEW n \in Files, NEW d, Produces(<<<<n, d>>>>),
           byHand' = byHand,
           Document(n, d), ~byHand => Scheduled(n, d)
    PROVE  IInv'
<1> DEFINE a == <<n, d>>
           A == {a}
           documents == <<a>>
<1>1. documents \in Seq(A) /\ \A b \in A : b[1] = n /\ b[2] = d
  OBVIOUS
<1>2. Produces(documents)
  OBVIOUS
<1> HIDE DEF a, A, documents
<1>3. \A b \in A : /\ b[1] \in Files
                  /\ Document(b[1], b[2])
                  /\ ~byHand => Scheduled(b[1], b[2])
  BY <1>1
<1> QED
  BY <1>1, <1>2, <1>3, Producing

-----------------------------------------------------------------------------
(* One lemma for each tool *)

LEMMA FrontendStep == IInv /\ Frontend /\ byHand' = byHand => IInv'
<1> SUFFICES ASSUME IInv, Frontend, byHand' = byHand PROVE IInv'
  OBVIOUS
<1> DEFINE A == {<<"ir", Ir>>, <<"sidecar", Sidecar>>,
                 <<"report", Report>>, <<"elfMeta", ElfMeta>>}
<1>1. Sources /\ elf \in Elfs /\ (~byHand => pc = 1)
  BY Steps DEF IInv, Sources, Frontend
<1>2. WordsOf(Ir.source, Ir.words) /\ DataOf(Sidecar.source, Sidecar.data)
  BY <1>1 DEF WordsOf, DataOf, Ir, Sidecar
<1>3. Produces(<<<<"ir", Ir>>, <<"sidecar", Sidecar>>,
                <<"report", Report>>, <<"elfMeta", ElfMeta>>>>)
  BY DEF Frontend
<1>4. <<<<"ir", Ir>>, <<"sidecar", Sidecar>>,
        <<"report", Report>>, <<"elfMeta", ElfMeta>>>> \in Seq(A)
  OBVIOUS
<1>5. ASSUME NEW a \in A
      PROVE  /\ a[1] \in Files
             /\ Document(a[1], a[2])
             /\ ~byHand => Scheduled(a[1], a[2])
  <2>1. CASE a = <<"ir", Ir>>
    BY <2>1, <1>1, <1>2 DEF Files, Document, Scheduled
  <2>2. CASE a = <<"sidecar", Sidecar>>
    BY <2>2, <1>1, <1>2 DEF Files, Document, Scheduled
  <2>3. CASE a = <<"report", Report>>
    BY <2>3, <1>1 DEF Files, Document, Scheduled
  <2>4. CASE a = <<"elfMeta", ElfMeta>>
    BY <2>4, <1>1 DEF Files, Document, Scheduled
  <2> QED
    BY <2>1, <2>2, <2>3, <2>4
<1> HIDE DEF A
<1> QED
  BY <1>3, <1>4, <1>5, Producing

LEMMA ReferenceStep == IInv /\ Reference /\ byHand' = byHand => IInv'
<1> SUFFICES ASSUME IInv, Reference, byHand' = byHand PROVE IInv'
  OBVIOUS
<1> DEFINE d == Result(elf.digest, Program(elf.words, elf.data, runtime.setup))
<1>1. Sources /\ elf \in Elfs /\ (~byHand => pc = 2)
  BY Steps DEF IInv, Sources, Reference
<1>2. IsOf(d.program, d.source)
  BY <1>1 DEF IsOf, Result, Program
<1>3. Produces(<<<<"reference", d>>>>)
  BY DEF Reference
<1> HIDE DEF d
<1>4. Document("reference", d) /\ (~byHand => Scheduled("reference", d))
  BY <1>1, <1>2 DEF Document, Scheduled
<1> QED
  BY <1>3, <1>4, ProducingOne DEF Files

LEMMA PackageStep == IInv /\ Package /\ byHand' = byHand => IInv'
<1> SUFFICES ASSUME IInv, Package, byHand' = byHand PROVE IInv'
  OBVIOUS
<1>1. Sources /\ (~byHand => pc = 3)
  BY Steps DEF IInv, Package
<1>2. DataOf(file["sidecar"].source, file["sidecar"].data)
  BY DEF IInv, Written, Document, Files, Package, Readable
<1>3. DataOf(Module.source, Module.data)
  <2>1. Module.source = file["sidecar"].source /\ Module.data = file["sidecar"].data
    BY DEF Module, Package
  <2> QED
    BY <1>2, <2>1
<1>4. Produces(<<<<"module", Module>>>>)
  BY DEF Package
<1>5. Document("module", Module) /\ (~byHand => Scheduled("module", Module))
  BY <1>1, <1>3 DEF Document, Scheduled
<1> QED
  BY <1>4, <1>5, ProducingOne DEF Files

LEMMA CoreStep == IInv /\ Core /\ byHand' = byHand => IInv'
<1> SUFFICES ASSUME IInv, Core, byHand' = byHand PROVE IInv'
  OBVIOUS
<1> DEFINE d == Result(file["ir"].source, ModuleProgram)
<1>1. Sources /\ (~byHand => pc = 5)
  BY Steps DEF IInv, Core
<1>2. IsOf(d.program, d.source)
  <2>1. d.program = ModuleProgram /\ d.source = file["ir"].source
    BY DEF Result
  <2>2. Written /\ Admitted
    BY DEF IInv, Core
  <2> HIDE DEF d
  <2> QED
    BY <2>1, <2>2, AdmittedIsOne
<1>3. Produces(<<<<"core", d>>>>)
  BY DEF Core
<1> HIDE DEF d
<1>4. Document("core", d) /\ (~byHand => Scheduled("core", d))
  BY <1>1, <1>2 DEF Document, Scheduled
<1> QED
  BY <1>3, <1>4, ProducingOne DEF Files

LEMMA TranslateStep == IInv /\ Translate /\ byHand' = byHand => IInv'
<1> SUFFICES ASSUME IInv, Translate, byHand' = byHand PROVE IInv'
  OBVIOUS
<1>1. Sources /\ (~byHand => pc = 6)
  BY Steps DEF IInv, Translate
<1>2. IsOf(ModuleProgram, file["ir"].source)
  BY AdmittedIsOne DEF IInv, Translate
<1>3. Produces(<<<<"code", ModuleProgram>>>>)
  BY DEF Translate
<1>4. /\ Document("code", ModuleProgram)
      /\ ~byHand => Scheduled("code", ModuleProgram)
  BY <1>1, <1>2 DEF Document, Scheduled
<1> QED
  BY <1>3, <1>4, ProducingOne DEF Files

LEMMA AdaptStep == IInv /\ Adapt /\ byHand' = byHand => IInv'
<1> SUFFICES ASSUME IInv, Adapt, byHand' = byHand PROVE IInv'
  OBVIOUS
<1>1. Sources /\ (~byHand => pc = 7)
  BY Steps DEF IInv, Adapt
<1>2. Produces(<<<<"adapter", Metadata>>>>)
  BY DEF Adapt
<1>3. Document("adapter", Metadata) /\ (~byHand => Scheduled("adapter", Metadata))
  BY <1>1 DEF Document, Scheduled
<1> QED
  BY <1>2, <1>3, ProducingOne DEF Files

LEMMA LinkStep == IInv /\ Link /\ byHand' = byHand => IInv'
<1> SUFFICES ASSUME IInv, Link, byHand' = byHand PROVE IInv'
  OBVIOUS
<1> DEFINE d == [code |-> file["code"], adapter |-> file["adapter"]]
<1>1. Sources /\ (~byHand => pc = 8)
  BY Steps DEF IInv, Link
<1>2. ~byHand => IsOf(d.code, file["ir"].source)
  BY <1>1 DEF IInv, InOrder
<1>3. Produces(<<<<"library", d>>>>)
  BY DEF Link
<1> HIDE DEF d
<1>4. Document("library", d) /\ (~byHand => Scheduled("library", d))
  BY <1>1, <1>2 DEF Document, Scheduled
<1> QED
  BY <1>3, <1>4, ProducingOne DEF Files

LEMMA RunAotStep == IInv /\ RunAot /\ byHand' = byHand => IInv'
<1> SUFFICES ASSUME IInv, RunAot, byHand' = byHand PROVE IInv'
  OBVIOUS
<1> DEFINE d == Result(file["ir"].source, file["library"].code)
<1>1. Sources /\ (~byHand => pc = 10)
  BY Steps DEF IInv, RunAot
<1>2. ~byHand => IsOf(d.program, d.source)
  BY <1>1 DEF IInv, InOrder, Result
<1>3. Produces(<<<<"aot", d>>>>)
  BY DEF RunAot
<1> HIDE DEF d
<1>4. Document("aot", d) /\ (~byHand => Scheduled("aot", d))
  BY <1>1, <1>2 DEF Document, Scheduled
<1> QED
  BY <1>3, <1>4, ProducingOne DEF Files

LEMMA LookingStep == IInv /\ (Validate \/ TestAbi) /\ byHand' = byHand => IInv'
<1> SUFFICES ASSUME IInv, Validate \/ TestAbi, byHand' = byHand PROVE IInv'
  OBVIOUS
<1>1. CASE Validate
  BY <1>1, Steps, Approving DEF IInv, Validate, Turn
<1>2. CASE TestAbi
  BY <1>2, Steps, Approving DEF IInv, TestAbi, Turn
<1> QED
  BY <1>1, <1>2

-----------------------------------------------------------------------------
(* Writing, stopping, checking, starting and editing *)

LEMMA WriteStep == IInv /\ Write /\ byHand' = byHand => IInv'
<1> SUFFICES ASSUME IInv, Write, byHand' = byHand PROVE IInv'
  OBVIOUS
<1> DEFINE n == Head(left)[1]
           d == Head(left)[2]
<1>1. PICK A : /\ left \in Seq(A)
               /\ \A a \in A : /\ a[1] \in Files
                               /\ Document(a[1], a[2])
                               /\ ~byHand => Scheduled(a[1], a[2])
  BY DEF IInv, Waiting
<1>2. /\ n \in Files /\ Document(n, d)
      /\ ~byHand => Scheduled(n, d)
      /\ Tail(left) \in Seq(A)
  <2>1. Head(left) \in A /\ Tail(left) \in Seq(A)
    BY <1>1 DEF Write
  <2> QED
    BY <1>1, <2>1
<1>3. /\ left' = Tail(left) /\ elf' = elf /\ ~passed
      /\ file' = [file EXCEPT ![n] = d]
      /\ passed' = passed
      /\ pc' = IF Tail(left) = <<>> THEN NextStep ELSE pc
  BY DEF Write, sources, IInv, Verdict
<1> HIDE DEF n, d
<1>4. /\ DOMAIN file' = Files
      /\ file'[n] = d
      /\ \A m \in Files \ {n} : file'[m] = file[m]
  BY <1>2, <1>3 DEF IInv, Sources
<1>5. pc' \in 0 .. 11
  BY <1>2, <1>3 DEF IInv, Sources, NextStep, Scheduled
<1>6. Sources'
  BY <1>3, <1>4, <1>5 DEF IInv, Sources
<1>7. Written'
  BY <1>2, <1>4 DEF IInv, Written
<1>8. Verdict'
  BY <1>3 DEF Verdict
<1>9. Waiting'
  <2>1. CASE Tail(left) = <<>>
    <3>1. left' = <<>>
      BY <1>3, <2>1
    <3>2. left' \in Seq({})
      BY <3>1
    <3> QED
      BY <3>2 DEF Waiting
  <2>2. CASE Tail(left) # <<>>
    <3>1. pc' = pc
      BY <1>3, <2>2
    <3>2. ~byHand /\ pc # 1 => file'["ir"] = file["ir"]
      BY <1>2, <1>4 DEF Scheduled, Files
    <3>3. \A a \in A : (~byHand => Scheduled(a[1], a[2]))'
      BY <1>1, <3>1, <3>2 DEF Scheduled
    <3>4. left' \in Seq(A)
      BY <1>2, <1>3
    <3> QED
      BY <1>1, <3>3, <3>4 DEF Waiting
  <2> QED
    BY <2>1, <2>2
<1>10. ASSUME ~byHand PROVE InOrder'
  <2>1. Scheduled(n, d) /\ InOrder /\ pc \in 0 .. 11
    BY <1>2, <1>10 DEF IInv, Sources
  <2>2. pc' = pc \/ pc' = pc + 1
    BY <1>3, <1>10 DEF NextStep
  <2>3. pc' > 6 => IsOf(file'["code"], file'["ir"].source)
    <3>1. CASE n = "code"
      BY <2>1, <3>1, <1>4 DEF Scheduled, Files
    <3>2. CASE n # "code"
      BY <2>1, <2>2, <3>2, <1>4 DEF Scheduled, Files, InOrder
    <3> QED
      BY <3>1, <3>2
  <2>4. pc' > 8 => IsOf(file'["library"].code, file'["ir"].source)
    <3>1. CASE n = "library"
      BY <2>1, <3>1, <1>4 DEF Scheduled, Files
    <3>2. CASE n # "library"
      BY <2>1, <2>2, <3>2, <1>4 DEF Scheduled, Files, InOrder
    <3> QED
      BY <3>1, <3>2
  <2>5. file'["aot"] # Unreadable
           => IsOf(file'["aot"].program, file'["aot"].source)
    BY <2>1, <1>4 DEF Scheduled, Files, InOrder
  <2> QED
    BY <2>3, <2>4, <2>5 DEF InOrder
<1> QED
  BY <1>6, <1>7, <1>8, <1>9, <1>10 DEF IInv

LEMMA StopStep == IInv /\ Stop /\ byHand' = byHand => IInv'
<1> SUFFICES ASSUME IInv, Stop, byHand' = byHand PROVE IInv'
  OBVIOUS
<1>1. left' = <<>> /\ pc' = 0 /\ elf' = elf /\ passed' = passed
  BY DEF Stop, sources
<1>2. \/ file' = file
      \/ /\ left # <<>>
         /\ file' = [file EXCEPT ![Head(left)[1]] = Unreadable]
  BY DEF Stop
<1>3. /\ DOMAIN file' = Files
      /\ \A m \in Files : file'[m] = file[m] \/ file'[m] = Unreadable
  BY <1>2 DEF IInv, Sources
<1>4. Sources'
  BY <1>1, <1>3 DEF IInv, Sources
<1>5. Written'
  BY <1>3 DEF IInv, Written
<1>6. Waiting'
  <2>1. left' \in Seq({})
    BY <1>1
  <2> QED
    BY <2>1 DEF Waiting
<1>7. ~byHand => InOrder'
  BY <1>1, <1>3 DEF IInv, InOrder, Files
<1>8. Verdict'
  <2>1. passed => file' = file
    BY <1>2 DEF IInv, Verdict
  <2> QED
    BY <1>1, <2>1 DEF IInv, Verdict
<1> QED
  BY <1>4, <1>5, <1>6, <1>7, <1>8 DEF IInv

LEMMA CheckStep == IInv /\ Check /\ byHand' = byHand => IInv'
<1> SUFFICES ASSUME IInv, Check, byHand' = byHand PROVE IInv'
  OBVIOUS
<1>1. file' = file /\ elf' = elf /\ left' = <<>> /\ pc' = 0 /\ left = <<>>
  BY DEF Check, Turn, sources
<1>2. Sources' /\ Written'
  BY <1>1 DEF IInv, Sources, Written
<1>3. Waiting'
  <2>1. left' \in Seq({})
    BY <1>1
  <2> QED
    BY <2>1 DEF Waiting
<1>4. ~byHand => InOrder'
  BY <1>1 DEF IInv, InOrder
<1>5. Verdict'
  <2>1. ASSUME NEW n \in {"reference", "core", "aot"}
        PROVE  /\ file[n] # Unreadable
               /\ file[n].source = file["elfMeta"].source
    BY DEF Check, Agreed, Readable
  <2> QED
    BY <1>1, <2>1 DEF Verdict
<1> QED
  BY <1>2, <1>3, <1>4, <1>5 DEF IInv

LEMMA StartStep == IInv /\ Start /\ byHand' = byHand => IInv'
<1> SUFFICES ASSUME IInv, Start, byHand' = byHand PROVE IInv'
  OBVIOUS
<1>1. /\ file' = file /\ elf' = elf /\ left' = <<>> /\ pc' = 1
      /\ passed' = FALSE
  BY DEF Start, sources
<1>2. Sources' /\ Written' /\ Verdict' /\ (~byHand => InOrder')
  BY <1>1 DEF IInv, Sources, Written, Verdict, InOrder
<1>3. Waiting'
  <2>1. left' \in Seq({})
    BY <1>1
  <2> QED
    BY <2>1 DEF Waiting
<1> QED
  BY <1>2, <1>3 DEF IInv

\* Nothing of the invariant is about the present sources but that they exist.
LEMMA EditStep == IInv /\ (Edit \/ UNCHANGED vars) /\ byHand' = byHand => IInv'
<1> SUFFICES ASSUME IInv, Edit \/ UNCHANGED vars, byHand' = byHand PROVE IInv'
  OBVIOUS
<1>1. /\ file' = file /\ left' = left /\ pc' = pc /\ passed' = passed
      /\ elf' \in Elfs
  BY DEF Edit, vars, IInv, Sources
<1>2. Sources' /\ Written' /\ Verdict' /\ (~byHand => InOrder')
  BY <1>1 DEF IInv, Sources, Written, Verdict, InOrder
<1>3. Waiting'
  <2>1. \A n, x : Scheduled(n, x) => Scheduled(n, x)'
    BY <1>1 DEF Scheduled
  <2> QED
    BY <1>1, <2>1 DEF IInv, Waiting
<1> QED
  BY <1>2, <1>3 DEF IInv

-----------------------------------------------------------------------------

\* Every document names the ELF of its content, at any time.
THEOREM Inductive == Spec => []IInv
<1>1. Init => IInv
  <2> SUFFICES ASSUME Init PROVE IInv
    OBVIOUS
  <2>1. left \in Seq({})
    BY DEF Init
  <2>2. Waiting
    BY <2>1 DEF Waiting
  <2>3. Sources /\ Written /\ Verdict /\ (~byHand => InOrder)
    BY DEF Init, Sources, Written, Verdict, InOrder, Files
  <2> QED
    BY <2>2, <2>3 DEF IInv
<1>2. IInv /\ [Next]_vars => IInv'
  BY FrontendStep, ReferenceStep, PackageStep, CoreStep, TranslateStep,
     AdaptStep, LinkStep, RunAotStep, LookingStep, WriteStep, StopStep,
     CheckStep, StartStep, EditStep DEF Next, Tool, vars
<1> QED
  BY <1>1, <1>2, PTL DEF Spec

\* A module that ModuleImage admits is of one ELF, in whatever order the tools
\* ran (src/openrecomp/module.py, src/tools/package_ir_v1_module.py).
THEOREM AdmittedModulesAreOneBuild == Spec => []AdmittedIsOneBuild
<1>1. IInv => AdmittedIsOneBuild
  BY AdmittedIsOne DEF IInv, AdmittedIsOneBuild
<1> QED
  BY <1>1, Inductive, PTL

\* The checker compares runs of one ELF, in whatever order the tools ran
\* (src/tools/check_mips32_elf_static_memory_v1.py).
THEOREM CheckerComparesOneElf == Spec => []ComparedPathsRanTheElf
<1>1. IInv => ComparedPathsRanTheElf
  BY DEF IInv, Written, Document, Verdict, Files, ComparedPathsRanTheElf
<1> QED
  BY <1>1, Inductive, PTL

\* In the workflow's order a PASS is about the compiled library as well
\* (src/.github/workflows/mips32-elf-static-memory-v1.yml).
THEOREM WorkflowPassIsOfOneElf == Spec => []PassIsOfOneElf
<1>1. IInv => PassIsOfOneElf
  <2> SUFFICES ASSUME IInv, passed, ~byHand, NEW n \in {"reference", "core", "aot"}
               PROVE  IsOf(file[n].program, file["elfMeta"].source)
    BY DEF PassIsOfOneElf
  <2>1. file[n] # Unreadable /\ file[n].source = file["elfMeta"].source
    BY DEF IInv, Verdict
  <2>2. IsOf(file[n].program, file[n].source)
    BY <2>1 DEF IInv, Written, Document, Files, InOrder
  <2> QED
    BY <2>1, <2>2
<1> QED
  BY <1>1, Inductive, PTL
=============================================================================
