----------------------------- MODULE MIPS32Parity -----------------------------
(***************************************************************************)
(* What tools/check_mips32_expansion_v1.py, check_mips32_divrem_v1.py and  *)
(* check_mips32_vertical_slice.py demand of a fixture: the machine that    *)
(* interprets its words and the Core API that runs its converted module    *)
(* agree.  The tools compare the two when both have ended; here they are   *)
(* compared whenever both stand at a block of the module, so the two runs  *)
(* take turns: the executor to the next block, then the machine to an      *)
(* address where a block starts.                                           *)
(***************************************************************************)
EXTENDS MIPS32Frontend

CONSTANT Fixtures   \* the fixtures given to the tools

(* The machine stops when its pc is 0 (run(), line 225), so that address   *)
(* holds no code; only ELF files carry initial memory.                     *)
ASSUME FixturesAssumption ==
  \A p \in Fixtures :
    /\ p.profile \in {"slice", "expansion", "static", "divrem"}
    /\ 0 \notin DOMAIN p.words
    /\ p.profile # "static" => p.segments = <<>>

VARIABLES
  fixture, guest,                                  \* of MIPS32Reference
  package,   \* the packaged module, NoPackage before the front end has written it
  phase, executors, runs, operations, state, memory,
  stack, outcome, hostLog,                         \* of CoreExecutor
  turn,      \* who runs: "frontend", "core", "guest"; "refused"
  links,     \* auxiliary: where each active call of the guest has to return to
  strayed    \* auxiliary: a jr $ra went anywhere else

Machine == INSTANCE MIPS32Reference

Written(p) == p

Core ==
  INSTANCE CoreExecutor WITH
    Documents <- {Converted(p) : p \in {q \in Fixtures : Convertible(q)}},
    Parsed <- Written, document <- package,
    HostSymbols <- {}, HostContract <- "1", HostReplies <- {}, RunArgs <- {<<>>},
    MaxExecutors <- 1, MaxRuns <- 1

NoPackage == <<>>

coreVars  == <<phase, executors, runs, operations, state, memory, stack, outcome, hostLog>>
guestVars == <<guest, links, strayed>>
vars == <<fixture, package, guest, coreVars, turn, links, strayed>>

----------------------------------------------------------------------------
CoreInit ==
  /\ phase = "loading" /\ executors = 0 /\ runs = 0 /\ operations = 0
  /\ state = Core!NoValues /\ memory = Core!NoValues
  /\ stack = <<>> /\ outcome = Core!NoOutcome /\ hostLog = <<>>

Init ==
  /\ fixture \in Fixtures
  /\ package = NoPackage /\ turn = "frontend"
  /\ guest = Machine!NewMachine(fixture)
  /\ links = <<0>> /\ strayed = FALSE
  /\ CoreInit

Convert ==
  /\ turn = "frontend"
  /\ IF Convertible(fixture)
     THEN package' = Converted(fixture) /\ turn' = "core"
     ELSE turn' = "refused" /\ UNCHANGED package
  /\ UNCHANGED <<fixture, guestVars, coreVars>>

\* The executor stands at the start of a block, or its run has ended.
AtBlock == phase = "running" => Core!Top.pc = 1

Start ==
  /\ turn = "core"
  /\ Core!Load \/ Core!Construct \/ Core!Run
  /\ UNCHANGED <<fixture, turn, guestVars>>

Execute ==
  /\ turn = "core"
  /\ Core!Execute
  /\ turn' = IF AtBlock' THEN "guest" ELSE "core"
  /\ UNCHANGED <<fixture, guestVars>>

BlockAddresses ==
  UNION {{b.address : b \in Elements(f.blocks)} : f \in Elements(package.functions)}

Ended == guest.fault # NoName \/ guest.pc = 0

Calls(w) == w.opcode = \h03

Returns(w) == Machine!IsControl(w) /\ w.opcode = 0

Interpret ==
  /\ turn = "guest"
  /\ Machine!Step
  /\ LET w    == Machine!Here
         done == guest.pc \in DOMAIN Machine!words /\ guest'.fault = NoName
         home == guest'.pc = links[Len(links)]
     IN  /\ links' = IF done /\ Calls(w) THEN Append(links, guest.pc + 8)
                     ELSE IF done /\ Returns(w) /\ home THEN SubSeq(links, 1, Len(links) - 1)
                     ELSE links
         /\ strayed' = (strayed \/ (done /\ Returns(w) /\ ~home))
  /\ turn' = IF Ended' \/ guest'.pc \in BlockAddresses THEN "core" ELSE "guest"
  /\ UNCHANGED <<fixture, package, coreVars>>

\* The machine has stopped where the executor still waits for it.
Stopped ==
  /\ turn = "guest"
  /\ Ended
  /\ turn' = "core"
  /\ UNCHANGED <<fixture, package, guestVars, coreVars>>

Next == Convert \/ Start \/ Execute \/ Interpret \/ Stopped

Spec == Init /\ [][Next]_vars

----------------------------------------------------------------------------
(* Both have run as far: to the start of a block or to their ends. *)
Compared == turn = "core" /\ runs = 1 /\ AtBlock

(* A limit of one side ended the run: the two budgets count other things. *)
Limited ==
  \/ guest.fault = "limit"
  \/ outcome.kind = "fault" /\ outcome.fault \in {"operation-limit", "call-depth"}

(* The run has left the domain in which MIPS32 defines division: the IR    *)
(* gives a result there, which the machine does not mistake for MIPS32's   *)
(* (IR_V1_1_DIVREM_SEMANTICS_V1.md "MIPS32 bounded lowering").            *)
OutsideDomain == guest.fault = "undefined-division"

SameState ==
  /\ \A r \in Registers \ {0} : state[Slot(r)] = guest.regs[r]
  /\ fixture.profile # "slice" =>
       state["special:hi"] = guest.hi /\ state["special:lo"] = guest.lo
  /\ memory = guest.memory

SamePlace ==
  CASE phase = "running"         -> ~Ended /\ guest.pc = Core!FnOf(Core!Top).blocks[Core!Top.blk].address
    [] outcome.kind = "returned" -> guest.fault = NoName /\ guest.pc = 0
    [] outcome.kind = "fault"    -> guest.fault = outcome.fault

Agree == SameState /\ SamePlace

(* Whatever a front end accepts, it translates faithfully: as long as      *)
(* every jr $ra goes back to the call it belongs to, the executor and the  *)
(* machine have the same registers, HI/LO and memory at every block and    *)
(* end alike, with the same fault if any (delay slots, links, register 0,  *)
(* widths and byte order; MIPS32_VERTICAL_SLICE_V1.md "Delay-slot          *)
(* lowering").                                                             *)
DisciplinedParity == Compared /\ ~Limited /\ ~OutsideDomain /\ ~strayed => Agree

(* The frames of the executor are the calls of the guest: each one waits   *)
(* for the block at the address the guest's call linked (jal, lines        *)
(* 354-359).                                                               *)
FramesReturnToLinks ==
  Compared /\ ~Limited /\ ~OutsideDomain /\ ~strayed /\ phase = "running" =>
    /\ Len(stack) = Len(links)
    /\ \A k \in 1..(Len(stack) - 1) :
         Core!FnOf(stack[k]).blocks[stack[k].blk].term.targets = <<BlockId(links[k + 1])>>

(* MIPS32_EXPANSION_V1.md line 71: "The checker requires complete state    *)
(* parity"; IR_SPEC_V1.md line 170: a frontend must reject what it cannot  *)
(* represent.  So every accepted module agrees, whatever $ra holds.        *)
CompleteStateParity == Compared /\ ~Limited /\ ~OutsideDomain => Agree
=============================================================================
