----------------------------- MODULE RV32INative -----------------------------
(***************************************************************************)
(* The native E07 program: the C that tools/translate.py emits from legacy *)
(* IR, as it runs.  It is one loop over a switch on pc, with the registers *)
(* in an array r whose element 0 is cleared before every instruction, and  *)
(* ends where pc is the sentinel that r[1] starts with.  One step is one   *)
(* iteration.                                                              *)
(***************************************************************************)
EXTENDS RV32IBridge, GuestMemory

CONSTANTS
  Sentinel,     \* 0xfffffffc
  MaxSteps,     \* 200000
  Hardcoded     \* the numbers of the host contract that emit() writes as literals

ASSUME SentinelAssumption == Sentinel \in Nat /\ Sentinel < 2^WordBits

VARIABLES
  source,   \* the legacy IR it was emitted from
  native    \* [regs, memory, pc, steps, services, fault]

\* load_checked: emit() is given the IR only if all host symbols are there.
Translatable(l) == Hosts \subseteq {s.name : s \in Elements(l.symbols)}

\* host_addr: by the last symbol of each name.
HostSymbolAt(l, address) ==
  {h \in Hosts : \E k \in DOMAIN l.symbols :
     /\ l.symbols[k].name = h /\ l.symbols[k].value = address
     /\ \A j \in DOMAIN l.symbols : l.symbols[j].name = h => j <= k}

\* What the C has of the contract: the tick starts at 0, whatever tick_start says.
Emitted ==
  [Hardcoded EXCEPT !.inputs = Contract.inputs, !.bias = Contract.bias,
                    !.memorySize = Contract.memorySize]

\* init_mem and the start of run_fixture.
NewNative(l) ==
  [regs |-> [r \in Registers |-> CASE r = 1 -> Sentinel [] r = 2 -> StackTop [] OTHER -> 0],
   memory |-> InitialMemory([memorySize |-> Contract.memorySize, segments |-> DataSections(l)]),
   pc |-> l.fixtureEntry, steps |-> 0, services |-> Services(Emitted), fault |-> NoName]

----------------------------------------------------------------------------
Halted == native.fault # NoName \/ native.pc = Sentinel

Here == source.code[native.pc]

\* r[0] = 0, then the switch.
R(r) == IF r = 0 THEN 0 ELSE native.regs[r]

Fails(fault) == native' = [native EXCEPT !.fault = fault, !.steps = native.steps + 1]

Goes(pc, regs) ==
  native' = [native EXCEPT !.pc = pc, !.regs = regs, !.steps = native.steps + 1]

Next4 == U32(native.pc + 4)

Sets(r, value) == Goes(Next4, [native.regs EXCEPT ![r] = value])

OutOfSteps == ~Halted /\ native.steps >= MaxSteps /\ Fails("limit")

\* default: return 0xdeadc0de
NoCase ==
  /\ ~Halted /\ native.steps < MaxSteps
  /\ native.pc \notin DOMAIN source.code
  /\ Fails("left-image")

Dispatch(ops) ==
  /\ ~Halted /\ native.steps < MaxSteps
  /\ native.pc \in DOMAIN source.code
  /\ Here.op \in ops

Computed(i) ==
  CASE i.op = "addi" -> U32(R(i.rs1) + i.imm)
    [] i.op = "andi" -> Logic("and", R(i.rs1), U32(i.imm), WordBits)
    [] i.op = "slli" -> U32(R(i.rs1) * 2^i.imm)
    [] i.op = "srli" -> R(i.rs1) \div 2^i.imm
    [] i.op = "add"  -> U32(R(i.rs1) + R(i.rs2))
    [] i.op = "xor"  -> Logic("xor", R(i.rs1), R(i.rs2), WordBits)
    [] i.op = "lui"  -> U32(i.imm)

Compute == Dispatch({"addi", "andi", "slli", "srli", "add", "xor", "lui"}) /\ Sets(Here.rd, Computed(Here))

Address(i) == U32(R(i.rs1) + i.imm)

InMemory(address, n) == ~OutOfBounds(Contract.memorySize, address, n)

\* rd32 and rd16 (line 32): bounds, but no alignment.
ReadMemory ==
  /\ Dispatch({"lw", "lhu"})
  /\ LET n == IF Here.op = "lw" THEN 4 ELSE 2
     IN  IF InMemory(Address(Here), n)
         THEN Sets(Here.rd, RawValue([bigEndian |-> FALSE], native.memory, Address(Here), n))
         ELSE Fails("memory-fault")

WriteMemory ==
  /\ Dispatch({"sw"})
  /\ LET shape == [width |-> 4 * ByteBits]
         m     == [bigEndian |-> FALSE]
     IN  IF InMemory(Address(Here), 4)
         THEN native' = [native EXCEPT
                !.memory = Stored(m, native.memory, shape, Address(Here), R(Here.rs2)),
                !.pc = Next4, !.steps = native.steps + 1]
         ELSE Fails("memory-fault")

\* With the operands of bltu compared as bgeu does.
FaultyTaken(i) ==
  CASE i.op = "beq"  -> R(i.rs1) = R(i.rs2)
    [] i.op = "bne"  -> R(i.rs1) # R(i.rs2)
    [] i.op = "bltu" -> R(i.rs1) <= R(i.rs2)
    [] i.op = "bgeu" -> R(i.rs1) >= R(i.rs2)

Taken(i) ==
  CASE i.op = "beq"  -> R(i.rs1) = R(i.rs2)
    [] i.op = "bne"  -> R(i.rs1) # R(i.rs2)
    [] i.op = "bltu" -> R(i.rs1) < R(i.rs2)
    [] i.op = "bgeu" -> R(i.rs1) >= R(i.rs2)

BranchTo == Dispatch(Branches) /\ Goes(IF Taken(Here) THEN Here.target ELSE Next4, native.regs)

Linked == [native.regs EXCEPT ![Here.rd] = Next4]

JumpTo ==
  /\ Dispatch({"jal"})
  /\ HostSymbolAt(source, Here.target) = {}
  /\ Goes(Here.target, Linked)

\* The link, the host function, the next instruction: also without a link.
CallHost ==
  /\ Dispatch({"jal"})
  /\ \E host \in HostSymbolAt(source, Here.target) :
       LET arg   == HostArgs[host]
           args  == [k \in DOMAIN arg |-> Linked[arg[k]]]
           reply == Reply(Emitted, native.services, host, args)
       IN  native' = [native EXCEPT
             !.regs = IF host \in HostReturns THEN [Linked EXCEPT ![10] = reply[1]] ELSE Linked,
             !.services = Served(Emitted, native.services, host, args),
             !.pc = Next4, !.steps = native.steps + 1]

\* The target is computed before rd is written, and loses its lowest bit.
JumpRegister ==
  /\ Dispatch({"jalr"})
  /\ LET target == U32(R(Here.rs1) + Here.imm)
     IN  Goes(target - (target % 2), Linked)

Step ==
  \/ OutOfSteps \/ NoCase \/ Compute \/ ReadMemory \/ WriteMemory \/ BranchTo
  \/ JumpTo \/ CallHost \/ JumpRegister
=============================================================================
