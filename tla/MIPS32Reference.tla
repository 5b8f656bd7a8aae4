--------------------------- MODULE MIPS32Reference ---------------------------
(***************************************************************************)
(* The independent MIPS32 reference machine: ReferenceMachine of           *)
(* tools/run_mips32_expansion_reference.py, and of                         *)
(* tools/run_mips32_reference.py, which knows fewer words, and             *)
(* DivRemReferenceMachine of tools/run_mips32_divrem_reference.py, which   *)
(* knows div and divu where MIPS32 defines their results.  It interprets   *)
(* machine words and shares nothing with the decoder or the front end: it  *)
(* dispatches on opcode and funct numbers.  One step is one iteration of   *)
(* run(): an instruction, or a control transfer with its delay slot.       *)
(*                                                                         *)
(* The input is a fixture, the words and the metadata the loaders read:    *)
(*   [profile, bigEndian, words, functions, entry, memorySize, segments,   *)
(*    initial, observe, maxOperations, maxSteps]                           *)
(* with segments only for profile "static", where they come from an ELF    *)
(* file (tools/run_mips32_elf_static_memory_reference_v1.py).              *)
(***************************************************************************)
EXTENDS MIPS32, GuestMemory, TLC

VARIABLES
  fixture,   \* the words and the metadata
  guest      \* the ReferenceMachine: [regs, hi, lo, memory, pc, executed, fault]

words == fixture.words

Slot(r) == "gpr:r" \o ToString(r)

Initially(p, slot) ==
  LET given == {v \in Elements(p.initial) : v.slot = slot}
  IN  IF given = {} THEN 0 ELSE U32((CHOOSE v \in given : TRUE).value)

NewMachine(p) ==
  [regs     |-> [r \in Registers |-> IF r = 0 THEN 0 ELSE Initially(p, Slot(r))],
   hi       |-> Initially(p, "special:hi"),
   lo       |-> Initially(p, "special:lo"),
   memory   |-> InitialMemory(p),
   pc       |-> p.entry,
   executed |-> 0,
   fault    |-> NoName]

----------------------------------------------------------------------------
(* The parts of a step.  A fault is an exception: it ends the machine. *)

Raised(g, fault) == [g EXCEPT !.fault = fault]

Read(g, r) == IF r = 0 THEN 0 ELSE g.regs[r]

Write(g, r, v) == IF r = 0 THEN g ELSE [g EXCEPT !.regs[r] = U32(v)]

\* _step: counts, then compares.
Counted(g) ==
  LET h == [g EXCEPT !.executed = g.executed + 1]
  IN  IF h.executed > fixture.maxSteps THEN Raised(h, "limit") ELSE h

Signed32(x) == SignedValue(x, WordBits)

Flag(condition) == IF condition THEN 1 ELSE 0

IsDivide(w) == fixture.profile = "divrem" /\ w.funct \in {\h1A, \h1B}

\* Division by zero, and the one quotient that does not fit.
Undefined(w, s, t) ==
  \/ t = 0
  \/ w.funct = \h1A /\ Signed32(s) = -(2^(WordBits - 1)) /\ Signed32(t) = -1

Divide(g, w) ==
  LET s == Read(g, w.rs)
      t == Read(g, w.rt)
      a == Signed32(s)
      b == Signed32(t)
      size == Abs(a) \div Abs(b)
      q == IF (a < 0) # (b < 0) THEN -size ELSE size
  IN  IF w.rd # 0 \/ w.shamt # 0 THEN Raised(g, "unsupported")
      ELSE IF Undefined(w, s, t) THEN Raised(g, "undefined-division")
      ELSE IF w.funct = \h1B THEN [g EXCEPT !.lo = s \div t, !.hi = s % t]
      ELSE [g EXCEPT !.lo = U32(q), !.hi = U32(a - q * b)]

\* What a SPECIAL word that writes rd computes, by funct.
SpecialValue(g, w) ==
  LET s == Read(g, w.rs)
      t == Read(g, w.rt)
      count == IF w.funct < \h04 THEN w.shamt ELSE s % WordBits
  IN  CASE w.funct \in {\h00, \h04} -> t * 2^count
        [] w.funct \in {\h02, \h06} -> t \div 2^count
        [] w.funct \in {\h03, \h07} -> Signed32(t) \div 2^count
        [] w.funct = \h10 -> g.hi
        [] w.funct = \h12 -> g.lo
        [] w.funct = \h21 -> s + t
        [] w.funct = \h23 -> s - t
        [] w.funct = \h24 -> Logic("and", s, t, WordBits)
        [] w.funct = \h25 -> Logic("or", s, t, WordBits)
        [] w.funct = \h26 -> Logic("xor", s, t, WordBits)
        [] w.funct = \h27 -> -1 - Logic("or", s, t, WordBits)
        [] w.funct = \h2A -> Flag(Signed32(s) < Signed32(t))
        [] w.funct = \h2B -> Flag(s < t)

SpecialSupported(w) ==
  \/ w.funct \in {\h00, \h02, \h03} /\ w.rs = 0
  \/ w.funct \in {\h04, \h06, \h07, \h21, \h23, \h24, \h25, \h26, \h27, \h2A, \h2B}
       /\ w.shamt = 0
  \/ w.funct \in {\h18, \h19} /\ w.rd = 0 /\ w.shamt = 0
  \/ w.funct \in {\h10, \h12} /\ w.rs = 0 /\ w.rt = 0 /\ w.shamt = 0

Special(g, w) ==
  LET product == IF w.funct = \h18 THEN Signed32(Read(g, w.rs)) * Signed32(Read(g, w.rt))
                 ELSE Read(g, w.rs) * Read(g, w.rt)
  IN  IF IsDivide(w) THEN Divide(g, w)
      ELSE IF ~SpecialSupported(w) THEN Raised(g, "unsupported")
      ELSE IF w.funct \in {\h18, \h19}
      THEN [g EXCEPT !.lo = U32(product), !.hi = U32(product \div 2^WordBits)]
      ELSE Write(g, w.rd, SpecialValue(g, w))

ImmediateOpcodes == \h09..\h0F

ImmediateValue(g, w) ==
  LET s == Read(g, w.rs)
  IN  CASE w.opcode = \h09 -> s + Sign16(w.imm)
        [] w.opcode = \h0A -> Flag(Signed32(s) < Sign16(w.imm))
        [] w.opcode = \h0B -> Flag(s < U32(Sign16(w.imm)))
        [] w.opcode = \h0C -> Logic("and", s, w.imm, WordBits)
        [] w.opcode = \h0D -> Logic("or", s, w.imm, WordBits)
        [] w.opcode = \h0E -> Logic("xor", s, w.imm, WordBits)
        [] w.opcode = \h0F -> w.imm * 2^HalfBits

LoadOpcodes  == {\h20, \h21, \h23, \h24, \h25}
StoreOpcodes == {\h28, \h29, \h2B}

AccessSize(w) == CASE w.opcode \in {\h20, \h24, \h28} -> 1
                   [] w.opcode \in {\h21, \h25, \h29} -> 2
                   [] w.opcode \in {\h23, \h2B}       -> 4

\* _load and _store: alignment first, then bounds, then the bytes.
Access(g, w) ==
  LET address == U32(Read(g, w.rs) + Sign16(w.imm))
      n       == AccessSize(w)
      raw     == RawValue(fixture, g.memory, address, n)
      shape   == [width |-> n * ByteBits]
  IN  IF n > 1 /\ address % n # 0 THEN Raised(g, "misalignment")
      ELSE IF OutOfBounds(fixture.memorySize, address, n) THEN Raised(g, "memory-fault")
      ELSE IF w.opcode \in StoreOpcodes
      THEN [g EXCEPT !.memory = Stored(fixture, g.memory, shape, address, Read(g, w.rt))]
      ELSE Write(g, w.rt, IF w.opcode \in {\h20, \h21} THEN SignedValue(raw, n * ByteBits)
                          ELSE raw)

\* The simple words the machine of the vertical slice knows.
InSlice(w) ==
  \/ w.opcode = \h00 /\ w.shamt = 0 /\ w.funct \in {\h21, \h2A, \h2B}
  \/ w.opcode \in {\h09, \h0D, \h0F, \h23, \h2B}

\* _execute_simple
ExecuteSimple(g, w) ==
  LET h == Counted(g)
  IN  IF h.fault # NoName \/ IsZero(w) THEN h
      ELSE IF fixture.profile = "slice" /\ ~InSlice(w) THEN Raised(h, "unsupported")
      ELSE IF w.opcode = 0 THEN Special(h, w)
      ELSE IF w.opcode \in ImmediateOpcodes
      THEN IF w.opcode = \h0F /\ w.rs # 0 THEN Raised(h, "unsupported")
           ELSE Write(h, w.rt, ImmediateValue(h, w))
      ELSE IF w.opcode \in LoadOpcodes \cup StoreOpcodes THEN Access(h, w)
      ELSE Raised(h, "unsupported")

\* _is_control, and the shorter test of the slice.
IsControl(w) ==
  \/ w.opcode \in IF fixture.profile = "slice" THEN \h02..\h05 ELSE \h01..\h07
  \/ w.opcode = 0 /\ w.funct = \h08

\* _delay
Delay(g, address) ==
  IF address \notin DOMAIN words THEN Raised(g, "missing-delay-slot")
  ELSE IF IsControl(words[address]) THEN Raised(g, "control-in-delay-slot")
  ELSE ExecuteSimple(g, words[address])

----------------------------------------------------------------------------
(* run() *)

Running == guest.fault = NoName /\ guest.pc # 0

Here == words[guest.pc]

LeaveImage ==
  /\ Running
  /\ guest.pc \notin DOMAIN words
  /\ guest' = Raised(guest, "left-image")

Simple ==
  /\ Running
  /\ guest.pc \in DOMAIN words
  /\ ~IsControl(Here)
  /\ LET g == ExecuteSimple(guest, Here)
     IN  guest' = IF g.fault = NoName THEN [g EXCEPT !.pc = U32(guest.pc + 4)] ELSE g

\* A control transfer: link is written before the delay slot is executed, and
\* destination was computed before it.
Transfer(malformed, link, destination) ==
  LET g == Counted(guest)
      d == Delay(link, guest.pc + 4)
  IN  guest' = IF g.fault # NoName THEN g
               ELSE IF malformed THEN Raised(g, "unsupported")
               ELSE IF d.fault # NoName THEN d
               ELSE [d EXCEPT !.pc = destination]

Taken ==
  LET s == Read(guest, Here.rs)
      t == Read(guest, Here.rt)
  IN  CASE Here.opcode = \h04 -> s = t
        [] Here.opcode = \h05 -> s # t
        [] Here.opcode = \h06 -> Signed32(s) <= 0
        [] Here.opcode = \h07 -> Signed32(s) > 0
        [] Here.opcode = \h01 -> IF Here.rt = 0 THEN Signed32(s) < 0 ELSE Signed32(s) >= 0

AtControl(opcodes) ==
  /\ Running
  /\ guest.pc \in DOMAIN words
  /\ IsControl(Here)
  /\ Here.opcode \in opcodes

ConditionalBranch ==
  /\ AtControl({\h01, \h04, \h05, \h06, \h07})
  /\ Transfer(\/ Here.opcode \in {\h06, \h07} /\ Here.rt # 0
              \/ Here.opcode = \h01 /\ Here.rt > 1,
              Counted(guest),
              U32(guest.pc + IF Taken THEN 4 + 4 * Sign16(Here.imm) ELSE 8))

JumpAndLink ==
  /\ AtControl({\h02, \h03})
  /\ Transfer(FALSE,
              IF Here.opcode = \h03 THEN Write(Counted(guest), 31, guest.pc + 8)
              ELSE Counted(guest),
              JumpTarget(guest.pc, Here))

JumpRegister ==
  /\ AtControl({\h00})
  /\ Transfer(Here.rt # 0 \/ Here.rd # 0 \/ Here.shamt # 0,
              Counted(guest), Read(guest, Here.rs))

Step == LeaveImage \/ Simple \/ ConditionalBranch \/ JumpAndLink \/ JumpRegister
=============================================================================
