----------------------------- MODULE RV32IBridge -----------------------------
(***************************************************************************)
(* tools/bridge_rv32i_ir_v1.py: legacy IR 0.1.1 of an RV32I file becomes a *)
(* normalized IR V1 module.  Bridgeable(l) says which representations are  *)
(* not refused with a BridgeError, Bridged(l) what is written for the      *)
(* others, packaged by tools/package_ir_v1_module.py.                      *)
(*                                                                         *)
(* A direct call becomes a structured call and a return of the standard    *)
(* form a structured return; what a jump without link means depends on     *)
(* where it goes: in its own function, to a host function, or to another   *)
(* function that can be reached, which is then called and returned from.   *)
(***************************************************************************)
EXTENDS RV32ILegacy, E07Host

CONSTANTS
  PackagedCallDepth,   \* max_call_depth of every packaged module: 1024
  BridgedOperations,   \* max_operations of the sidecar: 2000000
  SafeId,              \* what _id makes of each symbol name of the files
  StackTop             \* where x2 starts: 0x30000

Slot(r) == "gpr:x" \o ToString(r)

Tmp(address, tag) == "%v" \o ToString(address) \o "_" \o tag

BlockId(address) == "b_" \o ToString(address)

HostArgs == [host_graphics |-> <<10, 11, 12>>, host_audio |-> <<10>>,
             host_input |-> <<10>>, host_system |-> <<10, 11>>]

HostReturns == {"host_input", "host_system"}

----------------------------------------------------------------------------
(* Functions: by address, where the last one of equal addresses is meant,  *)
(* by name, and those the entry reaches.                                   *)

FunctionsAt(l, address) == {k \in DOMAIN l.functions : l.functions[k].address = address}

FunctionAt(l, address) == l.functions[Greatest(FunctionsAt(l, address))]

IsFunctionAt(l, address) == FunctionsAt(l, address) # {}

IsHostAt(l, address) == IsFunctionAt(l, address) /\ FunctionAt(l, address).name \in Hosts

WithName(l, name) == {k \in DOMAIN l.functions : l.functions[k].name = name}

EntryFunction(l) == l.functions[Greatest(WithName(l, EntryName))]

Body(g) == UNION {b.body : b \in Elements(g.blocks)}

IsCall(i) == i.op = "jal" /\ i.rd # 0

IsTail(i) == i.op = "jal" /\ i.rd = 0

\* The functions, hosts apart, that g calls with a link.
Callees(l, g) ==
  {FunctionAt(l, l.code[a].target) :
     a \in {b \in Body(g) : /\ IsCall(l.code[b])
                            /\ IsFunctionAt(l, l.code[b].target)
                            /\ ~IsHostAt(l, l.code[b].target)}}

\* _reachable_functions: of functions at one address, the first one met.
Reachable(l) ==
  LET entry == EntryFunction(l)
      Grown(S) == S \cup {c \in UNION {Callees(l, g) : g \in S} : c.address # entry.address}
      after[n \in 0..Len(l.functions)] == IF n = 0 THEN {entry} ELSE Grown(after[n - 1])
  IN  after[Len(l.functions)]

----------------------------------------------------------------------------
(* Lowering.  Register 0 reads as the constant 0 and is never written. *)

Get(address, r, tag)    == IF r = 0 THEN <<>> ELSE <<Rd(Tmp(address, tag), "i32", Slot(r))>>
Source(address, r, tag) == IF r = 0 THEN Word(0) ELSE Ref(Tmp(address, tag))
Put(r, o)               == IF r = 0 THEN <<>> ELSE <<Wr(Slot(r), o)>>

ImmediateKind == [addi |-> "add", andi |-> "and", slli |-> "shl", srli |-> "lshr"]

RegisterKind == [add |-> "add", xor |-> "xor"]

Predicate == [beq |-> "eq", bne |-> "ne", bltu |-> "ult", bgeu |-> "uge"]

LowerImmediate(a, i) ==
  Get(a, i.rs1, "rs1")
    \o <<Bin(Tmp(a, "result"), "i32", ImmediateKind[i.op], Source(a, i.rs1, "rs1"),
             Word(U32(i.imm)))>>
    \o Put(i.rd, Ref(Tmp(a, "result")))

LowerRegister(a, i) ==
  Get(a, i.rs1, "rs1") \o Get(a, i.rs2, "rs2")
    \o <<Bin(Tmp(a, "result"), "i32", RegisterKind[i.op], Source(a, i.rs1, "rs1"),
             Source(a, i.rs2, "rs2"))>>
    \o Put(i.rd, Ref(Tmp(a, "result")))

LowerUpper(a, i) ==
  <<Con(Tmp(a, "lui"), "i32", U32(i.imm))>> \o Put(i.rd, Ref(Tmp(a, "lui")))

Effective(a, i) ==
  <<Bin(Tmp(a, "addr"), "i32", "add", Source(a, i.rs1, "base"), Word(U32(i.imm)))>>

LowerLoad(a, i) ==
  LET n == IF i.op = "lw" THEN 4 ELSE 2
  IN  Get(a, i.rs1, "base") \o Effective(a, i)
        \o <<Ld(Tmp(a, "load"), "i32", n, n, i.op = "lw", Ref(Tmp(a, "addr")))>>
        \o Put(i.rd, Ref(Tmp(a, "load")))

LowerStore(a, i) ==
  Get(a, i.rs1, "base") \o Get(a, i.rs2, "store_value") \o Effective(a, i)
    \o <<St(4, 4, Source(a, i.rs2, "store_value"), Ref(Tmp(a, "addr")))>>

LinkOf(a, i) == Put(i.rd, Word(U32(a + 4)))


\* _host_call: the link, the arguments, the call, the result.
LowerHostCall(a, i, host) ==
  LET registers == HostArgs[host]
      Tag(k)    == "host_arg" \o ToString(k - 1)
      args      == [k \in DOMAIN registers |-> Source(a, registers[k], Tag(k))]
  IN  LinkOf(a, i)
        \o Seqs!FlattenSeq([k \in DOMAIN registers |-> Get(a, registers[k], Tag(k))])
        \o <<Host(IF host \in HostReturns THEN Tmp(a, "hostret") ELSE NoName, "i32", host, args)>>
        \o (IF host \in HostReturns THEN Put(10, Ref(Tmp(a, "hostret"))) ELSE <<>>)

CallTo(l, address) == Call(NoName, "i32", SafeId[FunctionAt(l, address).name], <<>>)

LowerCall(l, a, i) ==
  IF IsHostAt(l, i.target) THEN LowerHostCall(a, i, FunctionAt(l, i.target).name)
  ELSE LinkOf(a, i) \o <<CallTo(l, i.target)>>

Condition(a, i) ==
  Get(a, i.rs1, "branch_lhs") \o Get(a, i.rs2, "branch_rhs")
    \o <<Cmp(Tmp(a, "cond"), Predicate[i.op], Source(a, i.rs1, "branch_lhs"),
             Source(a, i.rs2, "branch_rhs"))>>

\* The code of a jump without link out of the function: it is empty inside.
TailCode(l, g, a, i) ==
  IF i.target \in Body(g) THEN <<>>
  ELSE IF IsHostAt(l, i.target) THEN LowerHostCall(a, i, FunctionAt(l, i.target).name)
  ELSE <<CallTo(l, i.target)>>

Lower(l, g, a) ==
  LET i == l.code[a]
  IN  CASE i.op \in DOMAIN ImmediateKind -> LowerImmediate(a, i)
        [] i.op \in DOMAIN RegisterKind  -> LowerRegister(a, i)
        [] i.op = "lui"                  -> LowerUpper(a, i)
        [] i.op \in {"lw", "lhu"}        -> LowerLoad(a, i)
        [] i.op = "sw"                   -> LowerStore(a, i)
        [] i.op \in Branches             -> Condition(a, i)
        [] i.op = "jalr"                 -> <<>>
        [] IsCall(i)                     -> LowerCall(l, a, i)
        [] IsTail(i)                     -> TailCode(l, g, a, i)

----------------------------------------------------------------------------
(* _convert_function *)

BlockOf(g, address) == BlockId((CHOOSE b \in Elements(g.blocks) : address \in b.body).start)

StandardReturn(i) == i.rd = 0 /\ i.rs1 = 1 /\ i.imm = 0

Transfers(i) == i.op \in Branches \cup {"jalr"} \/ IsTail(i)

\* An instruction the bridge has an equivalent for, in its function.
Lowerable(l, g, reachable, a) ==
  LET i == l.code[a]
  IN  /\ i.op \in Branches => {i.target, a + 4} \subseteq Body(g)
      /\ IsTail(i) => \/ i.target \in Body(g)
                      \/ IsHostAt(l, i.target)
                      \/ IsFunctionAt(l, i.target) /\ FunctionAt(l, i.target).address \in reachable
      /\ i.op = "jalr" => StandardReturn(i)
      /\ IsCall(i) => IsFunctionAt(l, i.target)

BlockBridgeable(l, g, reachable, b) ==
  LET last == Greatest(b.body)
  IN  /\ \A a \in b.body : Lowerable(l, g, reachable, a) /\ (Transfers(l.code[a]) => a = last)
      /\ ~Transfers(l.code[last]) => last + 4 \in Body(g)

\* A block that runs into the next one leaves the function.
FaultyExit(g, i, last) ==
  CASE i.op \in Branches -> Br(Ref(Tmp(last, "cond")), BlockOf(g, i.target), BlockOf(g, last + 4))
    [] IsTail(i)         -> IF i.target \in Body(g) THEN Jmp(BlockOf(g, i.target)) ELSE Ret
    [] OTHER             -> Ret

Exit(g, i, last) ==
  CASE i.op \in Branches -> Br(Ref(Tmp(last, "cond")), BlockOf(g, i.target), BlockOf(g, last + 4))
    [] IsTail(i)         -> IF i.target \in Body(g) THEN Jmp(BlockOf(g, i.target)) ELSE Ret
    [] i.op = "jalr"     -> Ret
    [] OTHER             -> Jmp(BlockOf(g, last + 4))

BridgedBlock(l, g, b) ==
  LET order == Ascending(b.body)
      last  == Greatest(b.body)
  IN  Blk(BlockId(b.start), b.start,
          Seqs!FlattenSeq([k \in DOMAIN order |-> Lower(l, g, order[k])]),
          Exit(g, l.code[last], last))

BridgedFunction(l, g) ==
  Fun(SafeId[g.name], <<>>, Void, [k \in DOMAIN g.blocks |-> BridgedBlock(l, g, g.blocks[k])])

\* Of a host function that only a jump without link reaches, nothing is noted.
FaultyUsedHosts(l, g) ==
  {FunctionAt(l, l.code[a].target).name :
     a \in {b \in Body(g) : IsCall(l.code[b]) /\ IsHostAt(l, l.code[b].target)}}

UsedHosts(l, g) ==
  {FunctionAt(l, l.code[a].target).name :
     a \in {b \in Body(g) : /\ l.code[b].op = "jal"
                            /\ IsHostAt(l, l.code[b].target)
                            /\ IsTail(l.code[b]) => l.code[b].target \notin Body(g)}}

----------------------------------------------------------------------------
(* convert *)

\* What the guest's memory starts with: every section but .text, by name.
DataSections(l) ==
  Picked(l.sections, {k \in DOMAIN l.sections : l.sections[k].name # ".text"})

Bridgeable(l) ==
  /\ WithName(l, EntryName) # {}
  /\ LET reachable == Reachable(l)
         addresses == {g.address : g \in reachable}
     IN  \A g \in reachable : \A b \in Elements(g.blocks) : BlockBridgeable(l, g, addresses, b)

Bridged(l) ==
  LET reachable == Reachable(l)
      starts    == Ascending({g.address : g \in reachable})
      used      == UNION {UsedHosts(l, g) : g \in reachable}
      gprs      == Ascending(Registers \ {0})
  IN  [addressType |-> "i32", bigEndian |-> FALSE,
       features |-> {"core-v1"} \cup (IF used = {} THEN {} ELSE {"host-call"}),
       slots |-> [k \in DOMAIN gprs |-> Par(Slot(gprs[k]), "i32")],
       hosts |-> used, contract |-> Contract.version, entry |-> EntryName,
       functions |-> [k \in DOMAIN starts |->
                        BridgedFunction(l, CHOOSE g \in reachable : g.address = starts[k])],
       memorySize |-> Contract.memorySize,
       segments |-> DataSections(l),
       initialState |-> <<[slot |-> Slot(2), value |-> StackTop]>>,
       observe |-> Slot(10), maxOperations |-> BridgedOperations,
       maxCallDepth |-> PackagedCallDepth, identityOK |-> TRUE]
=============================================================================
