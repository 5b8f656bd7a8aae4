---------------------------- MODULE NativeModuleHost ----------------------------
(***************************************************************************)
(* The C++ hosts of native modules: FOpenRecompNativeModuleV1, which keeps *)
(* a module loaded, and FOpenRecompNativeAotHostV1::ExecuteModule, which   *)
(* loads, runs and frees one in a single call.  Several of them may name   *)
(* the same file; the operating system then maps it once, counts the       *)
(* handles, and the static variables of the generated C and of its ABI     *)
(* adapter are shared until the last handle is freed.                      *)
(*                                                                         *)
(* Everything happens on the game thread.  Only a run is more than one     *)
(* step, because the module calls its host from within; a handler that     *)
(* calls the wrapper back is outside the contract (UNREAL_PLUGIN_V1.md).   *)
(* The texts of LastError are left out: nothing is decided by them.  A     *)
(* file may be a module that refuses a host, as the code of both hosts     *)
(* expects, although the adapter that is generated today never does.       *)
(***************************************************************************)
EXTENDS Integers, Sequences, FiniteSets

CONSTANTS
  Wrappers,   \* objects of FOpenRecompNativeModuleV1
  OneShot,    \* the caller of ExecuteModule
  Owners,     \* whom a host call handler belongs to
  Files,      \* paths
  Module,     \* what is found at a path
  None,       \* a null handle, handler or host
  MaxRuns,    \* bound on the runs
  MaxCalls    \* bound on the host calls of one run

LoadKinds == {"no file", "no query", "bad api", "ok"}

Modules ==
  [loads : LoadKinds,
   requiresHost : BOOLEAN,                 \* CAP_HOST_CALLS
   refuses : SUBSET {"bind", "unbind"}]    \* set_host returns 0

ASSUME HostAssumption ==
  /\ Module \in [Files -> Modules]
  /\ None \notin Wrappers \cup Owners \cup Files
  /\ OneShot \notin Wrappers \cup {None}
  /\ IsFiniteSet(Wrappers)
  /\ MaxRuns \in Nat /\ MaxCalls \in Nat

VARIABLES
  dll,        \* per file: handles, and the statics host and run of the module
  session,    \* per wrapper: the DLL, its API, its metadata, the last result
  handler,    \* per wrapper: whom its host call handler belongs to
  running,    \* the run in progress
  shot,       \* the run whose result the last ExecuteModule returned
  log         \* history: every run that has begun

vars == <<dll, session, handler, running, shot, log>>

NoRun == 0

Dll(refs, host, run) == [refs |-> refs, host |-> host, run |-> run]

Session(handle, api, metadata, last) ==
  [handle |-> handle, api |-> api, metadata |-> metadata, last |-> last]

InProgress(who, file, bound, failed) ==
  [who |-> who, file |-> file, bound |-> bound, failed |-> failed]

Entry(who, file, ok, calls) == [who |-> who, file |-> file, ok |-> ok, calls |-> calls]

Unmapped == Dll(0, None, NoRun)
Unloaded == Session(None, FALSE, None, NoRun)
Nothing  == InProgress(None, None, FALSE, FALSE)

IsLoaded(w) == session[w].handle # None /\ session[w].api

----------------------------------------------------------------------------
(* The platform's reference count, and set_host of the module's API table. *)

GetHandle(d, f) == [d EXCEPT ![f] = Dll(d[f].refs + 1, d[f].host, d[f].run)]

FreeHandle(d, f) ==
  [d EXCEPT ![f] = IF d[f].refs = 1 THEN Unmapped
                   ELSE Dll(d[f].refs - 1, d[f].host, d[f].run)]

Accepts(f, request) == request \notin Module[f].refuses

Bind(d, f, host) == [d EXCEPT ![f] = Dll(d[f].refs, host, d[f].run)]

Unbind(d, f) == IF Accepts(f, "unbind") THEN Bind(d, f, None) ELSE d

\* The module starts: openrecomp_run gives its statics the values of this run.
Started(d, f) == [d EXCEPT ![f] = Dll(d[f].refs, d[f].host, Len(log) + 1)]

\* What Unload leaves of the mapped files.
Closed(w) ==
  LET f == session[w].handle
  IN  IF f = None THEN dll
      ELSE FreeHandle(IF session[w].api THEN Unbind(dll, f) ELSE dll, f)

\* It is freed on the error path and again by Unload.
FaultyTwiceFreed(d, f) == FreeHandle(FreeHandle(GetHandle(d, f), f), f)

\* A file that is not a module stays open.
FaultyRejected(d, f) == GetHandle(d, f)

\* A file that was opened and is not a module is closed again.
Rejected(d, f) == FreeHandle(GetHandle(d, f), f)

\* A new module is loaded over the result of the old one.
FaultyOpened(w, f) == Session(f, TRUE, f, session[w].last)

Opened(w, f) == Session(f, TRUE, f, NoRun)

Remember(w, run) ==
  session' = [session EXCEPT ![w] = Session(session[w].handle, session[w].api,
                                            session[w].metadata, run)]

----------------------------------------------------------------------------
Init ==
  /\ dll = [f \in Files |-> Unmapped]
  /\ session = [w \in Wrappers |-> Unloaded]
  /\ handler = [w \in Wrappers |-> None]
  /\ running = Nothing
  /\ shot = NoRun
  /\ log = << >>

Quiet == running = Nothing

(* Load: whatever was loaded is unloaded first. *)

LoadUnavailable(w, f) ==
  /\ Quiet /\ Module[f].loads = "no file"
  /\ dll' = Closed(w)
  /\ session' = [session EXCEPT ![w] = Unloaded]
  /\ UNCHANGED <<handler, running, shot, log>>

LoadRejected(w, f) ==
  /\ Quiet /\ Module[f].loads \in {"no query", "bad api"}
  /\ dll' = Rejected(Closed(w), f)
  /\ session' = [session EXCEPT ![w] = Unloaded]
  /\ UNCHANGED <<handler, running, shot, log>>

LoadAccepted(w, f) ==
  /\ Quiet /\ Module[f].loads = "ok"
  /\ dll' = GetHandle(Closed(w), f)
  /\ session' = [session EXCEPT ![w] = Opened(w, f)]
  /\ UNCHANGED <<handler, running, shot, log>>

Load(w, f) == LoadUnavailable(w, f) \/ LoadRejected(w, f) \/ LoadAccepted(w, f)

Unload(w) ==
  /\ Quiet
  /\ dll' = Closed(w)
  /\ session' = [session EXCEPT ![w] = Unloaded]
  /\ UNCHANGED <<handler, running, shot, log>>

SetHostCallHandler(w, owner) ==
  /\ Quiet
  /\ handler' = [handler EXCEPT ![w] = owner]
  /\ UNCHANGED <<dll, session, running, shot, log>>

ClearHostCallHandler(w) ==
  /\ Quiet
  /\ handler' = [handler EXCEPT ![w] = None]
  /\ dll' = IF session[w].api THEN Unbind(dll, session[w].handle) ELSE dll
  /\ UNCHANGED <<session, running, shot, log>>

----------------------------------------------------------------------------
(* A run of the module of a wrapper. *)

\* A module that needs a host is run without one.
FaultyMayRun(w) ==
  IsLoaded(w) /\ (handler[w] # None => Accepts(session[w].handle, "bind"))

\* The checks of Run before it binds the host, and the binding itself.
MayRun(w) ==
  LET bound == handler[w] # None
  IN  /\ IsLoaded(w)
      /\ Module[session[w].handle].requiresHost => bound
      /\ bound => Accepts(session[w].handle, "bind")

RunRefused(w) ==
  /\ Quiet /\ ~MayRun(w)
  /\ Remember(w, NoRun)
  /\ UNCHANGED <<dll, handler, running, shot, log>>

Begin(d, who, f, bound) ==
  /\ dll' = Started(IF bound THEN Bind(d, f, who) ELSE d, f)
  /\ running' = InProgress(who, f, bound, FALSE)
  /\ log' = Append(log, Entry(who, f, FALSE, 0))

RunBegins(w) ==
  /\ Quiet /\ MayRun(w) /\ Len(log) < MaxRuns
  /\ Begin(dll, w, session[w].handle, handler[w] # None)
  /\ Remember(w, NoRun)
  /\ UNCHANGED <<handler, shot>>

Latest == log[Len(log)]

Record(ok, calls) ==
  log' = [log EXCEPT ![Len(log)] = Entry(Latest.who, Latest.file, ok, calls)]

\* The module calls its host: or_abi_host_bridge calls whoever is bound, and
\* HostCallThunk the handler of that wrapper.
Called(f) ==
  LET host == dll[f].host
  IN  IF host \in Wrappers THEN handler[host] ELSE host

HostCall(answered) ==
  /\ ~Quiet /\ ~running.failed /\ Module[running.file].requiresHost
  /\ Latest.calls < MaxCalls
  /\ Called(running.file) = None => ~answered
  /\ Record(FALSE, Latest.calls + 1)
  /\ running' = InProgress(running.who, running.file, running.bound, ~answered)
  /\ UNCHANGED <<dll, session, handler, shot>>

\* The host is unbound after a run that succeeded.
FaultyEnded(f) == IF running.bound /\ ~running.failed THEN Unbind(dll, f) ELSE dll

\* After the run the host is unbound, whether the run succeeded or not.
Ended(f) == IF running.bound THEN Unbind(dll, f) ELSE dll

RunSucceeds(w) ==
  /\ running.who = w /\ ~running.failed
  /\ Remember(w, IF running.bound /\ ~Accepts(running.file, "unbind") THEN NoRun
                 ELSE Len(log))
  /\ dll' = Ended(running.file)
  /\ running' = Nothing
  /\ Record(TRUE, Latest.calls)
  /\ UNCHANGED <<handler, shot>>

RunFails(w) ==
  /\ running.who = w
  /\ dll' = Ended(running.file)
  /\ running' = Nothing
  /\ UNCHANGED <<session, handler, shot, log>>

Run(w) == RunRefused(w) \/ RunBegins(w) \/ RunSucceeds(w) \/ RunFails(w)

----------------------------------------------------------------------------
(* ExecuteModule, with the host its caller always gives. *)

ExecuteRefused(f) ==
  /\ Quiet
  /\ Module[f].loads # "ok" \/ ~Accepts(f, "bind")
  /\ shot' = NoRun
  /\ dll' = IF Module[f].loads = "no file" THEN dll ELSE Rejected(dll, f)
  /\ UNCHANGED <<session, handler, running, log>>

ExecuteBegins(f) ==
  /\ Quiet /\ Len(log) < MaxRuns
  /\ Module[f].loads = "ok" /\ Accepts(f, "bind")
  /\ shot' = NoRun
  /\ Begin(GetHandle(dll, f), OneShot, f, TRUE)
  /\ UNCHANGED <<session, handler>>

ExecuteEnds(ok) ==
  /\ running.who = OneShot /\ (ok => ~running.failed)
  /\ shot' = IF ok /\ Accepts(running.file, "unbind") THEN Len(log) ELSE NoRun
  /\ dll' = FreeHandle(Ended(running.file), running.file)
  /\ running' = Nothing
  /\ Record(ok, Latest.calls)
  /\ UNCHANGED <<session, handler>>

ExecuteModule ==
  \/ \E f \in Files : ExecuteRefused(f) \/ ExecuteBegins(f)
  \/ \E ok \in BOOLEAN : ExecuteEnds(ok)

----------------------------------------------------------------------------
Next ==
  \/ \E w \in Wrappers :
       \/ \E f \in Files : Load(w, f)
       \/ Unload(w)
       \/ \E o \in Owners : SetHostCallHandler(w, o)
       \/ ClearHostCallHandler(w)
       \/ Run(w)
  \/ \E answered \in BOOLEAN : HostCall(answered)
  \/ ExecuteModule

Spec == Init /\ [][Next]_vars

----------------------------------------------------------------------------
(* Every variable has its type. *)
TypeOK ==
  /\ dll \in [Files -> [refs : Nat, host : Wrappers \cup {OneShot, None}, run : 0..MaxRuns]]
  /\ session \in [Wrappers -> [handle : Files \cup {None}, api : BOOLEAN,
                              metadata : Files \cup {None}, last : 0..MaxRuns]]
  /\ handler \in [Wrappers -> Owners \cup {None}]
  /\ running \in [who : Wrappers \cup {OneShot, None}, file : Files \cup {None},
                  bound : BOOLEAN, failed : BOOLEAN]
  /\ shot \in 0..MaxRuns
  /\ log \in Seq([who : Wrappers \cup {OneShot}, file : Files, ok : BOOLEAN,
                  calls : 0..MaxCalls])
  /\ Len(log) \in 0..MaxRuns

Users(f) ==
  {w \in Wrappers : session[w].handle = f} \cup
    (IF running.who = OneShot /\ running.file = f THEN {OneShot} ELSE {})

(* GetDllHandle and FreeDllHandle balance on every path through Load, Run and
   ExecuteModule: a file is mapped exactly as often as someone still uses it, so
   no module leaks, none is pulled from under another wrapper or a run, and a
   wrapper holds a handle only with the API and metadata of a usable module. *)
HandleBalance ==
  /\ \A f \in Files : dll[f].refs = Cardinality(Users(f))
  /\ \A w \in Wrappers :
       LET f == session[w].handle
       IN  /\ session[w].api <=> f # None
           /\ session[w].metadata = f
           /\ f # None => Module[f].loads = "ok"

(* "unbinds host callbacks after each run" (UNREAL_PLUGIN_V1.md): a module is
   bound to a host only while that host runs it, unless the module refuses to
   be unbound; whoever shares its statics never finds another's host there. *)
BoundOnlyDuringItsRun ==
  \A f \in Files :
    dll[f].host # None /\ Accepts(f, "unbind") =>
      running.bound /\ running.file = f /\ running.who = dll[f].host

(* A module that calls its host is answered by the handler of the wrapper that
   runs it, and there is one, even if the module kept an earlier host. *)
CallsReachTheRunner ==
  ~Quiet /\ Module[running.file].requiresHost =>
    /\ dll[running.file].host = running.who
    /\ Called(running.file) # None

(* What GetLastExecution returns is of a run that succeeded, of the module that is
   loaded now, and of this wrapper's latest run; what GetStateValue and ReadMemory
   find in the module is of the same run unless another host of the same file has
   run it since. *)
ResultProvenance ==
  \A w \in Wrappers :
    LET r == session[w].last
        f == session[w].handle
    IN  r # NoRun =>
          /\ log[r].who = w /\ log[r].ok /\ log[r].file = f
          /\ \A q \in (r + 1)..Len(log) : log[q].who # w
          /\ dll[f].run # r => dll[f].run > r /\ log[dll[f].run].who # w
=============================================================================
