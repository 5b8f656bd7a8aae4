---------------------------- MODULE PyNativeLoader ----------------------------
(***************************************************************************)
(* NativeAOTModule of tools/aot_native_module_v1.py: the Python client of  *)
(* native modules, which the run_aot_*.py tools use.                       *)
(*                                                                         *)
(* ctypes never unmaps a file, so its static variables, the host among     *)
(* them, are those of the process, whatever becomes of the loaders.  A     *)
(* callback reaches the module as a ctypes thunk, which the loader holds   *)
(* in _callback and _host and Python frees when it no longer does; the     *)
(* module keeps a bare pointer.  Which thunk the pointer names and who     *)
(* holds it is what is modelled; metadata and getters change nothing.      *)
(* One thread, and no callback uses a loader, as none in the tools does.   *)
(***************************************************************************)
EXTENDS Naturals, Sequences

CONSTANTS
  Loaders,    \* the NativeAOTModule objects of the process, dead or alive
  Files,      \* resolved paths
  Module,     \* what is found at a path
  None,       \* no file, no thunk
  MaxThunks,  \* bound: calls of set_host_callback
  MaxRuns     \* bound: calls of run

FileKinds == {"no file", "no symbols", "legacy", "bad api", "abi v1"}

Modules ==
  [kind : FileKinds,
   callsHost : BOOLEAN,
   refuses : SUBSET {"bind", "unbind"}]    \* what its set_host may answer with 0

ASSUME LoaderAssumption ==
  /\ Module \in [Files -> Modules]
  /\ None \notin Loaders \cup Files \cup Nat
  /\ MaxThunks \in Nat /\ MaxRuns \in Nat

VARIABLES
  host,      \* per file: the thunk its statics point to
  loader,    \* per object: its file, and the thunk it holds
  thunks,    \* history: per thunk, in the order of creation, who made it for what file
  freed,     \* history: the thunks whose loader was collected
  ran        \* history: per run, by whom, which thunk the module had, and how it ended

vars == <<host, loader, thunks, freed, ran>>

Object(file, thunk) == [file |-> file, thunk |-> thunk]
NoObject == Object(None, None)

Alive(w) == loader[w].file # None

\* Whether it refuses is the module's choice at each call.  The functions of the
\* old interface return nothing, and so cannot.
MayRefuse(f, request) == Module[f].kind # "legacy" /\ request \in Module[f].refuses

Hold(w, thunk) == loader' = [loader EXCEPT ![w].thunk = thunk]

----------------------------------------------------------------------------
Init ==
  /\ host = [f \in Files |-> None]
  /\ loader = [w \in Loaders |-> NoObject]
  /\ thunks = <<>> /\ freed = {} /\ ran = <<>>

Usable(f, requireAbi) ==
  Module[f].kind \in IF requireAbi THEN {"abi v1"} ELSE {"abi v1", "legacy"}

\* __init__; one that raises leaves no object, and the file mapped.
Open(w, f, requireAbi) ==
  /\ ~Alive(w)
  /\ Usable(f, requireAbi)
  /\ loader' = [loader EXCEPT ![w] = Object(f, None)]
  /\ UNCHANGED <<host, thunks, freed, ran>>

\* Only the first callback of an object is handed to the module.
FaultySetHostCallback(w, accepted) ==
  LET new == Len(thunks) + 1
      f   == loader[w].file
  IN  /\ Alive(w) /\ Len(thunks) < MaxThunks
      /\ accepted \/ MayRefuse(f, "bind")
      /\ thunks' = Append(thunks, [by |-> w, file |-> f])
      /\ Hold(w, new)
      /\ host' = IF accepted /\ loader[w].thunk = None THEN [host EXCEPT ![f] = new] ELSE host
      /\ UNCHANGED <<freed, ran>>

\* The new thunk replaces the old one before the module is asked; if the module
\* refuses, set_host_callback raises and the old one is gone.
SetHostCallback(w, accepted) ==
  LET new == Len(thunks) + 1
      f   == loader[w].file
  IN  /\ Alive(w) /\ Len(thunks) < MaxThunks
      /\ accepted \/ MayRefuse(f, "bind")
      /\ thunks' = Append(thunks, [by |-> w, file |-> f])
      /\ Hold(w, new)
      /\ host' = IF accepted THEN [host EXCEPT ![f] = new] ELSE host
      /\ UNCHANGED <<freed, ran>>

\* The thunk is let go before the module is asked.
FaultyClearHostCallback(w, accepted) ==
  LET f == loader[w].file
  IN  /\ Alive(w)
      /\ accepted \/ MayRefuse(f, "unbind")
      /\ Hold(w, None)
      /\ host' = IF accepted THEN [host EXCEPT ![f] = None] ELSE host
      /\ UNCHANGED <<thunks, freed, ran>>

\* The loader forgets its callback and the module is not told.
FaultyForgotten(w, accepted) ==
  /\ Alive(w) /\ accepted
  /\ Hold(w, None)
  /\ UNCHANGED <<host, thunks, freed, ran>>

\* A module that refuses keeps its host, and the loader the thunk.
ClearHostCallback(w, accepted) ==
  LET f == loader[w].file
  IN  /\ Alive(w)
      /\ accepted \/ MayRefuse(f, "unbind")
      /\ IF accepted
         THEN host' = [host EXCEPT ![f] = None] /\ Hold(w, None)
         ELSE UNCHANGED <<host, loader>>
      /\ UNCHANGED <<thunks, freed, ran>>

\* The last reference to the object goes: nothing tells the module.
Collect(w) ==
  /\ Alive(w)
  /\ freed' = freed \cup ({loader[w].thunk} \ {None})
  /\ loader' = [loader EXCEPT ![w] = NoObject]
  /\ UNCHANGED <<host, thunks, ran>>

Report(w, f, ok) == [by |-> w, file |-> f, thunk |-> host[f], ok |-> ok]

\* A run leaves the host bound.  Without one, as when the callback says no or
\* raises, a host call fails and run raises NativeAOTError.
Run(w, ok) ==
  LET f == loader[w].file
  IN  /\ Alive(w) /\ Len(ran) < MaxRuns
      /\ ok /\ Module[f].callsHost => host[f] # None
      /\ ran' = Append(ran, Report(w, f, ok))
      /\ UNCHANGED <<host, loader, thunks, freed>>

Next ==
  \E w \in Loaders :
    \/ \E f \in Files, requireAbi \in BOOLEAN : Open(w, f, requireAbi)
    \/ \E accepted \in BOOLEAN : SetHostCallback(w, accepted)
    \/ \E accepted \in BOOLEAN : ClearHostCallback(w, accepted)
    \/ Collect(w)
    \/ \E ok \in BOOLEAN : Run(w, ok)

Spec == Init /\ [][Next]_vars

----------------------------------------------------------------------------
Thunks == 1..Len(thunks)

(* Every variable has its type: what the proofs start from. *)
TypeOK ==
  /\ host \in [Files -> Thunks \cup {None}]
  /\ loader \in [Loaders -> [file : Files \cup {None}, thunk : Thunks \cup {None}]]
  /\ thunks \in Seq([by : Loaders, file : Files]) /\ Len(thunks) <= MaxThunks
  /\ freed \subseteq Thunks
  /\ ran \in Seq([by : Loaders, file : Files, thunk : Thunks \cup {None}, ok : BOOLEAN])
  /\ Len(ran) <= MaxRuns

Held(t) == \E w \in Loaders : loader[w].thunk = t

(* Whatever the loaders of a file bind, replace, clear and refuse in turn, the  *)
(* thunk that a module points to is still held by one of them, so that a host   *)
(* call reaches living Python code.  There are two ways out of this, and only   *)
(* two: the module may refuse a new host when it has one (generated ones never  *)
(* refuse the one the loader gives them), or the object that made the thunk was *)
(* collected.                                                                   *)
BoundThunkIsHeld ==
  \A f \in Files :
    host[f] # None /\ ~MayRefuse(f, "bind") => Held(host[f]) \/ host[f] \in freed

(* The statics of a file are shared by its loaders, so that a run need not be   *)
(* answered by the callback that the running loader holds.  But when it holds   *)
(* one, the answers are from it or from one that another loader bound later:    *)
(* never from an older callback, its own that it replaced or another's that it  *)
(* displaced.                                                                   *)
NeverAnsweredByOlder ==
  [][ran' # ran =>
       LET r   == ran'[Len(ran')]
           own == loader[r.by].thunk
       IN  r.ok /\ Module[r.file].callsHost /\ ~MayRefuse(r.file, "bind") /\ own # None =>
             r.thunk # None /\ (r.thunk = own \/ (r.thunk > own /\ thunks[r.thunk].by # r.by))]_vars

\* Nobody else in the process has used the loader's module.
Alone(w) ==
  /\ \A t \in Thunks : thunks[t].file = loader[w].file => thunks[t].by = w /\ t \notin freed
  /\ \A v \in Loaders \ {w} : loader[v].file # loader[w].file

(* The tools run a module they are alone with: if it calls its host and the run *)
(* succeeds, the answers are those of the callback set last, and that was not   *)
(* cleared since; a cleared callback is never called again.                     *)
AnsweredByTheRunner ==
  [][ran' # ran =>
       LET r == ran'[Len(ran')]
       IN  r.ok /\ Module[r.file].callsHost /\ Alone(r.by) /\ ~MayRefuse(r.file, "bind") =>
             r.thunk # None /\ r.thunk = loader[r.by].thunk]_vars
=============================================================================
