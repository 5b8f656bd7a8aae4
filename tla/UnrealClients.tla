------------------------------ MODULE UnrealClients ------------------------------
(***************************************************************************)
(* The Unreal code that uses the native hosts: the game-instance subsystem *)
(* with its one wrapper, the example actors and the packaged proof that    *)
(* script it, the actor that calls ExecuteModule, and Blueprint code that  *)
(* may call the subsystem whenever the game thread is free.                *)
(*                                                                         *)
(* The game thread does one thing at a time: `thread` is the client it is  *)
(* in and the calls that client still has to make.  A client's counters    *)
(* and buffers, from which its checksum is computed, are abstracted to the *)
(* number of host calls it has answered since it reset them.               *)
(***************************************************************************)
EXTENDS NativeModuleHost

CONSTANTS
  Actors,     \* AOpenRecompPluginExampleActor objects
  Packaged,   \* RunOpenRecompPackagedProofV1, with its host state on the stack
  Blueprint,  \* any caller of the subsystem's BlueprintCallable functions
  Subsystem   \* the wrapper inside UOpenRecompSubsystem

ASSUME ClientAssumption ==
  /\ Wrappers = {Subsystem}
  /\ Owners = Actors \cup {Packaged}
  /\ Packaged \notin Actors /\ OneShot \notin Owners /\ Blueprint \notin Owners \cup {OneShot}

VARIABLES
  game,      \* the life of the game instance
  actor,     \* the life of each example actor
  thread,    \* what the game thread is doing
  answered,  \* per client: host calls answered since its counters were reset
  shown      \* per client: the run it reported, and its counters then

clientVars == <<game, actor, thread, answered, shown>>
allVars == <<vars, clientVars>>

Clients == Actors \cup {Packaged, OneShot}

Idle == [client |-> None, todo |-> << >>]
Nowhere == [run |-> NoRun, calls |-> 0]

Free == thread = Idle
At(call) == ~Free /\ Head(thread.todo) = call

Then(todo) == thread' = IF todo = << >> THEN Idle ELSE [thread EXCEPT !.todo = todo]

Continue == Then(Tail(thread.todo))

Starts(client, todo) == Free /\ thread' = [client |-> client, todo |-> todo]

----------------------------------------------------------------------------
(* The scripts. *)

ProofScript == <<"set", "load", "run", "report", "clear">>

Script(client) == IF client = Packaged THEN Append(ProofScript, "unload") ELSE ProofScript

\* A failed load returns without touching the handler.
FaultyAfterFailedLoad == << >>

AfterFailedLoad == IF thread.client = Blueprint THEN << >> ELSE <<"clear">>

\* A failed run is tried again.
FaultyAfterFailedRun == thread.todo

AfterFailedRun ==
  CASE thread.client = Blueprint -> << >>
    [] thread.client = Packaged  -> <<"clear", "unload">>
    [] OTHER                     -> <<"clear">>

CInit ==
  /\ Init
  /\ game = "starting"
  /\ actor = [a \in Actors |-> "unborn"]
  /\ thread = Idle
  /\ answered = [c \in Clients |-> 0]
  /\ shown = [c \in Clients |-> Nowhere]

\* UOpenRecompSubsystem::Initialize, with -OpenRecompPackagedProof or without.
Initialize ==
  /\ game = "starting"
  /\ game' = "playing"
  /\ \/ Starts(Packaged, Script(Packaged))
     \/ UNCHANGED thread
  /\ UNCHANGED <<vars, actor, answered, shown>>

\* Deinitialize, then the wrapper's destructor.
Deinitialize ==
  /\ game = "playing"
  /\ game' = "ending"
  /\ Starts(Blueprint, <<"clear", "unload", "unload", "end">>)
  /\ UNCHANGED <<vars, actor, answered, shown>>

\* A proof that counts on from its last run.
FaultyReset(client) == UNCHANGED answered

\* ResetDeterministicHost
Reset(client) == answered' = [answered EXCEPT ![client] = 0]

\* BeginPlay, or RunPluginProof called again
RunPluginProof(a) ==
  /\ game = "playing" /\ Len(log) < MaxRuns
  /\ actor[a] # "destroyed"
  /\ actor' = [actor EXCEPT ![a] = "playing"]
  /\ Reset(a)
  /\ shown' = [shown EXCEPT ![a] = Nowhere]
  /\ Starts(a, Script(a))
  /\ UNCHANGED <<vars, game>>

\* The subsystem may be gone before the actor is.
EndPlay(a) ==
  /\ actor[a] = "playing"
  /\ actor' = [actor EXCEPT ![a] = "destroyed"]
  /\ \/ game = "playing" /\ Starts(a, <<"clear", "unload">>)
     \/ game = "ended" /\ UNCHANGED thread
  /\ UNCHANGED <<vars, game, answered, shown>>

\* AOpenRecompNativeAotHostActor::RunNativeAotProof
RunNativeAotProof ==
  /\ game = "playing" /\ Len(log) < MaxRuns
  /\ Reset(OneShot)
  /\ shown' = [shown EXCEPT ![OneShot] = Nowhere]
  /\ Starts(OneShot, <<"execute", "report">>)
  /\ UNCHANGED <<vars, game, actor>>

BlueprintCall ==
  /\ game = "playing"
  /\ \E call \in {"load", "unload", "run"} :
       (call = "run" => Len(log) < MaxRuns) /\ Starts(Blueprint, <<call>>)
  /\ UNCHANGED <<vars, game, actor, answered, shown>>

----------------------------------------------------------------------------
(* The calls of a script. *)

Set ==
  /\ At("set")
  /\ SetHostCallHandler(Subsystem, thread.client)
  /\ Continue
  /\ UNCHANGED <<answered, shown>>

LoadModule ==
  /\ At("load")
  /\ \E f \in Files :
       \/ LoadAccepted(Subsystem, f) /\ Continue
       \/ (LoadUnavailable(Subsystem, f) \/ LoadRejected(Subsystem, f)) /\ Then(AfterFailedLoad)
  /\ UNCHANGED <<answered, shown>>

\* The handler: an example actor answers through a weak pointer, only while it exists.
Handle ==
  \E ok \in BOOLEAN :
    /\ HostCall(ok)
    /\ LET c == Called(running.file)
       IN  /\ ok => c \notin {a \in Actors : actor[a] = "destroyed"}
           /\ answered' = IF ok THEN [answered EXCEPT ![c] = @ + 1] ELSE answered

RunModule ==
  /\ At("run")
  /\ \/ RunRefused(Subsystem) /\ Then(AfterFailedRun) /\ UNCHANGED answered
     \/ RunBegins(Subsystem) /\ UNCHANGED <<thread, answered>>
     \/ Handle /\ UNCHANGED thread
     \/ RunFails(Subsystem) /\ Then(AfterFailedRun) /\ UNCHANGED answered
     \/ /\ RunSucceeds(Subsystem) /\ UNCHANGED answered
        /\ IF session'[Subsystem].last # NoRun THEN Continue ELSE Then(AfterFailedRun)
  /\ UNCHANGED shown

Execute ==
  /\ At("execute")
  /\ \/ \E f \in Files : ExecuteRefused(f) /\ Then(<< >>) /\ UNCHANGED answered
     \/ \E f \in Files : ExecuteBegins(f) /\ UNCHANGED <<thread, answered>>
     \/ Handle /\ UNCHANGED thread
     \/ /\ \E ok \in BOOLEAN : ExecuteEnds(ok)
        /\ IF shot' # NoRun THEN Continue ELSE Then(<< >>)
        /\ UNCHANGED answered
  /\ UNCHANGED shown

\* The checksum is computed from the result and the client's own counters.
Report ==
  /\ At("report")
  /\ LET c == thread.client
     IN  shown' = [shown EXCEPT ![c] =
           [run |-> IF c = OneShot THEN shot ELSE session[Subsystem].last,
            calls |-> answered[c]]]
  /\ Continue
  /\ UNCHANGED <<vars, answered>>

Clear ==
  At("clear") /\ ClearHostCallHandler(Subsystem) /\ Continue /\ UNCHANGED <<answered, shown>>

UnloadModule ==
  At("unload") /\ Unload(Subsystem) /\ Continue /\ UNCHANGED <<answered, shown>>

End == At("end") /\ game' = "ended" /\ Continue /\ UNCHANGED <<vars, actor, answered, shown>>

Busy ==
  \/ /\ \/ Set \/ LoadModule \/ RunModule \/ Execute \/ Report \/ Clear \/ UnloadModule
     /\ UNCHANGED <<game, actor>>
  \/ End

CNext ==
  \/ Initialize \/ Deinitialize \/ RunNativeAotProof \/ BlueprintCall
  \/ \E a \in Actors : RunPluginProof(a) \/ EndPlay(a)
  \/ Busy

\* A call that has begun goes on; that a module's run ends is AOTModule's promise.
CSpec == CInit /\ [][CNext]_allVars /\ WF_allVars(Busy)

----------------------------------------------------------------------------
(* The packaged proof's handler captures its stack frame and an actor's handler
   the actor: whatever fails, none stays installed when its client returns. *)
NoHandlerOutlivesItsClient ==
  LET owner == handler[Subsystem]
  IN  owner # None => thread.client = owner /\ (owner \in Actors => actor[owner] = "playing")

(* What a client reports as passed is one run: the result and the counters its
   checksum mixes are of the same, successful run, however often the proof was
   repeated and whatever others ran in between. *)
ReportIsOfOneRun ==
  \A c \in Clients :
    LET r == shown[c].run
    IN  r # NoRun =>
          /\ log[r].ok /\ log[r].calls = shown[c].calls
          /\ log[r].who = IF c = OneShot THEN OneShot ELSE Subsystem

(* When the game instance is gone every module has been freed, whichever proofs
   and loads failed before. *)
NothingLeftMapped == game = "ended" => \A f \in Files : dll[f].refs = 0

(* The game thread always comes back from a proof, a call or a shutdown. *)
GameThreadReturns == ~Free ~> Free
=============================================================================
