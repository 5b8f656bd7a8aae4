--------------------------- MODULE GateBProofActor ---------------------------
(***************************************************************************)
(* AOpenRecompProofActor, the Unreal actor of Gate B: one workload of eight *)
(* inputs, run at once and validated when play begins, and replayed once    *)
(* more, a step every half second, for the eye.  The replay has its own     *)
(* state, its own copy of the inputs and of the initial values, and reports *)
(* a PASS that nothing validates.  Meanwhile the guest fields can be edited *)
(* and Blueprints can call the proof.  Mesh, text, camera and the log's     *)
(* wording are left out.                                                   *)
(***************************************************************************)
EXTENDS Naturals, Sequences

CONSTANTS Edited    \* guest states that an editor may leave behind

VARIABLES
    guest,     \* GuestX, GuestY, GuestColor, GuestFrame
    demo,      \* DemoGuestX, ..., DemoGuestFrame
    index,     \* DemoStepIndex
    playing,   \* BeginPlay has been called
    timer,     \* DemoTimerHandle is set
    verdicts,  \* what the proof has logged: TRUE for PASS
    replayed   \* the states with which the replay has logged PASS

actorVars == <<guest, demo, index, playing, timer, verdicts, replayed>>

Initial == [x |-> 0, y |-> 0, r |-> 255, g |-> 58, b |-> 167, a |-> 255,
            frame |-> 0]

\* Mutant: an input of the replay was changed.
DemoInputsDiffer == <<1, 1, 3, 0, 2, 3, 1, 1>>

\* Inputs of the proof and of the replay: two arrays in the code.
Inputs == <<1, 1, 3, 0, 2, 3, 1, 0>>
DemoInputs == <<1, 1, 3, 0, 2, 3, 1, 0>>

\* c ^ 0x0f
Flipped(c) == (c - (c % 16)) + (15 - (c % 16))

\* StepSyntheticProof
Step(s, input) ==
    [s EXCEPT !.x = IF input % 2 = 1 THEN @ + 3 ELSE @,
              !.y = IF input >= 2 THEN @ + 2 ELSE @,
              !.r = IF s.frame % 2 = 0 THEN Flipped(@) ELSE @,
              !.g = IF s.frame % 2 = 0 THEN Flipped(@) ELSE @,
              !.frame = @ + 1]

\* The state after the first n inputs.
After(s, inputs) ==
    LET run[n \in 0 .. Len(inputs)] ==
            IF n = 0 THEN s ELSE Step(run[n - 1], inputs[n])
    IN  run[Len(inputs)]

\* What the proof compares the result with.
Expected == [x |-> 15, y |-> 6, r |-> 255, g |-> 58, b |-> 167, a |-> 255,
             frame |-> 8]

ActorInit ==
    /\ guest \in Edited \cup {Initial}
    /\ demo = Initial
    /\ index = 0
    /\ playing = FALSE /\ timer = FALSE
    /\ verdicts = {} /\ replayed = <<>>

\* Mutant: the workload goes on from the guest's fields as they are.
ProofWithoutReset ==
    /\ guest' = After(guest, Inputs)
    /\ verdicts' = verdicts \cup {guest' = Expected}

\* RunSyntheticTranslatedProof
Proof ==
    /\ guest' = After(Initial, Inputs)
    /\ verdicts' = verdicts \cup {guest' = Expected}

\* BeginPlay: the proof, then StartVisualDemo.
BeginPlay ==
    /\ ~playing
    /\ playing' = TRUE
    /\ Proof
    /\ index' = 0
    /\ demo' = Initial
    /\ timer' = TRUE
    /\ UNCHANGED replayed

\* The function is CallInEditor and BlueprintCallable.
CallProof ==
    /\ Proof
    /\ UNCHANGED <<demo, index, playing, timer, replayed>>

\* The guest fields are EditAnywhere.
Edit ==
    /\ guest' \in Edited
    /\ UNCHANGED <<demo, index, playing, timer, verdicts, replayed>>

\* Mutant: the end is looked for one step too late.
OnDemoStepNeverShows ==
    /\ timer
    /\ IF index < 8
       THEN demo' = Step(demo, DemoInputs[index + 1]) /\ index' = index + 1
       ELSE UNCHANGED <<demo, index>>
    /\ IF index' > 8
       THEN timer' = FALSE /\ replayed' = Append(replayed, demo')
       ELSE UNCHANGED <<timer, replayed>>
    /\ UNCHANGED <<guest, playing, verdicts>>

\* OnDemoStep, called by the world's timer.
OnDemoStep ==
    /\ timer
    /\ IF index < 8
       THEN demo' = Step(demo, DemoInputs[index + 1]) /\ index' = index + 1
       ELSE UNCHANGED <<demo, index>>
    /\ IF index' >= 8
       THEN timer' = FALSE /\ replayed' = Append(replayed, demo')
       ELSE UNCHANGED <<timer, replayed>>
    /\ UNCHANGED <<guest, playing, verdicts>>

ActorNext == BeginPlay \/ CallProof \/ Edit \/ OnDemoStep

\* A timer that is set fires.
ActorSpec == ActorInit /\ [][ActorNext]_actorVars /\ WF_actorVars(OnDemoStep)

-----------------------------------------------------------------------------

\* However the fields were edited, and whenever a Blueprint calls it, the proof
\* passes: it depends on nothing that was there before.
ProofPasses == verdicts \subseteq {TRUE}

\* The replay reports at most once, and with the state that the proof
\* validates, although it shares neither state nor inputs with it.
ReplayShowsTheProof == replayed \in {<<>>, <<Expected>>}

\* A replay that has begun reports.
ReplayEnds == playing ~> replayed # <<>>
=============================================================================
