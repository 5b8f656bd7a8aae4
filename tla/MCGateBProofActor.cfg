SPECIFICATION ActorSpec
CONSTANT Edited <- MCEdited
INVARIANTS ProofPasses ReplayShowsTheProof
PROPERTIES ReplayEnds
