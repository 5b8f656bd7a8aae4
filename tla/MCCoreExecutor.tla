--------------------------- MODULE MCCoreExecutor ---------------------------
(* TLC instance of CoreExecutor over the programs of MCPrograms. *)
EXTENDS CoreExecutor, MCPrograms

MCDocuments == StraightFiles \cup CallFiles \cup DivideFiles \cup ImageFiles

MCRunArgs == {<<>>, <<259>>}

MCHostReplies == {<<>>, <<0>>, <<300>>}
=============================================================================
