-------------------------------- MODULE MCAOT --------------------------------
(* TLC instance: the programs of MCPrograms on which both paths are defined. *)
EXTENDS AOTImplementsCore, MCPrograms

Comparable(m) ==
  HostProvides(m) /\ \A f \in Elements(m.functions) : EntryNotReentered(f)

MCDocuments ==
  {d \in StraightFiles \cup CallFiles \cup DivideFiles \cup ImageFiles : Comparable(ProgramIn(d))}

MCHostReplies == {<<>>, <<0>>, <<300>>}
=============================================================================
