---------------------------- MODULE MCUnrealClients ----------------------------
(* TLC instance: two example actors, the packaged proof, the ExecuteModule actor
   and Blueprint code over modules that need a host, need none, or do not load. *)
EXTENDS UnrealClients, TLC

CONSTANTS a1, a2, hosted, plain, missing, broken

Found(loads, requires) == [loads |-> loads, requiresHost |-> requires, refuses |-> {}]

MCModule ==
  hosted  :> Found("ok", TRUE) @@
  plain   :> Found("ok", FALSE) @@
  missing :> Found("no file", FALSE) @@
  broken  :> Found("bad api", FALSE)
=============================================================================
