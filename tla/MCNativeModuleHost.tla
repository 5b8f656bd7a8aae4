-------------------------- MODULE MCNativeModuleHost --------------------------
(* TLC instance: two wrappers and ExecuteModule over six files. *)
EXTENDS NativeModuleHost, TLC

CONSTANTS w1, w2, hosted, plain, missing, broken, clinging, picky

Found(loads, requires, refuses) ==
  [loads |-> loads, requiresHost |-> requires, refuses |-> refuses]

MCModule ==
  hosted   :> Found("ok", TRUE, {}) @@
  plain    :> Found("ok", FALSE, {}) @@
  missing  :> Found("no file", FALSE, {}) @@
  broken   :> Found("no query", FALSE, {}) @@
  clinging :> Found("ok", TRUE, {"unbind"}) @@
  picky    :> Found("ok", TRUE, {"bind"})

Interchangeable == Permutations(Wrappers)
=============================================================================
