--------------------------- MODULE MCPyNativeLoader ---------------------------
(***************************************************************************)
(* Two objects and five files: a generated module that calls its host, one *)
(* that may not let go of a host, one that may not take one, one of the    *)
(* old interface, and one that is no module.                               *)
(***************************************************************************)
EXTENDS PyNativeLoader, TLC

MCFiles == {"generated", "clinging", "refusing", "old", "other"}

File(kind, refuses) == [kind |-> kind, callsHost |-> kind # "bad api", refuses |-> refuses]

MCModule ==
  [f \in MCFiles |->
     CASE f = "generated" -> File("abi v1", {})
       [] f = "clinging"  -> File("abi v1", {"unbind"})
       [] f = "refusing"  -> File("abi v1", {"bind"})
       [] f = "old"       -> File("legacy", {})
       [] f = "other"     -> File("bad api", {})]

LoaderSymmetry == Permutations(Loaders)
=============================================================================
