-------------------------- MODULE MCElfToolchain ---------------------------
(***************************************************************************)
(* Three ELFs: two that differ in code only and compute the same, and one  *)
(* with other code, data and functions.  The runtime sidecars differ in    *)
(* the functions they declare and in what they expect; the second contract *)
(* suits no sidecar.                                                       *)
(***************************************************************************)
EXTENDS ElfToolchain

MCElfs ==
    {[digest |-> 1, words |-> "add", functions |-> "main", data |-> "d1"],
     [digest |-> 2, words |-> "addu", functions |-> "main", data |-> "d1"],
     [digest |-> 3, words |-> "sub", functions |-> "start", data |-> "d2"]}

MCRuntime == [id |-> "fixture", functions |-> "main", size |-> 1,
              setup |-> "s1", data |-> "d1", result |-> 3]

MCRuntimes ==
    {MCRuntime, [MCRuntime EXCEPT !.functions = Undeclared, !.data = "d2",
                                  !.result = 5]}

MCContracts == {[version |-> 1, size |-> 1], [version |-> 2, size |-> 2]}

MCMaxEdits == [h \in BOOLEAN |-> IF h THEN 1 ELSE 3]

MCOutcome ==
    [p \in {"add", "addu", "sub"} \X {"d1", "d2"} \X {"s1"} |->
        IF p[1] = "sub" THEN 5 ELSE IF p[2] = "d1" THEN 3 ELSE 4]
=============================================================================
