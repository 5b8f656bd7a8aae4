------------------------- MODULE MCGateBProofActor -------------------------
(***************************************************************************)
(* Guest fields as an editor may leave them: each may be off its initial    *)
(* value.                                                                  *)
(***************************************************************************)
EXTENDS GateBProofActor

MCEdited ==
    {[x |-> x, y |-> y, r |-> r, g |-> g, b |-> 167, a |-> 255, frame |-> f] :
        x \in {0, 9}, y \in {0, 4}, r \in {255, 7}, g \in {58, 16},
        f \in {0, 1}}
=============================================================================
