--------------------------- MODULE MCPublication ---------------------------
(* An original and an edition made from it, for the model checker. *)
EXTENDS Publication

CONSTANTS original, adapted

OneWork == {original, adapted}
MadeFrom == [e \in OneWork |-> IF e = adapted THEN original ELSE None]
=============================================================================
