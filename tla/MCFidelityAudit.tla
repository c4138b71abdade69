---------------------------- MODULE MCFidelityAudit ----------------------------
(* Instances of FidelityAudit for TLC: two paragraphs, the first with a       *)
(* serious issue and a small one, and no more than one other wording of each.  *)
EXTENDS FidelityAudit, TLC

CONSTANTS m, n, a1, a2

Alike == Permutations(Workers)

AtOf == m :> 1 @@ n :> 1
SeesOf == a1 :> {m, n} @@ a2 :> {m}
OneOrTwo == {<<a1>>, <<a1, a2>>}
LossOfOne == <<a1>> :> 1 @@ <<a1, a2>> :> 0
DecisionsOf == <<a1>> :> 2 @@ <<a1, a2>> :> 2
EditsOf == <<a1>> :> 1 @@ <<a1, a2>> :> 0
NoLoss == [s \in Seats |-> 0]
OneSeat == {<<a1>>}

================================================================================
