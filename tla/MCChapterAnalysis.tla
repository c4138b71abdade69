--------------------------- MODULE MCChapterAnalysis ---------------------------
(***************************************************************************)
(* Instances of ChapterAnalysis for TLC: an edition of two chapters, one    *)
(* window each, in some versions of its text.                               *)
(***************************************************************************)
EXTENDS ChapterAnalysis, TLC

CONSTANTS A, B, C, D,             \* the versions of the text
          a1, a2, b2, c1          \* the windows: chapter and version

\* B changes chapter 2 of A by more than a phrase, C changes chapter 1 of B by a phrase,
\* D changes chapter 1 of A by the same phrase.
Versions == A :> <<a1, a2>> @@ B :> <<a1, b2>> @@ C :> <<c1, b2>> @@ D :> <<c1, a2>>
PlanOfTexts == [t \in Texts |-> Versions[t]]
ChapterOf == a1 :> 1 @@ a2 :> 2 @@ b2 :> 2 @@ c1 :> 1
PlaceOfWindows == [h \in Windows |-> ChapterOf[h]]
ByAPhrase == {<<a1, c1>>, <<c1, a1>>}
NoPhrase == {}

Symmetry == Permutations(Workers)

================================================================================
