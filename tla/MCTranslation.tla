--------------------------- MODULE MCTranslation ---------------------------
(* A book of two chapters and two workers, for the model checker. *)
EXTENDS Translation

CONSTANTS w1, w2

TwoChapters == 1..2
TwoWorkers == {w1, w2}
Both == {"batch", "direct"}

Budget(asks, edits, troubles, delays, crashes) ==
  [asks |-> asks, edits |-> edits, troubles |-> troubles, delays |-> delays, crashes |-> crashes]

\* People and failures, beside an edit; beside a death; and with a slow worker.
Several ==
  {Budget(2, 1, 2, 0, 0), Budget(2, 0, 2, 0, 1), Budget(1, 1, 2, 0, 1), Budget(1, 1, 1, 1, 0)}
=============================================================================
