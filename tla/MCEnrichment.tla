---------------------------- MODULE MCEnrichment ----------------------------
(* Small editions for the model checker. *)
EXTENDS Enrichment

CONSTANTS b1, b2, e1, e2, w1

TwoBlocks == {b1, b2}
TwoEditors == {e1, e2}
OneWorker == {w1}
OnlyTheFirst == {0}
=============================================================================
