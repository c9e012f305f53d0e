--------------------------- MODULE MCIngestionRun ---------------------------
(* Small instances of IngestionRun for TLC.                                *)
EXTENDS IngestionRun, TLC

(* Row 2 never passes the validation.                                      *)
OneBadRow == {2}

NoBadRows == {}

(* Attempts are interchangeable: sound for the invariants and the action   *)
(* properties, not used with the liveness properties.                      *)
AttemptSymmetry == Permutations(Attempts)
=============================================================================
