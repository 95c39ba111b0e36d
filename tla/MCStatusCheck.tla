---------------------------- MODULE MCStatusCheck ----------------------------
(***************************************************************************)
(* StatusCheck.tla for TLC: an error that is found for the cron updater    *)
(* alone, a warning that is always found, and two Composer paths.          *)
(***************************************************************************)
EXTENDS StatusCheck, TLC

\* Composer paths and request slots are compared for equality only.
Symmetry == Permutations(Composer) \cup Permutations(Request)

=============================================================================
