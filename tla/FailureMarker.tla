---------------------------- MODULE FailureMarker ----------------------------
(***************************************************************************)
(* package_manager/src/FailureMarker.php: the file                         *)
(* PACKAGE_MANAGER_FAILURE.json, which Stage::apply() leaves in the active *)
(* directory while staged code is copied over it.  Only the presence of    *)
(* the file is modelled; its JSON body is a message for the administrator. *)
(***************************************************************************)

VARIABLE marker            \* TRUE while the marker file exists

MarkerTypeOK == marker \in BOOLEAN

MarkerInit == marker = FALSE

Write == marker' = TRUE

\* unlink(): the file is gone afterwards whether or not it was there.
Clear == marker' = FALSE

\* assertNotExists() throws ApplyFailedException unless this holds.
AssertNotExists == ~marker

=============================================================================
