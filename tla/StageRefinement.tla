--------------------------- MODULE StageRefinement ---------------------------
(***************************************************************************)
(* Stage.tla implements StageLifeCycle.tla: the lock is the reservation,   *)
(* the directory of the locked stage the copy, and the active directory is *)
(* in the middle of a change while a request runs the committer.           *)
(***************************************************************************)
EXTENDS Stage

Copied == lock # None /\ Exists(lock.id)

Code ==
  IF broken THEN "broken"
  ELSE IF \E r \in Request : At(r, "applying") THEN "changing" ELSE "whole"

LifeCycle == INSTANCE StageLifeCycle
  WITH Holder <- Lock, holder <- lock, copy <- Copied, code <- Code,
       marked <- marker

(***************************************************************************)
(* Whatever fails or dies, and wherever, a server whose requests do not    *)
(* overlap keeps the promise of the life cycle: no reservation is taken    *)
(* over, the code is only changed from the copy of the stage that holds    *)
(* the lock, under the marker, and nothing but a restored backup mends it  *)
(* (Stage.php:25-56, "the stage life cycle").                              *)
(***************************************************************************)
ImplementsLifeCycle == LifeCycle!Spec

=============================================================================
