------------------------------- MODULE MCStage -------------------------------
(***************************************************************************)
(* Stage.tla for TLC.  One slot of Request is a server whose requests do   *)
(* not overlap; two slots are two PHP workers.                             *)
(***************************************************************************)
EXTENDS StageRefinement, TLC

\* IDs, actors and lock file contents are never compared but for equality.
Symmetry == Permutations(Id) \cup Permutations(Hash) \cup Permutations(Actor)

\* Requests that run to their end, alone: no clock, no expiry, no crash.
RequestsOnly == Init /\ [][\E r \in Request : Work(r)]_vars

(***************************************************************************)
(* Recovery.  A request that runs goes on, and it ends; somebody keeps     *)
(* asking for a forced destruction; crashes stop at some time; time passes *)
(* (and the last apply() begins a Window before the clock's bound).        *)
(***************************************************************************)
Recovering ==
  /\ Init
  /\ [][Next /\ (clock + Window > MaxTime
                   => \A r \in Request : pc'[r] # "apply_time")]_vars
  /\ WF_vars(Tick)
  /\ <>[][\A r \in Request : ~Crash(r)]_vars
  /\ \A r \in Request : /\ WF_vars(Work(r))
                        /\ SF_vars(EndRequest(r))
                        /\ SF_vars(Destroy(r, TRUE))

(***************************************************************************)
(* A stage that was created, whoever created it, whatever became of the    *)
(* requests that worked on it, and even in the middle of an apply, can be  *)
(* got rid of: the site is available for a new stage again.                *)
(***************************************************************************)
Recoverable == ~IsAvailable ~> IsAvailable

=============================================================================
