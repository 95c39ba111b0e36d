---------------------------- MODULE StageLifeCycle ----------------------------
(***************************************************************************)
(* What package_manager promises to the modules that use a Stage, without  *)
(* requests, tempstores or exceptions: one stage at a time has the site    *)
(* reserved and a copy of its code, the code of the site is only changed   *)
(* from that copy, and a marker tells whether a change was completed.      *)
(* Stage.tla implements it on a server whose requests do not overlap.      *)
(***************************************************************************)
CONSTANTS Holder,          \* who may reserve the site
          None

VARIABLES holder,          \* who has reserved the site, or None
          copy,            \* the holder has a copy of the code
          code,            \* the code of the site: "whole", in the middle of
                           \* a change, or "broken" by one
          marked           \* the failure marker

vars == <<holder, copy, code, marked>>

TypeOK ==
  /\ holder \in Holder \cup {None}
  /\ copy \in BOOLEAN
  /\ code \in {"whole", "changing", "broken"}
  /\ marked \in BOOLEAN

Init == holder = None /\ ~copy /\ code = "whole" /\ ~marked

\* Only a site that nobody has reserved and that is in order is given away.
Reserve ==
  /\ holder = None
  /\ code = "whole"
  /\ holder' \in Holder
  /\ UNCHANGED <<copy, code, marked>>

Copy ==
  /\ holder # None
  /\ ~copy
  /\ code = "whole"
  /\ copy' = TRUE
  /\ UNCHANGED <<holder, code, marked>>

Discard ==
  /\ copy
  /\ code # "changing"
  /\ copy' = FALSE
  /\ UNCHANGED <<holder, code, marked>>

\* What is left of the copy belongs to nobody.
Release ==
  /\ holder # None
  /\ code # "changing"
  /\ holder' = None
  /\ copy' = FALSE
  /\ UNCHANGED <<code, marked>>

Mark ==
  /\ holder # None
  /\ code = "whole"
  /\ marked' = TRUE
  /\ UNCHANGED <<holder, copy, code>>

Unmark ==
  /\ code = "whole"
  /\ marked' = FALSE
  /\ UNCHANGED <<holder, copy, code>>

BeginChange ==
  /\ copy
  /\ marked
  /\ code = "whole"
  /\ code' = "changing"
  /\ UNCHANGED <<holder, copy, marked>>

EndChange ==
  /\ code = "changing"
  /\ code' \in {"whole", "broken"}
  /\ UNCHANGED <<holder, copy, marked>>

\* A person restores the code, perhaps with the database as it was before.
Restore ==
  /\ marked
  /\ code # "changing"
  /\ code' = "whole"
  /\ marked' = FALSE
  /\ \/ UNCHANGED <<holder, copy>>
     \/ holder' = None /\ copy' = FALSE

Next ==
  \/ Reserve \/ Copy \/ Discard \/ Release
  \/ Mark \/ Unmark \/ BeginChange \/ EndChange \/ Restore

Spec == Init /\ [][Next]_vars

-----------------------------------------------------------------------------

(***************************************************************************)
(* The promises that follow: a copy belongs to the holder, a change has a  *)
(* copy to come from, and the marker is there during a change and after a  *)
(* failed one.                                                             *)
(***************************************************************************)
Promise ==
  /\ copy => holder # None
  /\ code = "changing" => copy
  /\ code # "whole" => marked

=============================================================================
