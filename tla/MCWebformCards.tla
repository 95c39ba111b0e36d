--------------------------- MODULE MCWebformCards ---------------------------
(***************************************************************************)
(* Instances of WebformCards.tla: forms of three cards, of which one or    *)
(* two depend on the first, with every combination of the options.         *)
(***************************************************************************)
EXTENDS WebformCards

MCForm(kind, required) ==
  [kind : {kind}, required : {required}, dependsOn : {<<0, 1, 0>>, <<0, 1, 1>>},
   preview : BOOLEAN,
   options : {o \in SUBSET Option : "hide_next" \in o => "auto_forward" \in o}]

MCForms == MCForm(<<"radio", "text", "radio">>, {2, 3})
           \cup MCForm(<<"radio", "other", "many">>, {1, 3})
=============================================================================
