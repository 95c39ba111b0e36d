------------------------------- MODULE MCImce -------------------------------
(***************************************************************************)
(* The instance of Imce.tla for TLC: a folder, two subfolders and a file   *)
(* beside it, with the root as the one predefined folder; all but one      *)
(* subfolder exist in the beginning, or none.                              *)
(***************************************************************************)
EXTENDS Imce

MCNames == <<"a", "b", "c", "f">>
MCFolderPath == {<<>>, <<"a">>, <<"a", "b">>, <<"a", "c">>}
MCFilePath == {<<"f">>}
MCExisting == {{}, {<<"a">>, <<"a", "b">>, <<"f">>}}
MCPredefined == {<<>>}
=============================================================================
