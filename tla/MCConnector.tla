----------------------------- MODULE MCConnector -----------------------------
(***************************************************************************)
(* Three files for the model checker: the first two are in different       *)
(* directories and have the same name.                                     *)
(***************************************************************************)
EXTENDS ConnectorRefinement

SharedName == <<1, 1, 2>>
Sizes == <<2, 3, 1>>
Unlimited == -1
=============================================================================
