------------------------------ MODULE MCSession ------------------------------
(***************************************************************************)
(* The alphabet of the client for the model checker.                       *)
(***************************************************************************)
EXTENDS WorkerSession

Everything == Commands \cup {NoMessage}
=============================================================================
