---------------------------- MODULE MCBenchmark ------------------------------
(***************************************************************************)
(* Two files of the same name, in different directories, for the model     *)
(* checker.                                                                *)
(***************************************************************************)
EXTENDS Benchmark

NotGiven == -1
SameName == <<1, 1>>
Sizes == <<2, 3>>
Unlimited == -1
=============================================================================
