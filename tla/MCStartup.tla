------------------------------ MODULE MCStartup ------------------------------
(***************************************************************************)
(* Host entries for the model checker: port ranges that touch and overlap, *)
(* within an entry and between entries, on the same and on other hosts.    *)
(***************************************************************************)
EXTENDS Startup

Entries ==
  [address : {"a", "b"}, firstCommandPort : {1, 3}, firstDataPort : {2, 5},
   numberOfNodes : 0 .. 3, wellFormed : {TRUE}]
  \cup
  [address : {"a"}, firstCommandPort : {1}, firstDataPort : {5},
   numberOfNodes : {1}, wellFormed : {FALSE}]

Limits == {-1, 0, 1, 2}
=============================================================================
