---------------------------- MODULE MCSimulator ------------------------------
(***************************************************************************)
(* Simulator with the access patterns and databases that the source knows, *)
(* one of each that it does not (workerConfiguration.xml has the pattern   *)
(* OCDB, which only DBConnector constructs), and a range of a single key.  *)
(***************************************************************************)
EXTENDS SimulatorRefinement

Config(pattern, database, maxKey) ==
  [pattern |-> pattern, database |-> database, minKey |-> 1, maxKey |-> maxKey, ratio |-> 150]

Configs ==
  {Config("Random", "RiakJava", 2), Config("ReadOnly", "RiakJava", 3),
   Config("WriteOnly", "Dummy", 3),
   Config("OCDB", "RiakJava", 3), Config("Random", "Riak", 3),
   Config("Random", "RiakJava", 1)}
=============================================================================
