-------------------------- MODULE PhasesRefinement --------------------------
(***************************************************************************)
(* SimulationCluster implements BenchmarkPhases.  No variable of the code  *)
(* says how far a node is; its connector and its state do, because         *)
(* everything a handler changes it changes before it replies.              *)
(***************************************************************************)
EXTENDS SimulationCluster

StepOf(w) ==
  IF connector[w] = "uninitialised" THEN 0
  ELSE IF connector[w] = "live" THEN (IF runs[w] = 0 THEN 1 ELSE 2)
  ELSE IF state[w] # "EXIT" THEN 3 ELSE 4

stepBar == [w \in Workers |-> StepOf(w)]
collectedBar == [k \in DOMAIN allResults |-> allResults[k].hostname]
publishedBar == csvFiles # {}

Phases == INSTANCE BenchmarkPhases
            WITH step <- stepBar, collected <- collectedBar, published <- publishedBar

(***************************************************************************)
(* Every behaviour of the processes, their queues and their loops is one   *)
(* of the phases, and reaches their end.                                   *)
(***************************************************************************)
ImplementsPhases == Phases!FairPhasesSpec

(***************************************************************************)
(* No node is ever more than one command ahead of another: the rounds of   *)
(* run() keep the cluster together (SimulationController.cc, lines 89 to   *)
(* 133), although getAllNodes() waits for the nodes one by one.            *)
(***************************************************************************)
PhasesInLockstep == Phases!Lockstep
=============================================================================
