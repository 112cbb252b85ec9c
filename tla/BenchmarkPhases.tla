-------------------------- MODULE BenchmarkPhases ---------------------------
(***************************************************************************)
(* What a benchmark promises, without sockets, strings or loops: every     *)
(* node is initialised, measured, collected, released and let go, the      *)
(* cluster moves through initialisation, measurement and exit together,    *)
(* and the results are collected from one node after the other, in the     *)
(* order of the host list, before anything is published.                   *)
(*                                                                         *)
(* step[w] counts what node w has completed:                               *)
(*   1 initialised, 2 measured, 3 released after its results are out,      *)
(*   4 told to exit.                                                       *)
(***************************************************************************)
EXTENDS Integers, Sequences

CONSTANT N

Nodes == 1 .. N

VARIABLES
  step,        \* number of commands each node has carried out
  collected,   \* nodes whose results the controller has, in its order
  published    \* whether the result file has been written

phaseVars == <<step, collected, published>>

PhasesInit ==
  /\ step = [w \in Nodes |-> 0]
  /\ collected = <<>>
  /\ published = FALSE

AllReached(k) == \A v \in Nodes : step[v] >= k

Complete(w, k) ==
  /\ step[w] = k - 1
  /\ step' = [step EXCEPT ![w] = k]

Initialise(w) ==
  /\ Complete(w, 1)
  /\ UNCHANGED <<collected, published>>

Measure(w) ==
  /\ AllReached(1)
  /\ Complete(w, 2)
  /\ UNCHANGED <<collected, published>>

\* The results of the next node of the list, which has been asked for them.
Collect ==
  /\ AllReached(2)
  /\ Len(collected) < N
  /\ collected' = Append(collected, Len(collected) + 1)
  /\ UNCHANGED <<step, published>>

\* A node gives its object up once its results are on their way: the nodes
\* before it have been collected, and it may not have been collected yet.
Release(w) ==
  /\ AllReached(2)
  /\ w <= Len(collected) + 1
  /\ Complete(w, 3)
  /\ UNCHANGED <<collected, published>>

Exit(w) ==
  /\ AllReached(3)
  /\ Len(collected) = N
  /\ Complete(w, 4)
  /\ UNCHANGED <<collected, published>>

Publish ==
  /\ AllReached(4)
  /\ ~published
  /\ published' = TRUE
  /\ UNCHANGED <<step, collected>>

PhasesNext ==
  \/ \E w \in Nodes : Initialise(w) \/ Measure(w) \/ Release(w) \/ Exit(w)
  \/ Collect
  \/ Publish

PhasesSpec == PhasesInit /\ [][PhasesNext]_phaseVars

PhasesFairness == WF_phaseVars(PhasesNext)

FairPhasesSpec == PhasesSpec /\ PhasesFairness

-----------------------------------------------------------------------------
(***************************************************************************)
(* No node is ever more than one command ahead of another.                 *)
(***************************************************************************)
Lockstep == \A v, w \in Nodes : step[v] <= step[w] + 1
=============================================================================
