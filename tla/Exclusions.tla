----------------------------- MODULE Exclusions -----------------------------
(***************************************************************************)
(* What the drainer promises of the list of nodes excluded from shard      *)
(* allocation: every change of it is one atomic addition or removal, and a *)
(* node somebody waits for, to see it empty, stays in it.  Drainer, which  *)
(* GETs and PUTs whole lists from several goroutines, implements this.     *)
(***************************************************************************)
CONSTANT Node

VARIABLES
  excluded,  \* the list
  awaited    \* the nodes somebody waits for

Init == excluded \subseteq Node /\ awaited = {}

\* Names are added; a termination handler then waits for its node.
Drain(S) ==
  /\ excluded' = excluded \cup S
  /\ awaited' \in {awaited} \cup {awaited \cup {n} : n \in S}

\* Nobody waits for these nodes any more: they left, or their handlers ended.
Release(S) ==
  /\ awaited' = awaited \ S
  /\ UNCHANGED excluded

Undrain(S) ==
  /\ S \cap awaited = {}
  /\ excluded' = excluded \ S
  /\ UNCHANGED awaited

Next == \E S \in SUBSET Node : Release(S) \/ Undrain(S) \/ Drain(S)

Spec == Init /\ [][Next]_<<excluded, awaited>>
=============================================================================
