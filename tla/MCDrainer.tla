----------------------------- MODULE MCDrainer -----------------------------
(* Instances of Drainer for TLC.  Nodes are interchangeable where no constant *)
(* names one of them, and so are the handlers of spot batches.                *)
EXTENDS Drainer, TLC

NodeSymmetry == Permutations(Node)
SpotSymmetry == Permutations(Node) \cup Permutations(SpotHandler)
=============================================================================
