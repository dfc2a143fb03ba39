----------------------------- MODULE NodesQuery -----------------------------
(***************************************************************************)
(* ElasticsearchQueryService.Nodes of the first generation: four requests  *)
(* sent at once, whose answers, each of its own time, are merged into a    *)
(* map of the nodes and their shards.  The lifecycler lets a node go when  *)
(* Nodes returns it without shards, the cloudwatcher counts its nodes.     *)
(***************************************************************************)
EXTENDS Naturals, FiniteSets

CONSTANTS
  Node,     \* names of nodes
  Tries     \* defaultInconsistentNodesRetries

ParametersOK == Tries \in Nat \ {0}

Endpoint == {"stats", "info", "shards", "settings"}

VARIABLES
  members, holders,  \* the cluster: its nodes, those with shards
  names,    \* the nodes asked for, none for all
  try,      \* tryCounter
  pc,       \* nodes: "launch" until it reaches its select, "select", "done"
  state,    \* the goroutine of each request
  answer,   \* statsResp, infoResp and so on, a set of nodes
  had,      \* nodes seen with shards at every moment of this try (history)
  result    \* what Nodes returns: an error, a panic or the nodes and those with shards

cluster == <<members, holders>>
vars    == <<cluster, names, try, pc, state, answer, had, result>>

TypeOK ==
  /\ members \subseteq Node /\ holders \subseteq members /\ names \subseteq Node
  /\ try \in 1..Tries
  /\ pc \in {"launch", "select", "done"}
  /\ state \in [Endpoint -> {"sent", "answered", "failed"}]
  /\ answer \in [Endpoint -> SUBSET Node] /\ had \subseteq Node
  /\ result \in [kind : {"none", "error", "panic", "ok"},
                 nodes : SUBSET Node, shards : SUBSET Node]

Result(kind, nodes, shards) == [kind |-> kind, nodes |-> nodes, shards |-> shards]

Launched ==
  /\ pc = "launch"
  /\ state = [r \in Endpoint |-> "sent"] /\ answer = [r \in Endpoint |-> {}]
  /\ had = holders

Init ==
  /\ members \in SUBSET Node /\ holders \in SUBSET members
  /\ names \in {{}} \cup {{n} : n \in Node}
  /\ try = 1 /\ result = Result("none", {}, {})
  /\ Launched

-----------------------------------------------------------------------------
(* The cluster.                                                            *)

Join(n) ==
  /\ n \notin members
  /\ members' = members \cup {n}
  /\ UNCHANGED <<holders, names, try, pc, state, answer, had, result>>

Leave(n) ==
  /\ n \in members
  /\ members' = members \ {n} /\ holders' = holders \ {n} /\ had' = had \ {n}
  /\ UNCHANGED <<names, try, pc, state, answer, result>>

Vacate(n) ==
  /\ n \in holders
  /\ holders' = holders \ {n} /\ had' = had \ {n}
  /\ UNCHANGED <<members, names, try, pc, state, answer, result>>

-----------------------------------------------------------------------------
(* One try.                                                                *)

\* Nodes that are asked for; /_cat/shards always lists them all.
Asked(S) == IF names = {} THEN S ELSE S \cap names

Answer(r) ==
  /\ pc # "done" /\ state[r] = "sent"
  /\ state' = [state EXCEPT ![r] = "answered"]
  /\ answer' = [answer EXCEPT ![r] =
       CASE r \in {"stats", "info"} -> Asked(members)
         [] r = "shards" -> holders
         [] r = "settings" -> {}]
  /\ UNCHANGED <<cluster, names, try, pc, had, result>>

\* An error ends the try; after the last one Nodes returns it.
TryFails(kind) ==
  IF try < Tries /\ kind = "error"
    THEN /\ try' = try + 1 /\ pc' = "launch"
         /\ state' = [r \in Endpoint |-> "sent"] /\ answer' = [r \in Endpoint |-> {}]
         /\ had' = holders
         /\ UNCHANGED result
    ELSE /\ pc' = "done" /\ result' = Result(kind, {}, {})
         /\ UNCHANGED <<try, state, answer, had>>

\* The error is put into errc; a select that waits already takes it at once.
RequestFails(r) ==
  /\ pc # "done" /\ state[r] = "sent"
  /\ IF pc = "select" THEN TryFails("error")
       ELSE state' = [state EXCEPT ![r] = "failed"]
            /\ UNCHANGED <<try, pc, answer, had, result>>
  /\ UNCHANGED <<cluster, names>>

\* (mutant) The wait group counts one goroutine less.
FinishedButOne == Cardinality({r \in Endpoint : state[r] = "sent"}) <= 1

\* errc is ready, all goroutines are done.
Errored  == \E r \in Endpoint : state[r] = "failed"
Finished == \A r \in Endpoint : state[r] # "sent"

\* The responses of a failed request are nil: no nodes can be read from nil, no
\* settings of a node, but no shards are as good as an empty list.
Merge ==
  LET infos == answer["info"]
      shown == answer["shards"]
      agree == answer["stats"] \subseteq infos /\ (names = {} => shown \subseteq infos)
  IN IF state["stats"] = "failed" \/ state["info"] = "failed"
       THEN TryFails("panic")
     ELSE IF Cardinality(answer["stats"]) # Cardinality(infos) THEN TryFails("error")
     ELSE IF state["settings"] = "failed" /\ infos # {} THEN TryFails("panic")
     ELSE IF ~agree THEN TryFails("error")
     ELSE /\ pc' = "done" /\ result' = Result("ok", infos, infos \cap shown)
          /\ UNCHANGED <<try, state, answer, had>>

\* The select: of two cases that are ready it takes either.
Wait ==
  /\ pc = "launch" /\ ~Errored /\ ~Finished
  /\ pc' = "select"
  /\ UNCHANGED <<cluster, names, try, state, answer, had, result>>

TakeError ==
  /\ pc = "launch" /\ Errored
  /\ TryFails("error")
  /\ UNCHANGED <<cluster, names>>

TakeDone ==
  /\ pc # "done" /\ Finished
  /\ Merge
  /\ UNCHANGED <<cluster, names>>

Next ==
  \/ \E n \in Node : Join(n) \/ Leave(n) \/ Vacate(n)
  \/ \E r \in Endpoint : Answer(r) \/ RequestFails(r)
  \/ Wait \/ TakeError \/ TakeDone

Spec == Init /\ [][Next]_vars

-----------------------------------------------------------------------------

\* A node returned without shards had none at some moment of the try that returned
\* it, whatever joins, leaves and moves between the four answers, unless the request
\* for the shards failed, which does not always make Nodes return an error.
ShardsAreTold ==
  result.kind = "ok" /\ state["shards"] # "failed" => result.nodes \cap had \subseteq result.shards

-----------------------------------------------------------------------------
(* What comments of the code say, and the code does not do.                *)

\* "Wait for all index shards to drain off this node" (cmd/lifecycler/main.go:286): a
\* node whose shards Nodes does not return has none.
DrainedIsEmpty == result.kind = "ok" => result.nodes \cap had \subseteq result.shards
=============================================================================
