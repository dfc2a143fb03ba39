------------------------------- MODULE Health -------------------------------
(***************************************************************************)
(* The healthcheck of the first generation: what a request for /ready runs *)
(* beside the Elasticsearch node it watches.  Requests, and the scrapes of *)
(* /metrics that run the same checks, come at the same time and share the  *)
(* variables of CheckReadyRollingUpgrade without a lock.  The list of      *)
(* shards has no ids, all are the same empty string: initialShards then    *)
(* has every shard as soon as it has one.                                  *)
(***************************************************************************)
EXTENDS Naturals

CONSTANT Request

State == {"INITIALIZING", "STARTED", "RELOCATING", "UNASSIGNED"}

VARIABLES
  joined,   \* the node is in a cluster
  \* The process.
  nodeName, initialShards, doneOnce,
  pc,       \* where each request is
  shards,   \* the states of the shards it listed
  ready     \* what it found out so far, then its answer

check == <<nodeName, initialShards, doneOnce>>
vars  == <<joined, check, pc, shards, ready>>

TypeOK ==
  /\ joined \in BOOLEAN /\ doneOnce \in BOOLEAN
  /\ nodeName \in {"", "known"} /\ initialShards \in {"nil", "empty", "some"}
  /\ pc \in [Request -> {"idle", "rolling", "list", "first", "make", "fill", "judge", "pass",
                         "joined"}]
  /\ shards \in [Request -> SUBSET State] /\ ready \in [Request -> BOOLEAN]

ProcessInit ==
  /\ nodeName = "" /\ initialShards = "nil" /\ doneOnce = FALSE
  /\ pc = [q \in Request |-> "idle"] /\ shards = [q \in Request |-> {}]
  /\ ready = [q \in Request |-> FALSE]

Init == joined = FALSE /\ ProcessInit

-----------------------------------------------------------------------------
(* The cluster and the process.                                            *)

Join ==
  /\ joined' = ~joined
  /\ UNCHANGED <<check, pc, shards, ready>>

Restart ==
  /\ nodeName' = "" /\ initialShards' = "nil" /\ doneOnce' = FALSE
  /\ pc' = [q \in Request |-> "idle"] /\ shards' = [q \in Request |-> {}]
  /\ ready' = [q \in Request |-> FALSE]
  /\ UNCHANGED joined

-----------------------------------------------------------------------------
(* A request.                                                              *)

Goto(q, where) == pc' = [pc EXCEPT ![q] = where]

\* CheckReadyRollingUpgrade returns.
Return(q, passed) ==
  /\ Goto(q, "joined")
  /\ ready' = [ready EXCEPT ![q] = passed]
  /\ shards' = [shards EXCEPT ![q] = {}]

Begin(q) ==
  /\ pc[q] = "idle"
  /\ IF doneOnce THEN Return(q, TRUE)
       ELSE Goto(q, "rolling") /\ UNCHANGED <<shards, ready>>
  /\ UNCHANGED <<joined, check>>

GetNodeName(q) ==
  /\ pc[q] = "rolling"
  /\ nodeName' = "known"
  /\ Goto(q, "list")
  /\ UNCHANGED <<joined, initialShards, doneOnce, shards, ready>>

\* Only a node that is in a cluster can list its shards, whatever states they are in.
List(q) ==
  /\ pc[q] = "list" /\ joined
  /\ \E states \in SUBSET State : shards' = [shards EXCEPT ![q] = states]
  /\ Goto(q, "first")
  /\ UNCHANGED <<joined, check, ready>>

RequestFails(q) ==
  /\ \/ pc[q] = "rolling" /\ nodeName = ""
     \/ pc[q] = "list"
  /\ Return(q, FALSE)
  /\ UNCHANGED <<joined, check>>

\* initialShards == nil?
IsFirst(q) ==
  /\ pc[q] = "first"
  /\ Goto(q, IF initialShards = "nil" THEN "make" ELSE "judge")
  /\ UNCHANGED <<joined, check, shards, ready>>

MakeInitial(q) ==
  /\ pc[q] = "make"
  /\ initialShards' = "empty"
  /\ Goto(q, "fill")
  /\ UNCHANGED <<joined, nodeName, doneOnce, shards, ready>>

FillInitial(q) ==
  /\ pc[q] = "fill"
  /\ initialShards' = IF shards[q] = {} THEN initialShards ELSE "some"
  /\ Goto(q, "judge")
  /\ UNCHANGED <<joined, nodeName, doneOnce, shards, ready>>

\* Some shard is RELOCATING, or INITIALIZING and in initialShards as they are now.
Blocked(q) ==
  "RELOCATING" \in shards[q] \/ ("INITIALIZING" \in shards[q] /\ initialShards = "some")

\* The loop over the shards.
Judge(q) ==
  /\ pc[q] = "judge"
  /\ IF Blocked(q) THEN Return(q, FALSE)
       ELSE Goto(q, "pass") /\ UNCHANGED <<shards, ready>>
  /\ UNCHANGED <<joined, check>>

\* "After the check passes for the first time, it will always pass".
Pass(q) ==
  /\ pc[q] = "pass"
  /\ doneOnce' = TRUE
  /\ Return(q, TRUE)
  /\ UNCHANGED <<joined, nodeName, initialShards>>

\* CheckReadyJoinedCluster, and the answer.
CheckJoined(q) ==
  /\ pc[q] = "joined"
  /\ Goto(q, "idle")
  /\ ready' = [ready EXCEPT ![q] = @ /\ joined]
  /\ UNCHANGED <<joined, check, shards>>

Next ==
  \/ Join \/ Restart
  \/ \E q \in Request :
       \/ Begin(q) \/ GetNodeName(q) \/ List(q) \/ RequestFails(q) \/ IsFirst(q)
       \/ MakeInitial(q) \/ FillInitial(q) \/ Judge(q) \/ Pass(q) \/ CheckJoined(q)

Spec == Init /\ [][Next]_vars
=============================================================================
