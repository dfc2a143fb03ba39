---------------------------- MODULE Cloudwatcher ----------------------------
(***************************************************************************)
(* The cloudwatcher, which at every tick reads the stats of the nodes from *)
(* Elasticsearch, describes their instances and pushes figures for each    *)
(* role to CloudWatch.  The second generation does one round after the     *)
(* other and pairs nodes with instances by their position in two sorted    *)
(* lists; the first starts a goroutine at each tick and pairs them by      *)
(* name.  Any error ends the process, which is started again.              *)
(***************************************************************************)
EXTENDS NodeMetrics, SequencesExt

CONSTANTS
  Size,         \* names of nodes are 1..Size, ids of their instances
  Cluster,      \* the stats the nodes may have: functions of their names
  Round,        \* goroutines of the first generation
  BatchSize     \* figures of one request

Name == 1..Size

\* There are nodes, and their stats are what NodeMetrics says.
ParametersOK ==
  /\ Size \in Nat \ {0} /\ BatchSize \in Nat \ {0}
  /\ \A c \in Cluster : \A n \in Name : StatsOK(c[n])

VARIABLES
  generation,
  stats,        \* the stats of each node
  live,         \* how often each name is listed in the cluster
  cache,        \* the instances in ec2Instances, or vcpuCache
  ended,        \* why the process ended, or "no"
  pc,           \* where each round is
  seen,         \* the names it got from Elasticsearch, in order
  pushed        \* the slices of its figures it pushed

round == <<pc, seen, pushed>>
vars  == <<generation, stats, live, cache, ended, round>>

TypeOK ==
  /\ generation \in {1, 2} /\ stats \in Cluster
  /\ live \in [Name -> 0..2] /\ cache \subseteq Name
  /\ ended \in {"no", "error", "inconsistent", "zero"}
  /\ pc \in [Round -> {"idle", "nodes", "instances", "settings", "mispaired", "push"}]
  /\ seen \in [Round -> Seq(Name)] /\ pushed \in [Round -> Seq(Nat \X Nat)]

Idle ==
  /\ pc = [r \in Round |-> "idle"]
  /\ seen = [r \in Round |-> <<>>] /\ pushed = [r \in Round |-> <<>>]

Init ==
  /\ generation \in {1, 2} /\ stats \in Cluster
  /\ live \in [Name -> {0, 1}]
  /\ cache = {} /\ ended = "no"
  /\ Idle

-----------------------------------------------------------------------------
(* The cluster, the caches and the process.                                *)

\* A node joins: it may be the one of an instance that started again, with the old
\* one not yet removed.
Join(n) ==
  /\ live[n] < 2
  /\ live' = [live EXCEPT ![n] = @ + 1]
  /\ UNCHANGED <<generation, stats, cache, ended, round>>

Leave(n) ==
  /\ live[n] > 0
  /\ live' = [live EXCEPT ![n] = @ - 1]
  /\ UNCHANGED <<generation, stats, cache, ended, round>>

\* An entry expires, or is given up for want of room.
Forget(n) ==
  /\ n \in cache /\ cache' = cache \ {n}
  /\ UNCHANGED <<generation, stats, live, ended, round>>

End(why) ==
  /\ ended' = why
  /\ pc' = [r \in Round |-> "idle"]
  /\ seen' = [r \in Round |-> <<>>] /\ pushed' = [r \in Round |-> <<>>]

StartAgain ==
  /\ ended # "no" /\ ended' = "no"
  /\ cache' = {}
  /\ UNCHANGED <<generation, stats, live, round>>

-----------------------------------------------------------------------------
(* A round.                                                                *)

\* A tick: the second generation takes it when it has finished a round.
Tick(r) ==
  /\ ended = "no" /\ pc[r] = "idle"
  /\ generation = 2 => \A q \in Round : pc[q] = "idle"
  /\ pc' = [pc EXCEPT ![r] = "nodes"]
  /\ UNCHANGED <<generation, stats, live, cache, ended, seen, pushed>>

\* The names in order, each as often as count says.
InOrder(count) == FlattenSeq([n \in Name |-> [i \in 1..count[n] |-> n]])

\* The nodes in the order of their names; in the first generation's map from names
\* to nodes there is one of each.
Listed == InOrder([n \in Name |-> IF generation = 1 /\ live[n] = 2 THEN 1 ELSE live[n]])

GetNodes(r) ==
  /\ pc[r] = "nodes"
  /\ seen' = [seen EXCEPT ![r] = Listed]
  /\ pc' = [pc EXCEPT ![r] = "instances"]
  /\ UNCHANGED <<generation, stats, live, cache, ended, pushed>>

Times(s, n) == Cardinality({i \in DOMAIN s : s[i] = n})

\* The instances with an entry in the cache, as often as they are asked for, and the
\* others, each once.
Cached(s)    == [n \in Name |-> IF n \in cache THEN Times(s, n) ELSE 0]
Described(s) == [n \in Name |-> IF n \notin cache /\ n \in ToSet(s) THEN 1 ELSE 0]

\* (mutant) What was described comes after what was in the cache.
InstancesInOrder(s) == InOrder(Cached(s)) \o InOrder(Described(s))

\* getInstances: sorted by their ids.
Instances(s) == InOrder([n \in Name |-> Cached(s)[n] + Described(s)[n]])

\* NewNodeStats finds every node next to its instance.
Paired(s) == IF generation = 1 THEN ToSet(s) \subseteq ToSet(Instances(s))
             ELSE /\ Len(Instances(s)) >= Len(s)
                  /\ \A i \in DOMAIN s : Instances(s)[i] = s[i]

\* The second generation asks for the settings before it finds out.
GetInstances(r) ==
  /\ pc[r] = "instances"
  /\ cache' = cache \cup ToSet(seen[r])
  /\ pc' = [pc EXCEPT ![r] = IF ~Paired(seen[r]) THEN "mispaired"
                             ELSE IF generation = 2 THEN "settings" ELSE "push"]
  /\ UNCHANGED <<generation, stats, live, ended, seen, pushed>>

\* The stats of the nodes of a round.
StatsOf(r) == [i \in DOMAIN seen[r] |-> stats[seen[r][i]]]

GetSettings(r) ==
  /\ pc[r] \in {"settings", "mispaired"}
  /\ IF pc[r] = "mispaired" THEN End("inconsistent")
     ELSE IF Panics(StatsOf(r)) THEN End("zero")
     ELSE pc' = [pc EXCEPT ![r] = "push"] /\ UNCHANGED <<ended, seen, pushed>>
  /\ UNCHANGED <<generation, stats, live, cache>>

\* How many figures there are to push, over all roles.
Figures(s) ==
  LET figures(role) == IF generation = 1 THEN Metrics(InRole(s, role))
                                         ELSE Aggregate(InRole(s, role))
  IN Cardinality(UNION {{role} \X DOMAIN figures(role) : role \in RolesOf(s)})

Pushed(r) == IF pushed[r] = <<>> THEN 0 ELSE Last(pushed[r])[2]

\* (mutant) The batches overlap.
BatchEndOver(i, n) == IF i + BatchSize > n THEN n ELSE i + BatchSize + 1

\* Where the batch ends that begins after the first i of n figures.
BatchEnd(i, n) == IF i + BatchSize > n THEN n ELSE i + BatchSize

PushBatch(r) ==
  /\ pc[r] = "push" /\ Pushed(r) < Figures(StatsOf(r))
  /\ pushed' = [pushed EXCEPT ![r] =
                  Append(@, <<Pushed(r), BatchEnd(Pushed(r), Figures(StatsOf(r)))>>)]
  /\ UNCHANGED <<generation, stats, live, cache, ended, pc, seen>>

Done(r) ==
  /\ pc[r] = "push" /\ Pushed(r) >= Figures(StatsOf(r))
  /\ pc' = [pc EXCEPT ![r] = "idle"]
  /\ seen' = [seen EXCEPT ![r] = <<>>] /\ pushed' = [pushed EXCEPT ![r] = <<>>]
  /\ UNCHANGED <<generation, stats, live, cache, ended>>

\* A request fails.
Fails(r) ==
  /\ pc[r] # "idle"
  /\ End("error")
  /\ UNCHANGED <<generation, stats, live, cache>>

Next ==
  \/ \E n \in Name : Join(n) \/ Leave(n) \/ Forget(n)
  \/ StartAgain
  \/ \E r \in Round :
       \/ Tick(r) \/ GetNodes(r) \/ GetInstances(r) \/ GetSettings(r)
       \/ PushBatch(r) \/ Done(r) \/ Fails(r)

Spec == Init /\ [][Next]_vars

-----------------------------------------------------------------------------

\* Nodes and instances come from two services at two times and through a cache, and
\* are paired by position (app.go:233): each node meets its own instance, whatever
\* joins, leaves or is forgotten, unless one name was listed for two nodes.
Twice(s) == \E i, j \in DOMAIN s : i # j /\ s[i] = s[j]
PairingHolds ==
  [][ended = "no" /\ ended' = "inconsistent"
       => \E r \in Round : pc[r] = "mispaired" /\ Twice(seen[r])]_vars

\* When a round ends without an error each of its figures was pushed once, in batches
\* of BatchSize at most, and both generations would have pushed the same ones, where
\* they mean the same and the second does not panic over disks of no size.
PushedFigures ==
  [][\A r \in Round : pc[r] = "push" /\ pc'[r] = "idle" /\ ended' = "no" =>
       /\ \A i \in DOMAIN pushed[r] : pushed[r][i][2] - pushed[r][i][1] \in 1..BatchSize
       /\ \A k \in 1..Figures(StatsOf(r)) :
            Cardinality({i \in DOMAIN pushed[r] : pushed[r][i][1] < k /\ k <= pushed[r][i][2]}) = 1
       /\ Agree(StatsOf(r)) \/ (generation = 1 /\ Panics(StatsOf(r)))]_vars
=============================================================================
