---------------------------- MODULE NodeMetrics ----------------------------
(***************************************************************************)
(* What the cloudwatcher makes of the nodes it has seen: the figures of    *)
(* every role, by the aggregations of the second generation and by the     *)
(* metricsCollector of the first.  A figure is the sequence of numbers it  *)
(* is made of: a sum, a StatisticSet <<count, minimum, maximum, sum>>, or  *)
(* a numerator and a denominator.  The loads of 1, 5 and 15 minutes are    *)
(* treated alike and are one here.                                         *)
(*                                                                         *)
(* The nodes seen are a function from their positions in the answer to     *)
(* their stats; a part of them keeps the positions.                        *)
(* The stats of a node are a record [roles, vcpus, load, used, max, old,   *)
(* total, free, excluded]: old is <<>>, or <<used, max>> of the old pool   *)
(* of its heap.                                                            *)
(***************************************************************************)
EXTENDS Integers, Sequences, FiniteSets, FiniteSetsExt, Functions

StatsOK(n) ==
  /\ IsFiniteSet(n.roles)
  /\ {n.vcpus, n.load, n.used, n.max, n.total, n.free} \subseteq Nat
  /\ n.excluded \in BOOLEAN /\ n.old \in {<<>>} \cup (Nat \X Nat)

\* The role every node has, and that of nodes that have none.
HasRole(n, role) ==
  CASE role = "all" -> TRUE
    [] role = "coordinate" -> n.roles = {}
    [] OTHER -> role \in n.roles

RolesOf(s) ==
  UNION {{"all"} \cup (IF s[i].roles = {} THEN {"coordinate"} ELSE s[i].roles) : i \in DOMAIN s}

InRole(s, role) == Restrict(s, {i \in DOMAIN s : HasRole(s[i], role)})

\* (mutant) The figures of the disks are those of all nodes.
Everywhere(s) == s

DataNodes(s) == InRole(s, "data")

-----------------------------------------------------------------------------
(* The second generation.  A series has a sample for each of its nodes.    *)

Total(d) == SumFunction(d)

StatsData(d) == <<Cardinality(DOMAIN d), Min(Range(d)), Max(Range(d)), Total(d)>>

Series(s, F(_)) == [i \in DOMAIN s |-> F(s[i])]

Load(n)     == n.load
VCPUs(n)    == n.vcpus
HeapUsed(n) == n.used
HeapMax(n)  == n.max
FSTotal(n)  == n.total
FSFree(n)   == n.free
FSUsed(n)   == n.total - n.free
Excluded(n) == IF n.excluded THEN 1 ELSE 0

\* A node without the pool counts as one of an empty pool.
OldUsed(n) == IF n.old = <<>> THEN 0 ELSE n.old[1]
OldMax(n)  == IF n.old = <<>> THEN 0 ELSE n.old[2]

UtilizationData(num, denom) == <<Total(num), Total(denom)>>

\* The aggregations over the old pool begin with the first node that has one.
FromOldPool(s) == Restrict(s, {i \in DOMAIN s : \E j \in DOMAIN s : j <= i /\ s[j].old # <<>>})

\* The names of the figures there always are.
Basic == {"CountNodes", "CountvCPU", "Load", "LoadUtilization", "CountExcludedFromAllocation",
          "JVMMaxBytes", "JVMUsedBytes", "JVMUtilization"}
OfDisks == {"FSTotalBytes", "FSAvailableBytes", "FSUtilization"}
OfPool  == {"JVMOldPoolMaxBytes", "JVMOldPoolUsedBytes", "JVMOldPoolUtilization"}

\* NodeStatsSlice.Aggregate: the figures by name; no samples, no figure.
Aggregate(s) ==
  LET disks == DataNodes(s)
      pool == FromOldPool(s)
      names == Basic \cup (IF DOMAIN disks = {} THEN {} ELSE OfDisks)
                     \cup (IF DOMAIN pool = {} THEN {} ELSE OfPool)
      figure(name) ==
        CASE name = "CountNodes" -> <<Cardinality(DOMAIN s)>>
          [] name = "CountvCPU" -> <<Total(Series(s, VCPUs))>>
          [] name = "Load" -> StatsData(Series(s, Load))
          [] name = "LoadUtilization" -> UtilizationData(Series(s, Load), Series(s, VCPUs))
          [] name = "CountExcludedFromAllocation" -> <<Total(Series(s, Excluded))>>
          [] name = "JVMMaxBytes" -> StatsData(Series(s, HeapMax))
          [] name = "JVMUsedBytes" -> StatsData(Series(s, HeapUsed))
          [] name = "JVMUtilization" -> UtilizationData(Series(s, HeapUsed), Series(s, HeapMax))
          [] name = "FSTotalBytes" -> StatsData(Series(disks, FSTotal))
          [] name = "FSAvailableBytes" -> StatsData(Series(disks, FSFree))
          [] name = "FSUtilization" -> UtilizationData(Series(disks, FSUsed), Series(disks, FSTotal))
          [] name = "JVMOldPoolMaxBytes" -> StatsData(Series(pool, OldMax))
          [] name = "JVMOldPoolUsedBytes" -> StatsData(Series(pool, OldUsed))
          [] name = "JVMOldPoolUtilization" ->
               UtilizationData(Series(pool, OldUsed), Series(pool, OldMax))
  IN [name \in names |-> figure(name)]

Utilizations == {"LoadUtilization", "JVMUtilization", "FSUtilization", "JVMOldPoolUtilization"}

\* Datum panics over a denominator of zero.
Panics(s) ==
  \E role \in RolesOf(s) : \E u \in Utilizations :
    LET figures == Aggregate(InRole(s, role)) IN u \in DOMAIN figures /\ figures[u][2] = 0

-----------------------------------------------------------------------------
(* The first generation: sums over all nodes of a role, where a node that  *)
(* holds no data has zeroes for its disk and is not excluded.              *)

OfData(n, x) == IF "data" \in n.roles THEN x ELSE 0

\* metricsCollector.Metrics after Add of every node.
Metrics(s) ==
  LET sum(F(_)) == Total(Series(s, F))
      disk(n) == OfData(n, n.total)
      free(n) == OfData(n, n.free)
      excluded(n) == OfData(n, Excluded(n))
      names == {"CountNodes", "CountvCPU", "Load", "LoadUtilization",
                "CountExcludedFromAllocation", "JVMTotal", "JVMUsed", "JVMUtilization"}
               \cup (IF \E i \in DOMAIN s : disk(s[i]) # 0
                    THEN {"FSMaxBytes", "FSAvailableBytes", "FSUtilization"} ELSE {})
               \cup (IF \E i \in DOMAIN s : s[i].old # <<>>
                    THEN {"JVMOldPoolMax", "JVMOldPoolUsed", "JVMOldPoolUtilization"} ELSE {})
      figure(name) ==
        CASE name = "CountNodes" -> <<Cardinality(DOMAIN s)>>
          [] name = "CountvCPU" -> <<sum(VCPUs)>>
          [] name = "Load" -> <<sum(Load)>>
          [] name = "LoadUtilization" -> <<sum(Load), sum(VCPUs)>>
          [] name = "CountExcludedFromAllocation" -> <<sum(excluded)>>
          [] name = "JVMTotal" -> <<sum(HeapMax)>>
          [] name = "JVMUsed" -> <<sum(HeapUsed)>>
          [] name = "JVMUtilization" -> <<sum(HeapUsed), sum(HeapMax)>>
          [] name = "FSMaxBytes" -> <<sum(disk)>>
          [] name = "FSAvailableBytes" -> <<sum(free)>>
          [] name = "FSUtilization" -> <<sum(disk) - sum(free), sum(disk)>>
          [] name = "JVMOldPoolMax" -> <<sum(OldMax)>>
          [] name = "JVMOldPoolUsed" -> <<sum(OldUsed)>>
          [] name = "JVMOldPoolUtilization" -> <<sum(OldUsed), sum(HeapMax)>>
  IN [name \in names |-> figure(name)]

-----------------------------------------------------------------------------

\* The figures both generations report, but for those of excluded nodes and of the
\* old pool, which they mean differently: the sum of a figure, or its fraction.
Common == {"CountNodes", "CountvCPU", "Load", "LoadUtilization", "JVMUtilization",
           "FSAvailableBytes", "FSUtilization"}

Value(figure) == IF Len(figure) = 4 THEN <<figure[4]>> ELSE figure

\* The generations agree about s: on which of the common figures there are, and on
\* their values.
Agree(s) ==
  \A role \in RolesOf(s) :
    LET one == Metrics(InRole(s, role))
        two == Aggregate(InRole(s, role))
    IN /\ Common \cap DOMAIN one = Common \cap DOMAIN two
       /\ \A name \in Common \cap DOMAIN one : one[name] = Value(two[name])
=============================================================================
