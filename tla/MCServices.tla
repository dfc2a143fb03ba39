---------------------------- MODULE MCServices ----------------------------
(***************************************************************************)
(* Instances for TLC of the programs, and parts of programs, that are      *)
(* modelled by their safety alone.  They share nothing: the initial state  *)
(* says which one runs, and the others stay as they are.  "launches" is    *)
(* the lifecycler with events that are launches and one heartbeat more: a  *)
(* count that is ahead of the heartbeats recorded then lets one be         *)
(* rejected.                                                               *)
(***************************************************************************)
EXTENDS Postponer, FiniteSets, FiniteSetsExt, TLC

CONSTANTS
  Node, Launches, Master, Handler, Free, MaxBeats, MaxSent, MaxFaults, Tries,
  HeartbeatTimeout, CommBuffer, MaxCount,
  Width, Policy, History, Start, Horizon, MaxFailures,
  Window, MaxLate, MaxJobs,
  Size, Cluster, Round, BatchSize,
  Request

VARIABLES
  program,
  members, holders, excluded, voting, launching, action, beats, queue, sent, leaving,
  votingLock, votingCount, handler, msg, count, why, fetched, leaked, faults,
  qMembers, qHolders, names, try, query, state, qAnswer, had, qResult,
  kNow, kStatus, kDeadline, kCount, kDue, check, beat, kResult,
  sNow, config, repo, loop, sDue, todo, failures,
  wNow, delete, wRepo, next, job, old, wTodo, made, wFailures,
  generation, stats, live, cache, ended, round, seen, pushed,
  joined, nodeName, initialShards, doneOnce, probe, shards, ready

L == INSTANCE Lifecycler WITH ctxDone <- leaving, pc <- handler
B == INSTANCE Lifecycler WITH ctxDone <- leaving, pc <- handler, MaxBeats <- MaxBeats + 1
Q == INSTANCE NodesQuery WITH members <- qMembers, holders <- qHolders, pc <- query,
                              answer <- qAnswer, result <- qResult
K == INSTANCE KeepAlive WITH now <- kNow, status <- kStatus, deadline <- kDeadline,
                             count <- kCount, due <- kDue, result <- kResult
S == INSTANCE Snapshooter WITH now <- sNow, pc <- loop, due <- sDue
W == INSTANCE Windows WITH now <- wNow, repo <- wRepo, todo <- wTodo, failures <- wFailures
C == INSTANCE Cloudwatcher WITH pc <- round
H == INSTANCE Health WITH pc <- probe

postponer    == <<now, hookTimeout, status, deadline, pc, timeout, due, globalDue,
                  answer, ctxDone, result>>
lifecycler   == <<members, holders, excluded, voting, launching, action, beats, queue, sent,
                  leaving, votingLock, votingCount, handler, msg, count, why, fetched,
                  leaked, faults>>
nodesQuery   == <<qMembers, qHolders, names, try, query, state, qAnswer, had, qResult>>
keepAlive    == <<kNow, kStatus, kDeadline, kCount, kDue, check, beat, kResult>>
snapshooter  == <<sNow, config, repo, loop, sDue, todo, failures>>
windows      == <<wNow, delete, wRepo, next, job, old, wTodo, made, wFailures>>
cloudwatcher == <<generation, stats, live, cache, ended, round, seen, pushed>>
health       == <<joined, nodeName, initialShards, doneOnce, probe, shards, ready>>
services     == <<program, postponer, lifecycler, nodesQuery, keepAlive, snapshooter,
                  windows, cloudwatcher, health>>

\* A part that does not run has one initial state.
ServicesInit ==
  /\ program \in {"postponer", "lifecycler", "launches", "nodesQuery", "keepAlive",
                  "snapshooter", "windows", "cloudwatcher", "health"}
  /\ Init
  /\ L!Init /\ (launching # {}) = (program = "launches")
  /\ Q!Init /\ (program = "nodesQuery" \/ (qMembers = {} /\ names = {}))
  /\ K!Init /\ (program = "keepAlive" \/ (kNow = 0 /\ kCount = 0))
  /\ S!Init /\ (program = "snapshooter" \/ (repo = {} /\ config = CHOOSE c \in Policy : TRUE))
  /\ W!Init /\ (program = "windows" \/ (wNow = 0 /\ ~delete))
  /\ H!Init
  /\ C!Init
  /\ \/ program = "cloudwatcher"
     \/ /\ generation = 1 /\ live = [n \in 1..Size |-> 0]
        /\ stats = CHOOSE c \in Cluster : TRUE

ServicesNext ==
  \/ /\ program = "postponer" /\ Next
     /\ UNCHANGED <<program, lifecycler, nodesQuery, keepAlive, snapshooter, windows,
                    cloudwatcher, health>>
  \/ /\ program = "lifecycler" /\ L!Next
     /\ UNCHANGED <<program, postponer, nodesQuery, keepAlive, snapshooter, windows,
                    cloudwatcher, health>>
  \/ /\ program = "launches" /\ B!Next
     /\ UNCHANGED <<program, postponer, nodesQuery, keepAlive, snapshooter, windows,
                    cloudwatcher, health>>
  \/ /\ program = "nodesQuery" /\ Q!Next
     /\ UNCHANGED <<program, postponer, lifecycler, keepAlive, snapshooter, windows,
                    cloudwatcher, health>>
  \/ /\ program = "keepAlive" /\ K!Next
     /\ UNCHANGED <<program, postponer, lifecycler, nodesQuery, snapshooter, windows,
                    cloudwatcher, health>>
  \/ /\ program = "snapshooter" /\ S!Next
     /\ UNCHANGED <<program, postponer, lifecycler, nodesQuery, keepAlive, windows,
                    cloudwatcher, health>>
  \/ /\ program = "windows" /\ W!Next
     /\ UNCHANGED <<program, postponer, lifecycler, nodesQuery, keepAlive, snapshooter,
                    cloudwatcher, health>>
  \/ /\ program = "cloudwatcher" /\ C!Next
     /\ UNCHANGED <<program, postponer, lifecycler, nodesQuery, keepAlive, snapshooter,
                    windows, health>>
  \/ /\ program = "health" /\ H!Next
     /\ UNCHANGED <<program, postponer, lifecycler, nodesQuery, keepAlive, snapshooter,
                    windows, cloudwatcher>>

ServicesSpec == ServicesInit /\ [][ServicesNext]_services

-----------------------------------------------------------------------------
(* Values of the constants.                                                *)

WidthTwo == <<4, 8>>

\* At most one bucket of each width.
R == INSTANCE Retention WITH Width <- WidthTwo
PolicyAny == R!Configs(1)

\* A few snapshots at any times before the first boot, older than the policy spans too.
HistoryAny == UNION {kSubset(k, 1..Start) : k \in 0..2}

WindowsTwo == {[every |-> 4, keepFor |-> 4], [every |-> 6, keepFor |-> 9]}

\* Nodes of different roles and figures, one of a disk that is not there.
Small == [roles |-> {"data", "master"}, vcpus |-> 2, load |-> 1, used |-> 1, max |-> 2,
          old |-> <<1, 2>>, total |-> 4, free |-> 1, excluded |-> FALSE]
Large == [Small EXCEPT !.vcpus = 4, !.load = 3, !.max = 3, !.free = 4, !.old = <<>>,
                       !.excluded = TRUE]
NoDisk == [Small EXCEPT !.roles = {"data"}, !.total = 0, !.free = 0]
Coordinator == [Small EXCEPT !.roles = {}, !.used = 2]
Clusters == {<<Small, Large>>, <<Coordinator, Large>>, <<Small, NoDisk>>}

\* They are values the parts are meant for.
ASSUME ParametersFit ==
  /\ L!ParametersOK /\ B!ParametersOK /\ K!CommBufferCovers /\ Q!ParametersOK
  /\ S!ParametersOK /\ W!WindowsOK /\ C!ParametersOK

\* Handlers, requests and rounds belong to different programs and are swapped together.
Swaps(set) == {p \in Permutations(set) : \A x \in set : p[x] # x}
Symmetry ==
  Permutations(Node) \cup
    {p @@ q @@ r : p \in Swaps(Handler), q \in Swaps(Request), r \in Swaps(Round)}

-----------------------------------------------------------------------------
(* The properties of the parts.                                            *)

\* Every variable of the part that runs keeps its type.
TypesOK ==
  /\ program = "postponer"    => TypeOK
  /\ program = "lifecycler"   => L!TypeOK
  /\ program = "launches"    => B!TypeOK
  /\ program = "nodesQuery"   => Q!TypeOK
  /\ program = "keepAlive"    => K!TypeOK
  /\ program = "snapshooter"  => S!TypeOK
  /\ program = "windows"      => W!TypeOK
  /\ program = "cloudwatcher" => C!TypeOK
  /\ program = "health"       => H!TypeOK

\* Lifecycler: no node loses its voting exclusion while its handler waits.
VotingKept == L!VotingKept

\* Lifecycler: the last handler to clean up clears the voting exclusions.
VotingCleared == L!VotingCleared

\* Lifecycler: a message is given up only when its action is over or can proceed.
NeverForgotten ==
  [][\A n \in Node : /\ program = "lifecycler"  => L!GivenUpWhenOver(n)
                     /\ program = "launches"   => B!GivenUpWhenOver(n)]_services

\* NodesQuery: a node that is returned without shards had none.
ShardsAreTold == Q!ShardsAreTold

\* KeepAlive: the action does not expire before its first heartbeat, nor between two checks.
KeptUntilCheck == K!KeptUntilCheck

\* Snapshooter: the newest snapshot is never deleted.
NewestSurvives == S!NewestSurvives

\* Snapshooter: the recent snapshots are kept whole.
RecentSurvive == S!RecentSurvive

\* Snapshooter: a deletion opens no gap wider than its bucket.
NoGapOpens == S!NoGapOpens

\* Windows: what a window asks to keep is in the repository.
WantedAreKept == W!WantedAreKept

\* Windows: no time of a window that is still to come is passed over.
NothingSkipped == W!NothingSkipped

\* Windows: a goroutine that ends has deleted what it listed and no window asked for.
OldSnapshotsGo == W!OldSnapshotsGo

\* Cloudwatcher: nodes meet their own instances.
PairingHolds == C!PairingHolds

\* Cloudwatcher: each figure is pushed once and means the same in both generations.
PushedFigures == C!PushedFigures
=============================================================================
