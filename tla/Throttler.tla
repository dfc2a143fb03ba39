----------------------------- MODULE Throttler -----------------------------
(***************************************************************************)
(* The throttler (v2/internal/app/throttler): a loop that reads the state  *)
(* of the Elasticsearch cluster and of some ECS services, and resumes or   *)
(* suspends the reaction to alarms of every AutoScaling group.  Each group *)
(* has an AutoScalingGroupEnabler, a state machine that remembers what was *)
(* last requested.  Any error ends the process, which is started again.    *)
(***************************************************************************)
EXTENDS Naturals

CONSTANTS
  Group,         \* the AutoScaling groups
  Service,       \* the ECS services
  MaxFailures,   \* bound: failed requests and kills of the process
  MaxMeddling    \* bound: changes of a group by somebody else

\* What is looked at: /_cluster/health (not red, nothing relocating),
\* /_cat/recovery (nothing recovering from store), the deployments of a service.
ClusterRead == {"health", "recovery"}
Condition   == ClusterRead \cup Service

ASSUME ConditionsAssumption == ClusterRead \cap Service = {}
ASSUME BoundsAssumption == MaxFailures \in Nat /\ MaxMeddling \in Nat

VARIABLES
  bad,         \* the conditions that do not hold now
  suspended,   \* the groups whose AlarmNotification process is suspended
  dryRun,      \* the flag
  \* The process.
  pc,          \* where Main is
  todo,        \* requests and groups still to come in this phase
  good,        \* the verdict of this round
  fsm,         \* the state of each enabler
  \* Bookkeeping.
  failures, meddling,
  touched,     \* groups changed by somebody else behind the back of their enabler
  wasGood      \* conditions that held at some time in this round

world   == <<bad, suspended, dryRun>>
process == <<pc, todo, good, fsm>>
counts  == <<failures, meddling>>
vars    == <<world, process, counts, touched, wasGood>>

TypeOK ==
  /\ bad \subseteq Condition /\ suspended \subseteq Group /\ dryRun \in BOOLEAN
  /\ pc \in {"boot", "tick", "cluster", "services", "act"}
  /\ todo \subseteq Condition \cup Group
  /\ good \in BOOLEAN
  /\ fsm \in [Group -> {"enabled", "disabled"}]
  /\ failures \in 0..MaxFailures /\ meddling \in 0..MaxMeddling
  /\ touched \subseteq Group /\ wasGood \subseteq Condition

\* The process (re)starts: every enabler is "enabled" until its group is described.
Restart ==
  /\ pc' = "boot" /\ todo' = Group /\ good' = TRUE
  /\ fsm' = [g \in Group |-> "enabled"]
  /\ wasGood' = {}

Init ==
  /\ bad \in SUBSET Condition /\ suspended \in SUBSET Group /\ dryRun \in BOOLEAN
  /\ pc = "boot" /\ todo = Group /\ good = TRUE
  /\ fsm = [g \in Group |-> "enabled"]
  /\ failures = 0 /\ meddling = 0 /\ touched = {} /\ wasGood = {}

-----------------------------------------------------------------------------
(* The world.                                                              *)

Change(c) ==
  /\ bad' = IF c \in bad THEN bad \ {c} ELSE bad \cup {c}
  /\ wasGood' = IF c \in bad THEN wasGood \cup {c} ELSE wasGood
  /\ UNCHANGED <<suspended, dryRun, process, counts, touched>>

\* Somebody else suspends or resumes the process of a group.
Meddle(g) ==
  /\ meddling < MaxMeddling /\ meddling' = meddling + 1
  /\ suspended' = IF g \in suspended THEN suspended \ {g} ELSE suspended \cup {g}
  /\ touched' = touched \cup {g}
  /\ UNCHANGED <<bad, dryRun, process, failures, wasGood>>

-----------------------------------------------------------------------------
(* Main.                                                                   *)

\* (mutant) The suspended processes of a group are not looked at.
DescribeGroupAsEnabled(g) ==
  /\ pc = "boot" /\ g \in todo
  /\ todo' = todo \ {g}
  /\ pc' = IF todo' = {} THEN "tick" ELSE pc
  /\ touched' = touched \ {g}
  /\ UNCHANGED <<world, good, fsm, counts, wasGood>>

\* NewAutoScalingGroupEnabler: the state machine starts where the group is.
DescribeGroup(g) ==
  /\ pc = "boot" /\ g \in todo
  /\ fsm' = [fsm EXCEPT ![g] = IF g \in suspended THEN "disabled" ELSE "enabled"]
  /\ todo' = todo \ {g}
  /\ pc' = IF todo' = {} THEN "tick" ELSE pc
  /\ touched' = touched \ {g}
  /\ UNCHANGED <<world, good, counts, wasGood>>

\* Take the next tick and send the two requests of ElasticsearchStateGetter.Get.
Tick ==
  /\ pc = "tick"
  /\ pc' = "cluster" /\ todo' = ClusterRead /\ good' = TRUE
  /\ wasGood' = Condition \ bad
  /\ UNCHANGED <<world, fsm, counts, touched>>

\* They are answered in any order.
ReadCluster(c) ==
  /\ pc = "cluster" /\ c \in todo \cap ClusterRead
  /\ good' = (good /\ c \notin bad)
  /\ \/ todo # {c} /\ pc' = pc /\ todo' = todo \ {c}
     \/ todo = {c} /\ pc' = "services" /\ todo' = Service
  /\ UNCHANGED <<world, fsm, counts, touched, wasGood>>

\* (mutant) The last service decides.
ReadServiceLast(s) ==
  /\ pc = "services" /\ s \in todo \cap Service
  /\ good' = (s \notin bad)
  /\ todo' = todo \ {s}
  /\ UNCHANGED <<world, pc, fsm, counts, touched, wasGood>>

ReadService(s) ==
  /\ pc = "services" /\ s \in todo \cap Service
  /\ good' = (good /\ s \notin bad)
  /\ todo' = todo \ {s}
  /\ UNCHANGED <<world, pc, fsm, counts, touched, wasGood>>

Decided ==
  /\ pc = "services" /\ todo = {}
  /\ pc' = "act" /\ todo' = Group
  /\ UNCHANGED <<world, good, fsm, counts, touched, wasGood>>

\* (mutant) The event is taken for the state it leads to.
VerdictEvent == IF good THEN "enable" ELSE "disable"

\* The state the enablers shall be in.
Verdict == IF good THEN "enabled" ELSE "disabled"

\* The request an enabler sends before it changes its state.
Request(g) ==
  IF dryRun THEN UNCHANGED suspended
  ELSE suspended' = IF good THEN suspended \ {g} ELSE suspended \cup {g}

\* (mutant) The groups share one state machine.
SetGroupShared(g) ==
  /\ pc = "act" /\ g \in todo
  /\ todo' = todo \ {g} /\ fsm' = [fsm EXCEPT ![g] = Verdict]
  /\ IF \E h \in Group : fsm[h] = Verdict THEN UNCHANGED <<suspended, touched>>
                           ELSE Request(g) /\ touched' = touched \ {g}
  /\ UNCHANGED <<bad, dryRun, pc, good, counts, wasGood>>

\* Enable or Disable; an enabler that is in the state asked for does nothing.
SetGroup(g) ==
  /\ pc = "act" /\ g \in todo
  /\ todo' = todo \ {g} /\ fsm' = [fsm EXCEPT ![g] = Verdict]
  /\ IF fsm[g] = Verdict THEN UNCHANGED <<suspended, touched>>
                         ELSE Request(g) /\ touched' = touched \ {g}
  /\ UNCHANGED <<bad, dryRun, pc, good, counts, wasGood>>

Done ==
  /\ pc = "act" /\ todo = {}
  /\ pc' = "tick"
  /\ UNCHANGED <<world, todo, good, fsm, counts, touched, wasGood>>

\* The process is killed, or ends because a request failed; the request of an
\* enabler may have been carried out all the same.
Fatal ==
  /\ failures < MaxFailures /\ failures' = failures + 1
  /\ \/ UNCHANGED suspended
     \/ \E g \in todo \cap Group : pc = "act" /\ fsm[g] # Verdict /\ Request(g)
  /\ Restart
  /\ UNCHANGED <<bad, dryRun, meddling, touched>>

Main ==
  \/ Tick \/ Decided \/ Done
  \/ \E g \in Group : DescribeGroup(g) \/ SetGroup(g)
  \/ \E c \in ClusterRead : ReadCluster(c)
  \/ \E s \in Service : ReadService(s)

Next ==
  \/ Main \/ Fatal
  \/ \E c \in Condition : Change(c)
  \/ \E g \in Group : Meddle(g)

Spec == Init /\ [][Next]_vars

\* Ticks come and requests are answered.
FairSpec == Spec /\ WF_vars(Main)
-----------------------------------------------------------------------------
(* What the throttler guarantees.                                          *)

\* The state of an enabler is the state of its group, as the comment on the type
\* assumes (asg_enabler.go:19-23), whatever requests failed or were carried out
\* without an answer, unless somebody else changed the group since.
Described(g) == pc = "boot" => g \notin todo

EnablersAreFaithful ==
  ~dryRun => \A g \in Group \ touched :
    Described(g) => (fsm[g] = "disabled" <=> g \in suspended)

\* At the end of a round every group is as the verdict wants it (app.go:194-216),
\* those included that needed no request.
GroupsFollowVerdict ==
  ~dryRun /\ pc = "act" /\ todo = {} =>
    \A g \in Group \ touched : g \in suspended <=> ~good

\* The throttler resumes scaling only if each condition, cluster and every service,
\* held at some time since the tick that started the round (app.go:144-192).
ResumeJustified ==
  [][\A g \in Group : g \in suspended /\ g \notin suspended' /\ meddling' = meddling
       => wasGood = Condition]_vars

\* A condition that fails for good suspends every group in the end; when all hold
\* for good every group is resumed in the end: also after failures and restarts
\* in the middle of a round, if nobody else interferes.
SuspendsWhenBad ==
  \A c \in Condition :
    ~dryRun /\ <>[](c \in bad /\ touched = {}) => <>[](suspended = Group)

ResumesWhenGood ==
  ~dryRun /\ <>[](bad = {} /\ touched = {}) => <>[](suspended = {})
=============================================================================
