----------------------------- MODULE LoopsProofs -----------------------------
(***************************************************************************)
(* The safety properties of the throttler, for any groups and services and *)
(* any number of failures and of interventions; and that the sum of the    *)
(* two loops, which TLC runs, has those of the throttler and the ones that *)
(* DispatcherProofs shows of the dispatcher.                               *)
(***************************************************************************)
EXTENDS MCLoops, FiniteSets, TLAPS

\* The theorems about the dispatcher, for the part of the sum that is one.
DP == INSTANCE DispatcherProofs

\* What is still to come is of the kind the phase deals with.
Phase ==
  /\ pc \in {"boot", "act"} => todo \subseteq Group
  /\ pc = "cluster" => todo \subseteq ClusterRead /\ todo # {}
  /\ pc = "services" => todo \subseteq Service

\* What holds now held at some time in this round.
Watched == pc \in {"cluster", "services", "act"} => Condition \ bad \subseteq wasGood

\* A verdict that is still good rests on conditions that held when they were read.
Grounded ==
  good =>
    /\ pc = "cluster" => ClusterRead \ todo \subseteq wasGood
    /\ pc = "services" => ClusterRead \cup (Service \ todo) \subseteq wasGood
    /\ pc = "act" => wasGood = Condition

\* The enablers dealt with are in the state of the verdict.
Commanded == pc = "act" => \A g \in Group \ todo : fsm[g] = Verdict

IInv == TypeOK /\ Phase /\ Watched /\ Grounded /\ Commanded /\ EnablersAreFaithful

-----------------------------------------------------------------------------

LEMMA InitIInv == Init => IInv
BY BoundsAssumption
   DEF Init, IInv, TypeOK, Phase, Watched, Grounded, Commanded, EnablersAreFaithful, Described

\* Requests change only the group they are for, into what the verdict wants.
LEMMA RequestEffect ==
  ASSUME IInv, NEW g \in Group, Request(g)
  PROVE  /\ suspended' \subseteq Group
         /\ \A h \in Group \ {g} : h \in suspended' <=> h \in suspended
         /\ dryRun => suspended' = suspended
         /\ ~dryRun => (g \in suspended' <=> Verdict = "disabled")
BY DEF IInv, TypeOK, Request, Verdict

LEMMA RestartIInv ==
  ASSUME Restart, suspended' \subseteq Group, bad' \subseteq Condition, dryRun' \in BOOLEAN,
         failures' \in 0..MaxFailures, meddling' \in 0..MaxMeddling, touched' \subseteq Group
  PROVE  IInv'
BY DEF Restart, IInv, TypeOK, Phase, Watched, Grounded, Commanded, EnablersAreFaithful, Described

LEMMA FatalKeepsIInv == ASSUME IInv, Fatal PROVE IInv'
<1>1. suspended' \subseteq Group
  <2>1. CASE UNCHANGED suspended
    BY <2>1 DEF IInv, TypeOK
  <2>2. CASE \E g \in todo \cap Group : Request(g)
    BY <2>2, RequestEffect
  <2>. QED
    BY <2>1, <2>2 DEF Fatal
<1>2. failures' \in 0..MaxFailures
  BY BoundsAssumption DEF Fatal, IInv, TypeOK
<1>. QED
  BY <1>1, <1>2, RestartIInv DEF Fatal, IInv, TypeOK

\* The steps of the world.
LEMMA WorldKeepsIInv ==
  ASSUME IInv, (\E c \in Condition : Change(c)) \/ (\E g \in Group : Meddle(g))
  PROVE  IInv'
<1>. USE DEF IInv, process, counts
<1>1. ASSUME NEW c \in Condition, Change(c)
      PROVE  IInv'
  <2>1. TypeOK'
    BY <1>1 DEF Change, TypeOK
  <2>2. Phase' /\ Commanded' /\ EnablersAreFaithful'
    BY <1>1 DEF Change, Phase, Commanded, Verdict, EnablersAreFaithful, Described
  <2>3. wasGood \subseteq wasGood' /\ wasGood' \subseteq Condition
    BY <1>1 DEF Change, TypeOK
  <2>4. Grounded' /\ Watched'
    BY <1>1, <2>3 DEF Change, Grounded, Watched, TypeOK
  <2>. QED
    BY <2>1, <2>2, <2>4
<1>2. ASSUME NEW g \in Group, Meddle(g)
      PROVE  IInv'
  <2>1. TypeOK'
    BY <1>2, BoundsAssumption DEF Meddle, TypeOK
  <2>2. Phase' /\ Watched' /\ Grounded' /\ Commanded'
    BY <1>2 DEF Meddle, Phase, Watched, Grounded, Commanded, Verdict
  <2>3. EnablersAreFaithful'
    BY <1>2 DEF Meddle, EnablersAreFaithful, Described
  <2>. QED
    BY <2>1, <2>2, <2>3
<1>. QED
  BY <1>1, <1>2

\* The steps of the loop that read.
LEMMA ReadingKeepsIInv ==
  ASSUME IInv, \/ Tick \/ Decided \/ Done
               \/ \E c \in ClusterRead : ReadCluster(c)
               \/ \E s \in Service : ReadService(s)
  PROVE  IInv'
<1>. USE DEF IInv, world, counts
<1>1. CASE Tick
  <2>1. TypeOK'
    BY <1>1 DEF Tick, TypeOK, Condition
  <2>. QED
    BY <1>1, <2>1 DEF Tick, Phase, Watched, Grounded, Commanded, EnablersAreFaithful, Described, ClusterRead
<1>2. CASE Decided
  <2>1. TypeOK'
    BY <1>2 DEF Decided, TypeOK
  <2>2. good => wasGood = Condition
    BY <1>2 DEF Decided, Grounded, TypeOK, Condition
  <2>. QED
    BY <1>2, <2>1, <2>2 DEF Decided, Phase, Watched, Grounded, Commanded, EnablersAreFaithful, Described
<1>3. CASE Done
  BY <1>3 DEF Done, TypeOK, Phase, Watched, Grounded, Commanded, EnablersAreFaithful, Described
<1>4. ASSUME NEW c \in ClusterRead, ReadCluster(c)
      PROVE  IInv'
  <2>1. TypeOK'
    BY <1>4 DEF ReadCluster, TypeOK, Condition
  <2>2. Phase' /\ Watched' /\ Commanded' /\ EnablersAreFaithful'
    BY <1>4 DEF ReadCluster, Phase, Watched, Commanded, EnablersAreFaithful, Described
  <2>3. good' => good /\ c \in wasGood
    <3>1. c \notin bad => c \in wasGood
      BY <1>4 DEF ReadCluster, Watched, Condition
    <3>. QED
      BY <1>4, <3>1 DEF ReadCluster
  <2>4. Grounded'
    BY <1>4, <2>3 DEF ReadCluster, Grounded, Phase
  <2>. QED
    BY <2>1, <2>2, <2>4
<1>5. ASSUME NEW s \in Service, ReadService(s)
      PROVE  IInv'
  <2>1. TypeOK'
    BY <1>5 DEF ReadService, TypeOK, Condition
  <2>2. Phase' /\ Watched' /\ Commanded' /\ EnablersAreFaithful'
    BY <1>5 DEF ReadService, Phase, Watched, Commanded, EnablersAreFaithful, Described
  <2>3. Grounded'
    BY <1>5 DEF ReadService, Grounded, Phase, Watched, Condition
  <2>. QED
    BY <2>1, <2>2, <2>3
<1>. QED
  BY <1>1, <1>2, <1>3, <1>4, <1>5

\* The steps that describe a group, or bring it to the verdict.
LEMMA GroupKeepsIInv ==
  ASSUME IInv, NEW g \in Group, DescribeGroup(g) \/ SetGroup(g)
  PROVE  IInv'
<1>. USE DEF IInv, world, counts
<1>1. CASE DescribeGroup(g)
  <2>1. TypeOK'
    BY <1>1 DEF DescribeGroup, TypeOK
  <2>2. Phase' /\ Watched' /\ Grounded' /\ Commanded'
    BY <1>1 DEF DescribeGroup, Phase, Watched, Grounded, Commanded
  <2>3. EnablersAreFaithful'
    BY <1>1 DEF DescribeGroup, TypeOK, EnablersAreFaithful, Described
  <2>. QED
    BY <2>1, <2>2, <2>3
<1>2. CASE SetGroup(g)
  <2>1. suspended' \subseteq Group /\ touched' \subseteq Group
    BY <1>2, RequestEffect DEF SetGroup, TypeOK
  <2>2. TypeOK'
    BY <1>2, <2>1 DEF SetGroup, TypeOK, Verdict
  <2>3. Phase' /\ Watched' /\ Grounded' /\ Commanded'
    BY <1>2 DEF SetGroup, TypeOK, Phase, Watched, Grounded, Commanded, Verdict
  <2>4. EnablersAreFaithful'
    <3>1. Verdict \in {"enabled", "disabled"}
      BY DEF Verdict
    <3>2. CASE fsm[g] = Verdict
      BY <1>2, <3>2 DEF SetGroup, TypeOK, EnablersAreFaithful, Described
    <3>3. CASE fsm[g] # Verdict
      <4>1. Request(g) /\ touched' = touched \ {g} /\ dryRun' = dryRun /\ pc' = pc /\ pc = "act"
        BY <1>2, <3>3 DEF SetGroup
      <4>2. \A h \in Group \ {g} : fsm'[h] = fsm[h] /\ (h \in suspended' <=> h \in suspended)
        BY <1>2, <4>1, RequestEffect DEF SetGroup, TypeOK
      <4>3. ~dryRun => (fsm'[g] = "disabled" <=> g \in suspended')
        BY <1>2, <4>1, RequestEffect DEF SetGroup, TypeOK
      <4>. QED
        BY <4>1, <4>2, <4>3 DEF EnablersAreFaithful, Described
    <3>. QED
      BY <3>2, <3>3
  <2>. QED
    BY <2>2, <2>3, <2>4
<1>. QED
  BY <1>1, <1>2

LEMMA NextIInv == IInv /\ [Next]_vars => IInv'
<1>. SUFFICES ASSUME IInv, [Next]_vars PROVE IInv'
  OBVIOUS
<1>1. CASE UNCHANGED vars
  BY <1>1 DEF vars, world, process, counts, IInv, TypeOK, Phase, Watched, Grounded, Commanded,
              Verdict, EnablersAreFaithful, Described
<1>. QED
  BY <1>1, FatalKeepsIInv, WorldKeepsIInv, ReadingKeepsIInv, GroupKeepsIInv DEF Next, Main

LEMMA SpecIInv == Spec => []IInv
BY InitIInv, NextIInv, PTL DEF Spec

-----------------------------------------------------------------------------
\* Every variable keeps its type.
THEOREM TypeCorrect == Spec => []TypeOK
<1>1. IInv => TypeOK
  BY DEF IInv
<1>. QED
  BY <1>1, SpecIInv, PTL

\* Enablers and groups agree, whatever fails and whenever the process is killed,
\* but for groups that somebody else changed.
THEOREM EnablersFollowGroups == Spec => []EnablersAreFaithful
<1>1. IInv => EnablersAreFaithful
  BY DEF IInv
<1>. QED
  BY <1>1, SpecIInv, PTL

\* A round leaves every group as its verdict wants it.
THEOREM RoundsTakeEffect == Spec => []GroupsFollowVerdict
<1>1. IInv => GroupsFollowVerdict
  <2>. SUFFICES ASSUME IInv, ~dryRun, pc = "act", todo = {}, NEW g \in Group \ touched
                PROVE  g \in suspended <=> ~good
    BY DEF GroupsFollowVerdict
  <2>1. fsm[g] = Verdict
    BY DEF IInv, Commanded
  <2>2. fsm[g] = "disabled" <=> g \in suspended
    BY DEF IInv, EnablersAreFaithful, Described
  <2>. QED
    BY <2>1, <2>2 DEF Verdict, IInv, TypeOK
<1>. QED
  BY <1>1, SpecIInv, PTL

\* Scaling is resumed only on conditions that each held in the same round.
THEOREM ResumesAreJustified == Spec => ResumeJustified
<1>1. ASSUME IInv, [Next]_vars
      PROVE  [\A g \in Group : g \in suspended /\ g \notin suspended' /\ meddling' = meddling
                => wasGood = Condition]_vars
  <2>. SUFFICES ASSUME NEW g \in Group, g \in suspended, g \notin suspended', meddling' = meddling
                PROVE  wasGood = Condition
    OBVIOUS
  <2>1. ASSUME NEW h \in Group, pc = "act", Request(h)
        PROVE  wasGood = Condition
    <3>1. h = g /\ good
      BY <1>1, <2>1 DEF Request, IInv, TypeOK
    <3>. QED
      BY <1>1, <2>1, <3>1 DEF IInv, Grounded
  <2>2. CASE Fatal
    BY <2>1, <2>2 DEF Fatal
  <2>3. ASSUME NEW h \in Group, SetGroup(h)
        PROVE  wasGood = Condition
    BY <2>1, <2>3 DEF SetGroup
  <2>4. ASSUME NEW h \in Group, Meddle(h)
        PROVE  FALSE
    BY <1>1, <2>4 DEF Meddle, IInv, TypeOK
  <2>. QED
    BY <1>1, <2>2, <2>3, <2>4
       DEF Next, Main, vars, world, Tick, Decided, Done, DescribeGroup, ReadCluster, ReadService, Change
<1>. QED
  BY <1>1, SpecIInv, PTL DEF Spec, ResumeJustified

-----------------------------------------------------------------------------
(* The sum of the loops: each part does what its own specification says.   *)

LEMMA ThrottlerIsPart == LoopsSpec => Spec
<1>1. LoopsInit => Init
  BY DEF LoopsInit
<1>2. [LoopsNext]_loops => [Next]_vars
  BY DEF LoopsNext, loops, throttler, vars
<1>. QED
  BY <1>1, <1>2, PTL DEF LoopsSpec, Spec

LEMMA DispatcherIsPart == LoopsSpec => DP!Spec
<1>1. LoopsInit => DP!Init
  BY DEF LoopsInit, D!Init, DP!Init, D!ProcessInit, DP!ProcessInit, D!All, DP!All,
         D!Receipt, DP!Receipt
<1>2. D!Next = DP!Next
  BY DEF D!Receipt, DP!Receipt, D!MsgOf, DP!MsgOf, D!sqs, DP!sqs, D!receive, DP!receive,
         D!watch, DP!watch, D!vars, DP!vars, D!All, DP!All, D!ProcessInit, DP!ProcessInit,
         D!Restart, DP!Restart, D!Fault, DP!Fault, D!Visible, DP!Visible, D!Idle, DP!Idle,
         D!Fresh, DP!Fresh, D!Hide, DP!Hide, D!BelowLimit, DP!BelowLimit, D!NumToAsk,
         DP!NumToAsk, D!StartReceive, DP!StartReceive, D!AnswerReceive, DP!AnswerReceive,
         D!ReceiveFails, DP!ReceiveFails, D!TakeResults, DP!TakeResults, D!NextPeriod,
         DP!NextPeriod, D!TimerFires, DP!TimerFires, D!TakeNotice, DP!TakeNotice,
         D!AnswerUpdate, DP!AnswerUpdate, D!UpdateFails, DP!UpdateFails, D!HandlerReturns,
         DP!HandlerReturns, D!StopNotifier, DP!StopNotifier, D!TakeDone, DP!TakeDone,
         D!AnswerDelete, DP!AnswerDelete, D!DeleteFails, DP!DeleteFails, D!AtErrc,
         DP!AtErrc, D!TakeError, DP!TakeError, D!HandlerEnds, DP!HandlerEnds, D!WatchEnds,
         DP!WatchEnds, D!RunReturns, DP!RunReturns, D!Crash, DP!Crash, D!Ready, DP!Ready,
         D!Less, DP!Less, D!Tick, DP!Tick, D!Receiving, DP!Receiving, D!Reserving,
         DP!Reserving, D!Deleting, DP!Deleting, D!Ending, DP!Ending, D!Step, DP!Step,
         D!Next, DP!Next, D!Cardinality, DP!Cardinality
<1>3. [LoopsNext]_loops => [DP!Next]_(DP!vars)
  BY <1>2 DEF LoopsNext, loops, dispatcher, DP!vars, DP!sqs, DP!receive, DP!watch
<1>. QED
  BY <1>1, <1>3, PTL DEF LoopsSpec, DP!Spec

\* What the dispatcher assumes of its constants.
LEMMA Fits == IsFiniteSet(Message) => DP!DispatcherFits
BY DispatcherFits
DEF D!CommBufferCovers, DP!CommBufferCovers, DP!DispatcherFits, DP!IsFiniteSet, IsFiniteSet

\* Both parts keep their types.
THEOREM LoopsTypeCorrect == IsFiniteSet(Message) => (LoopsSpec => []LoopsTypeOK)
<1>. SUFFICES ASSUME IsFiniteSet(Message) PROVE LoopsSpec => []LoopsTypeOK
  OBVIOUS
<1>1. DP!Spec => []DP!TypeOK
  BY Fits, DP!TypeCorrect
<1>2. TypeOK /\ DP!TypeOK => LoopsTypeOK
  BY DEF LoopsTypeOK, D!TypeOK, DP!TypeOK, D!Receipt, DP!Receipt, D!MsgOf, DP!MsgOf
<1>. QED
  BY <1>1, <1>2, TypeCorrect, ThrottlerIsPart, DispatcherIsPart, PTL

\* No more handlers than MaxConcurrent, and no panic of the loop (squeues.go:177, 236).
THEOREM LoopsLimitHolds == IsFiniteSet(Message) => (LoopsSpec => []WithinLimit)
<1>. SUFFICES ASSUME IsFiniteSet(Message) PROVE LoopsSpec => []WithinLimit
  OBVIOUS
<1>1. DP!Spec => []DP!WithinLimit
  BY Fits, DP!LimitHolds
<1>2. DP!WithinLimit => WithinLimit
  BY DEF WithinLimit, D!WithinLimit, DP!WithinLimit, D!Cardinality, DP!Cardinality
<1>. QED
  BY <1>1, <1>2, DispatcherIsPart, PTL

\* No message is handed to a second handler before the first is done (squeues.go:96-97).
THEOREM LoopsStayReserved == IsFiniteSet(Message) => (LoopsSpec => []OneHandler)
<1>. SUFFICES ASSUME IsFiniteSet(Message) PROVE LoopsSpec => []OneHandler
  OBVIOUS
<1>1. DP!Spec => []DP!OneHandler
  BY Fits, DP!StaysReserved
<1>2. DP!OneHandler => OneHandler
  BY DEF OneHandler, D!OneHandler, DP!OneHandler, D!Receipt, DP!Receipt, D!MsgOf, DP!MsgOf
<1>. QED
  BY <1>1, <1>2, DispatcherIsPart, PTL
=============================================================================
