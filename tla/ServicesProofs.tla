---------------------------- MODULE ServicesProofs ----------------------------
(***************************************************************************)
(* How Postpone keeps its action from expiring early, and that it reports  *)
(* no timeout that is not one, for any timeouts and delays that satisfy    *)
(* TimingAssumption.  The sum of the services,                             *)
(* which TLC runs, has these properties; those of the query of nodes, of   *)
(* the snapshot windows, of the healthcheck and of the cloudwatcher, which *)
(* are proved here; and those that SnapshooterProofs, LifecyclerProofs and *)
(* KeepAliveProofs show of a part.                                         *)
(***************************************************************************)
EXTENDS MCServices, Sequences, FiniteSetTheorems, WellFoundedInduction, TLAPS

\* The hook is described before the first deadline.
Describing == pc = "describe" => now <= Delay /\ deadline = Timeout

\* The answer to a heartbeat comes within Lag of its timer, which is set no more than
\* a period before the deadline that the code believes in.
InTime ==
  pc \in {"await", "beat"} =>
    now <= due + Lag /\ timeout <= due + Timeout /\ globalDue >= Global

\* A heartbeat recorded, but not noticed yet, extends the action by a period from the
\* timer on, or up to the global timeout.
Extended ==
  pc = "beat" => due <= now /\ (answer = "recorded" => deadline >= Global \/ deadline >= due + Timeout)

\* The next timer fires before the group's deadline, or after it by what the answer to
\* the last heartbeat took.
Covered == pc = "await" => deadline >= Global \/ due <= deadline + Lag

\* A rejected heartbeat means that the action is over.
RejectedIsOver == pc = "beat" /\ answer = "rejected" => status # "active"

\* The result is there only once Postpone has returned.
ResultWhenDone == pc # "done" => result = "none"

IInv ==
  /\ TypeOK
  /\ Describing
  /\ InTime
  /\ Extended
  /\ Covered
  /\ RejectedIsOver
  /\ ResultWhenDone
  /\ TimeoutIsReal

-----------------------------------------------------------------------------
\* The timer fires half-way, in the future, give or take a tick.
LEMMA HalfWay ==
  ASSUME NEW t \in Nat, now \in Nat
  PROVE  /\ HalfWayTo(t) \in Nat /\ HalfWayTo(t) >= now
         /\ t <= now => HalfWayTo(t) = now
         /\ t > now => 2 * HalfWayTo(t) <= now + t /\ now + t <= 2 * HalfWayTo(t) + 1
BY DEF HalfWayTo

LEMMA InitIInv == Init => IInv
<1>. SUFFICES ASSUME Init PROVE IInv
  OBVIOUS
<1>1. TypeOK
  <2>1. Timeout \in Nat /\ hookTimeout \in Timeout..Longest
    BY TimingAssumption DEF Init
  <2>. QED
    BY <2>1 DEF Init, TypeOK
<1>2. Describing
  BY TimingAssumption DEF Init, Describing
<1>3. InTime /\ Extended /\ Covered /\ RejectedIsOver /\ ResultWhenDone /\ TimeoutIsReal
  BY DEF Init, InTime, Extended, Covered, RejectedIsOver, ResultWhenDone, TimeoutIsReal
<1>. QED
  BY <1>1, <1>2, <1>3 DEF IInv

\* The group's own steps.
LEMMA GroupKeepsIInv ==
  ASSUME IInv, Expire \/ CompletedElsewhere \/ Reconfigure \/ AnswerHeartbeat
  PROVE  IInv'
<1>. USE TimingAssumption DEF IInv, TypeOK
<1>1. CASE Expire \/ CompletedElsewhere
  BY <1>1 DEF Expire, CompletedElsewhere, Describing, InTime, Extended, Covered,
              RejectedIsOver, ResultWhenDone, TimeoutIsReal
<1>2. CASE Reconfigure
  BY <1>2 DEF Reconfigure, Describing, InTime, Extended, Covered,
              RejectedIsOver, ResultWhenDone, TimeoutIsReal
<1>3. CASE AnswerHeartbeat
  <2>1. TypeOK' /\ Describing' /\ InTime' /\ RejectedIsOver' /\ ResultWhenDone' /\ TimeoutIsReal'
    BY <1>3 DEF AnswerHeartbeat, Describing, InTime, RejectedIsOver, ResultWhenDone, TimeoutIsReal
  <2>2. Covered'
    BY <1>3 DEF AnswerHeartbeat, Covered
  <2>3. Extended'
    <3>1. answer' = "recorded" => deadline' = Global \/ deadline' = now + hookTimeout
      BY <1>3 DEF AnswerHeartbeat
    <3>. QED
      BY <1>3, <3>1 DEF AnswerHeartbeat, Extended
  <2>. QED
    BY <2>1, <2>2, <2>3
<1>. QED
  BY <1>1, <1>2, <1>3

\* Postpone's own steps.
LEMMA PostponeKeepsIInv ==
  ASSUME IInv,
         \/ Describe \/ SendHeartbeat \/ HeartbeatRecorded \/ HeartbeatRejected
         \/ GlobalTimeout \/ RequestFails \/ Cancel \/ Canceled
  PROVE  IInv'
<1>. USE TimingAssumption DEF IInv, TypeOK, aws
<1>1. CASE Describe
  <2>1. due' = HalfWayTo(Timeout) /\ timeout' = Timeout /\ now <= Delay /\ deadline = Timeout
    BY <1>1 DEF Describe, HalfWayTo, Describing
  <2>2. /\ due' \in Nat /\ due' >= now
        /\ 2 * due' <= now + Timeout /\ now + Timeout <= 2 * due' + 1
    BY <2>1, HalfWay
  <2>3. due' <= Timeout /\ Timeout <= due' + Timeout
    BY <2>1, <2>2
  <2>. QED
    BY <1>1, <2>1, <2>2, <2>3 DEF Describe, Describing, InTime, Extended, Covered,
          RejectedIsOver, ResultWhenDone, TimeoutIsReal
<1>2. CASE SendHeartbeat
  BY <1>2 DEF SendHeartbeat, Describing, InTime, Extended, Covered,
              RejectedIsOver, ResultWhenDone, TimeoutIsReal
<1>3. CASE HeartbeatRecorded
  <2>1. due' = HalfWayTo(timeout + Timeout) /\ timeout' = timeout + Timeout
    BY <1>3 DEF HeartbeatRecorded, HalfWayTo
  <2>2. due <= now /\ now <= due + Lag /\ timeout <= due + Timeout
    BY <1>3 DEF HeartbeatRecorded, InTime, Extended
  <2>3. /\ due' \in Nat /\ due' >= now
        /\ timeout' <= now => due' = now
        /\ timeout' > now => 2 * due' <= now + timeout' /\ now + timeout' <= 2 * due' + 1
    BY <2>1, HalfWay
  <2>4. due' <= due + Timeout + Lag /\ timeout' <= due' + Timeout
    BY <2>1, <2>2, <2>3
  <2>5. deadline >= Global \/ deadline >= due + Timeout
    BY <1>3 DEF HeartbeatRecorded, Extended
  <2>. QED
    BY <1>3, <2>1, <2>3, <2>4, <2>5 DEF HeartbeatRecorded, Describing, InTime, Extended, Covered,
          RejectedIsOver, ResultWhenDone, TimeoutIsReal
<1>4. CASE HeartbeatRejected \/ GlobalTimeout
  BY <1>4 DEF HeartbeatRejected, GlobalTimeout, Return, Describing, InTime, Extended,
              Covered, RejectedIsOver, ResultWhenDone, TimeoutIsReal
<1>5. CASE RequestFails \/ Canceled
  BY <1>5 DEF RequestFails, Canceled, Return, Describing, InTime, Extended, Covered,
              RejectedIsOver, ResultWhenDone, TimeoutIsReal
<1>6. CASE Cancel
  BY <1>6 DEF Cancel, Describing, InTime, Extended, Covered,
              RejectedIsOver, ResultWhenDone, TimeoutIsReal
<1>. QED
  BY <1>1, <1>2, <1>3, <1>4, <1>5, <1>6

LEMMA NextIInv == IInv /\ [Next]_vars => IInv'
<1>. SUFFICES ASSUME IInv, [Next]_vars PROVE IInv'
  OBVIOUS
<1>1. CASE Tick
  BY <1>1, TimingAssumption
     DEF Tick, IInv, TypeOK, Describing, InTime, Extended, Covered, RejectedIsOver,
         ResultWhenDone, TimeoutIsReal, aws
<1>2. CASE UNCHANGED vars
  BY <1>2 DEF vars, IInv, TypeOK, Describing, InTime, Extended, Covered, RejectedIsOver,
              ResultWhenDone, TimeoutIsReal, aws
<1>. QED
  BY <1>1, <1>2, GroupKeepsIInv, PostponeKeepsIInv DEF Next

LEMMA SpecIInv == Spec => []IInv
BY InitIInv, NextIInv, PTL DEF Spec

-----------------------------------------------------------------------------
\* Every variable of Postpone and of the group keeps its type.
THEOREM TypeCorrect == Spec => []TypeOK
<1>1. IInv => TypeOK
  BY DEF IInv
<1>. QED
  BY <1>1, SpecIInv, PTL

\* ErrLifecycleActionTimeout is returned only for an action that is over, or has
\* reached its global timeout.
THEOREM NoFalseTimeout == Spec => []TimeoutIsReal
<1>1. IInv => TimeoutIsReal
  BY DEF IInv
<1>. QED
  BY <1>1, SpecIInv, PTL

\* However far the code's idea of the deadline runs ahead of the group's, an action
\* that expires early does so with a heartbeat due, within the time of a request.
THEOREM ExpiryIsAtHeartbeat == Spec => ExpiresAtHeartbeat
<1>1. ASSUME IInv, [Next]_vars
      PROVE  [status = "active" /\ status' = "expired" /\ pc # "done" /\ now < Global
                => \/ pc = "await" /\ due - now <= Lag
                   \/ pc = "beat" /\ answer = "none"]_vars
  <2>. SUFFICES ASSUME status = "active", status' = "expired", pc # "done", now < Global
                PROVE  \/ pc = "await" /\ due - now <= Lag
                       \/ pc = "beat" /\ answer = "none"
    OBVIOUS
  <2>1. Expire
    BY <1>1 DEF Next, vars, aws, IInv, TypeOK, CompletedElsewhere, Reconfigure, AnswerHeartbeat,
                Describe, SendHeartbeat, HeartbeatRecorded, HeartbeatRejected, GlobalTimeout,
                RequestFails, Cancel, Canceled, Tick, Return
  <2>2. now >= deadline /\ deadline < Global
    BY <1>1, <2>1, TimingAssumption DEF Expire, IInv, TypeOK
  <2>3. pc \in {"await", "beat"}
    BY <1>1, <2>2, TimingAssumption DEF IInv, TypeOK, Describing
  <2>4. pc = "beat" => answer = "none"
    BY <1>1, <2>2, TimingAssumption DEF IInv, TypeOK, InTime, Extended, RejectedIsOver
  <2>. QED
    BY <1>1, <2>2, <2>3, <2>4, TimingAssumption DEF IInv, TypeOK, Covered
<1>. QED
  BY <1>1, SpecIInv, PTL DEF Spec, ExpiresAtHeartbeat

-----------------------------------------------------------------------------
(* The sum of the services: each part does what its own specification      *)
(* says, while the others run too.                                         *)

LEMMA PostponerIsPart == ServicesSpec => Spec
<1>1. ServicesInit => Init
  BY DEF ServicesInit
<1>2. [ServicesNext]_services => [Next]_vars
  BY DEF ServicesNext, services, postponer, vars, aws
<1>. QED
  BY <1>1, <1>2, PTL DEF ServicesSpec, Spec

\* The properties of Postpone hold of the sum as they stand.
THEOREM ServicesPostpone == ServicesSpec => []TimeoutIsReal /\ ExpiresAtHeartbeat
BY PostponerIsPart, NoFalseTimeout, ExpiryIsAtHeartbeat, PTL

-----------------------------------------------------------------------------
(* The query of nodes.                                                     *)

LEMMA NodesQueryIsPart == ServicesSpec => Q!Spec
<1>1. ServicesInit => Q!Init
  BY DEF ServicesInit
<1>2. [ServicesNext]_services => [Q!Next]_(Q!vars)
  BY DEF ServicesNext, services, nodesQuery, Q!cluster, Q!vars
<1>. QED
  BY <1>1, <1>2, PTL DEF ServicesSpec, Q!Spec

\* A node seen with shards all along has them now.
HadAreHolders == had \subseteq qHolders /\ qHolders \subseteq qMembers

\* The answer about the shards names the nodes that have them all along.
AnswerNamesHad == state["shards"] = "answered" => had \subseteq qAnswer["shards"]

\* Nodes returns what it merged from the answers, and the answers do not change then.
ResultIsMerged ==
  qResult.kind = "ok" =>
    /\ query = "done" /\ state["shards"] # "sent"
    /\ qResult.nodes = qAnswer["info"] /\ qResult.shards = qAnswer["info"] \cap qAnswer["shards"]

QueryInv ==
  /\ Q!TypeOK
  /\ HadAreHolders
  /\ AnswerNamesHad
  /\ ResultIsMerged

LEMMA ResultFields ==
  ASSUME NEW kind, NEW A, NEW T
  PROVE  /\ Q!Result(kind, A, T).kind = kind
         /\ Q!Result(kind, A, T).nodes = A
         /\ Q!Result(kind, A, T).shards = T
BY DEF Q!Result

LEMMA ResultType ==
  ASSUME NEW kind \in {"none", "error", "panic", "ok"},
         NEW A \in SUBSET Node, NEW T \in SUBSET Node
  PROVE  Q!Result(kind, A, T) \in [kind : {"none", "error", "panic", "ok"},
                                    nodes : SUBSET Node, shards : SUBSET Node]
BY DEF Q!Result

LEMMA QueryInit == Q!ParametersOK /\ Q!Init => QueryInv
<1>. SUFFICES ASSUME Q!ParametersOK, Q!Init PROVE QueryInv
  OBVIOUS
<1>1. Q!TypeOK
  BY ResultType DEF Q!ParametersOK, Q!Init, Q!Launched, Q!TypeOK, Q!Endpoint
<1>2. HadAreHolders /\ AnswerNamesHad /\ ResultIsMerged
  BY ResultFields DEF Q!Init, Q!Launched, HadAreHolders, AnswerNamesHad, ResultIsMerged, Q!Endpoint
<1>. QED
  BY <1>1, <1>2 DEF QueryInv

\* The cluster changes: a node that loses its shards is not one that had them all along.
LEMMA QueryCluster ==
  ASSUME QueryInv, NEW n \in Node, Q!Join(n) \/ Q!Leave(n) \/ Q!Vacate(n)
  PROVE  QueryInv'
BY DEF QueryInv, Q!Join, Q!Leave, Q!Vacate, Q!TypeOK, HadAreHolders, AnswerNamesHad,
       ResultIsMerged

LEMMA QueryAnswer ==
  ASSUME QueryInv, NEW r \in Q!Endpoint, Q!Answer(r)
  PROVE  QueryInv'
<1>1. Q!Asked(qMembers) \subseteq Node /\ qHolders \subseteq Node
  BY DEF QueryInv, Q!TypeOK, Q!Asked
<1>2. PICK a \in SUBSET Node : qAnswer' = [qAnswer EXCEPT ![r] = a] /\ (r = "shards" => a = qHolders)
  BY <1>1 DEF Q!Answer, Q!Endpoint
<1>3. Q!TypeOK'
  BY <1>2 DEF Q!Answer, Q!cluster, QueryInv, Q!TypeOK
<1>4. HadAreHolders' /\ ResultIsMerged'
  BY DEF Q!Answer, Q!cluster, QueryInv, HadAreHolders, ResultIsMerged
<1>5. AnswerNamesHad'
  <2>1. "shards" \in Q!Endpoint /\ state \in [Q!Endpoint -> {"sent", "answered", "failed"}]
        /\ qAnswer \in [Q!Endpoint -> SUBSET Node]
    BY DEF Q!Endpoint, QueryInv, Q!TypeOK
  <2>2. CASE r = "shards"
    BY <1>2, <2>1, <2>2 DEF Q!Answer, QueryInv, HadAreHolders, AnswerNamesHad
  <2>3. CASE r # "shards"
    BY <1>2, <2>1, <2>3 DEF Q!Answer, QueryInv, AnswerNamesHad
  <2>. QED
    BY <2>2, <2>3
<1>. QED
  BY <1>3, <1>4, <1>5 DEF QueryInv

\* A try that fails is followed by one that starts anew, or by an error.
LEMMA QueryTryFails ==
  ASSUME QueryInv, Tries \in Nat, query # "done", NEW kind \in {"error", "panic"},
         Q!TryFails(kind), UNCHANGED <<Q!cluster, names>>
  PROVE  QueryInv'
<1>1. qResult.kind # "ok"
  BY DEF QueryInv, ResultIsMerged
<1>2. CASE try < Tries /\ kind = "error"
  BY <1>1, <1>2 DEF Q!TryFails, Q!cluster, QueryInv, Q!TypeOK, HadAreHolders, AnswerNamesHad,
                    ResultIsMerged, Q!Endpoint
<1>3. CASE ~(try < Tries /\ kind = "error")
  <2>1. /\ qResult' = Q!Result(kind, {}, {}) /\ query' = "done"
        /\ UNCHANGED <<try, state, qAnswer, had>>
    BY <1>3 DEF Q!TryFails
  <2>2. qResult'.kind # "ok"
    BY <2>1, ResultFields
  <2>3. Q!TypeOK'
    BY <2>1, ResultType DEF Q!cluster, QueryInv, Q!TypeOK
  <2>. QED
    BY <2>1, <2>2, <2>3 DEF Q!cluster, QueryInv, HadAreHolders, AnswerNamesHad, ResultIsMerged
<1>. QED
  BY <1>2, <1>3

LEMMA QueryMerge ==
  ASSUME QueryInv, Tries \in Nat, Q!TakeDone
  PROVE  QueryInv'
<1>. query # "done" /\ Q!Finished /\ UNCHANGED <<Q!cluster, names>>
  BY DEF Q!TakeDone
<1>1. CASE Q!TryFails("error") \/ Q!TryFails("panic")
  BY <1>1, QueryTryFails
<1>2. CASE ~(Q!TryFails("error") \/ Q!TryFails("panic"))
  <2>1. /\ query' = "done" /\ UNCHANGED <<try, state, qAnswer, had>>
        /\ qResult' = Q!Result("ok", qAnswer["info"], qAnswer["info"] \cap qAnswer["shards"])
    BY <1>2 DEF Q!TakeDone, Q!Merge
  <2>2. /\ qResult'.nodes = qAnswer["info"]
        /\ qResult'.shards = qAnswer["info"] \cap qAnswer["shards"]
    BY <2>1, ResultFields
  <2>3. state["shards"] # "sent" /\ qAnswer["info"] \in SUBSET Node
    BY DEF Q!Finished, Q!Endpoint, QueryInv, Q!TypeOK
  <2>4. Q!TypeOK'
    BY <2>1, <2>3, ResultType DEF Q!cluster, QueryInv, Q!TypeOK
  <2>. QED
    BY <2>1, <2>2, <2>3, <2>4 DEF Q!cluster, QueryInv, HadAreHolders, AnswerNamesHad, ResultIsMerged
<1>. QED
  BY <1>1, <1>2

LEMMA QueryNext == Q!ParametersOK /\ QueryInv /\ [Q!Next]_(Q!vars) => QueryInv'
<1>. SUFFICES ASSUME Tries \in Nat, QueryInv, [Q!Next]_(Q!vars) PROVE QueryInv'
  BY DEF Q!ParametersOK
<1>1. ASSUME NEW r \in Q!Endpoint, Q!RequestFails(r)
      PROVE  QueryInv'
  <2>1. CASE query = "select"
    BY <1>1, <2>1, QueryTryFails DEF Q!RequestFails
  <2>2. CASE query # "select"
    BY <1>1, <2>2 DEF Q!RequestFails, Q!cluster, QueryInv, Q!TypeOK, HadAreHolders, AnswerNamesHad,
                      ResultIsMerged, Q!Endpoint
  <2>. QED
    BY <2>1, <2>2
<1>2. CASE Q!Wait \/ UNCHANGED Q!vars
  BY <1>2 DEF Q!Wait, Q!vars, Q!cluster, QueryInv, Q!TypeOK, HadAreHolders, AnswerNamesHad,
              ResultIsMerged
<1>3. CASE Q!TakeError
  BY <1>3, QueryTryFails DEF Q!TakeError
<1>. QED
  BY <1>1, <1>2, <1>3, QueryCluster, QueryAnswer, QueryMerge DEF Q!Next

LEMMA QueryFits == Q!ParametersOK
BY ParametersFit

LEMMA QuerySpec == Q!Spec => []QueryInv
BY QueryFits, QueryInit, QueryNext, PTL DEF Q!Spec

\* However the cluster changes between the four answers and whichever requests fail,
\* a node that is returned without shards was without them at some moment of the try,
\* unless the request for the shards is the one that failed (elasticsearch_query.go:148).
THEOREM ServicesShardsTold == ServicesSpec => []ShardsAreTold
<1>1. QueryInv => ShardsAreTold
  BY DEF QueryInv, Q!TypeOK, HadAreHolders, AnswerNamesHad, ResultIsMerged, ShardsAreTold,
         Q!ShardsAreTold, Q!Endpoint
<1>. QED
  BY <1>1, QuerySpec, NodesQueryIsPart, PTL

-----------------------------------------------------------------------------
(* The windows: arithmetic.                                                *)

\* Division, and what it says of a multiple.
LEMMA DivMod ==
  ASSUME NEW t \in Nat, NEW d \in Nat \ {0}
  PROVE  /\ t \div d \in Nat /\ t % d \in 0..d - 1
         /\ t = d * (t \div d) + (t % d)
  BY SMT

\* The times between two.
LEMMA Between ==
  ASSUME NEW m \in Nat, NEW n \in Nat, NEW t \in m + 1..n - 1
  PROVE  t \in Nat /\ m < t /\ t < n
  OBVIOUS

\* The natural numbers are well ordered: Least is what its name says.
LEMMA LeastIsLeast ==
  ASSUME NEW set \in SUBSET Nat, set # {}
  PROVE  W!Least(set) \in set /\ \A x \in set : W!Least(set) <= x
<1>. DEFINE Less == {p \in Nat \X Nat : p[1] < p[2]}
<1>1. IsWellFoundedOn(Less, Nat)
  BY NatLessThanWellFounded DEF OpToRel
<1>. HIDE DEF Less
<1>2. \E x \in set : \A y \in set : ~ (<<y, x>> \in Less)
  BY <1>1, WFMin
<1>3. \E x \in set : \A y \in set : x <= y
  <2>1. \A x, y \in Nat : <<y, x>> \in Less <=> y < x
    BY DEF Less
  <2>2. \A x \in set : x \in Nat
    OBVIOUS
  <2>3. PICK x \in set : \A y \in set : ~ (<<y, x>> \in Less)
    BY <1>2
  <2>4. \A y \in set : x <= y
    <3>. TAKE y \in set
    <3>1. x \in Nat /\ y \in Nat
      BY <2>2
    <3>2. ~(y < x)
      BY <2>1, <2>3, <3>1
    <3>. QED
      BY <3>1, <3>2
  <2>. QED
    BY <2>4
<1>. QED
  BY <1>3 DEF W!Least

\* NextMultiple is the first multiple after a time, pkg/time's Next.
LEMMA NextMultipleIsNext ==
  ASSUME NEW t \in Nat, NEW d \in Nat \ {0}
  PROVE  /\ W!NextMultiple(t, d) \in Nat /\ t < W!NextMultiple(t, d)
         /\ W!IsMultiple(W!NextMultiple(t, d), d)
         /\ \A u \in Nat : t < u /\ W!IsMultiple(u, d) => W!NextMultiple(t, d) <= u
<1>1. /\ t \div d \in Nat /\ t % d \in 0..d - 1
      /\ t = d * (t \div d) + (t % d)
  BY DivMod
<1>. DEFINE n == (t \div d) * d + d
<1>2. n \in Nat /\ t < n /\ n = d * ((t \div d) + 1)
  BY <1>1
<1>3. n % d = 0
  BY <1>2, <1>1
<1>4. ASSUME NEW u \in Nat, t < u, u % d = 0 PROVE n <= u
  <2>1. u \div d \in Nat /\ u = d * (u \div d)
    BY <1>4, DivMod
  <2>2. (t \div d) < (u \div d)
    BY <1>1, <1>4, <2>1
  <2>. QED
    BY <1>1, <2>1, <2>2
<1>. QED
  BY <1>2, <1>3, <1>4 DEF W!NextMultiple, W!IsMultiple

\* Next1 is the first time after t that some window asks for, whichever it is.
LEMMA NextTime ==
  ASSUME W!WindowsOK, NEW t \in Nat
  PROVE  /\ W!Next1(t) \in Nat /\ t < W!Next1(t) /\ W!Due(W!Next1(t))
         /\ \A u \in Nat : t < u /\ u < W!Next1(t) => ~W!Due(u)
<1>. DEFINE set == {W!NextMultiple(t, w.every) : w \in Window}
<1>0. \A w \in Window : w.every \in Nat \ {0}
  BY DEF W!WindowsOK
<1>1. set \in SUBSET Nat /\ set # {}
  BY <1>0, NextMultipleIsNext DEF W!WindowsOK
<1>2. W!Least(set) \in set /\ \A x \in set : W!Least(set) <= x
  BY <1>1, LeastIsLeast
<1>3. W!Next1(t) = W!Least(set)
  BY DEF W!Next1
<1>4. PICK w \in Window : W!Next1(t) = W!NextMultiple(t, w.every)
  BY <1>2, <1>3
<1>5. W!Next1(t) \in Nat /\ t < W!Next1(t) /\ W!Due(W!Next1(t))
  BY <1>0, <1>4, NextMultipleIsNext DEF W!Due
<1>6. ASSUME NEW u \in Nat, t < u, u < W!Next1(t), W!Due(u) PROVE FALSE
  <2>1. PICK v \in Window : W!IsMultiple(u, v.every)
    BY <1>6 DEF W!Due
  <2>2. W!NextMultiple(t, v.every) <= u /\ W!NextMultiple(t, v.every) \in Nat
    BY <1>0, <1>6, <2>1, NextMultipleIsNext
  <2>3. W!Next1(t) <= W!NextMultiple(t, v.every)
    BY <1>2, <1>3
  <2>. QED
    BY <1>5, <1>6, <2>2, <2>3
<1>. QED
  BY <1>5, <1>6

-----------------------------------------------------------------------------
(* The windows: the inductive invariant, and what follows from it.        *)

\* Goroutines, and the snapshots that were ever complete, are of times that came and
\* that the loop is past; who is still to create has not yet.
Started == \A t \in W!Time : job[t] # "none" => t <= wNow /\ t < next
Past == \A t \in made : t <= wNow /\ t < next
Fresh == \A t \in W!Time : job[t] \in {"start", "create"} => t \notin made

\* What no window asked for when it was listed, no window asks for again; who deletes
\* has deleted it or is still to look at it.
OldLooked ==
  \A t \in W!Time :
    /\ old[t] \subseteq made /\ \A s \in old[t] : ~W!Keep(wNow, s)
    /\ job[t] = "delete" => old[t] \cap wRepo \subseteq wTodo[t]

WindowsInv ==
  /\ W!TypeOK
  /\ Started
  /\ Past
  /\ Fresh
  /\ OldLooked
  /\ W!WantedAreKept

\* The parameters, as the proofs use them.
Bounds ==
  /\ Horizon \in Nat /\ MaxLate \in Nat /\ MaxFailures \in Nat
  /\ \A w \in Window : w.every \in Nat \ {0} /\ w.keepFor \in Nat
  /\ W!Time = 0..Horizon

LEMMA WindowsBounds == W!WindowsOK => Bounds
BY DEF W!WindowsOK, Bounds, W!Time

LEMMA WindowsInit == W!WindowsOK /\ W!Init => WindowsInv
<1>. SUFFICES ASSUME W!WindowsOK, W!Init PROVE WindowsInv
  OBVIOUS
<1>1. Bounds /\ wNow \in Nat
  BY WindowsBounds DEF W!Init, Bounds
<1>2. next \in Nat
  BY <1>1, NextTime DEF W!Init
<1>3. job = W!All("none") /\ old = W!All({}) /\ wTodo = W!All({}) /\ wRepo = {} /\ made = {}
  BY DEF W!Init
<1>4. W!TypeOK
  BY <1>1, <1>2, <1>3 DEF W!Init, W!TypeOK, W!All, Bounds
<1>. QED
  BY <1>3, <1>4 DEF WindowsInv, Started, Past, Fresh, OldLooked, W!WantedAreKept, W!All

\* The process starts again, whyever it ended.
LEMMA RestartKeepsInv ==
  ASSUME W!WindowsOK, WindowsInv, W!Restart,
         UNCHANGED <<wNow, delete>>, wFailures' \in 0..MaxFailures
  PROVE  WindowsInv'
<1>1. Bounds /\ wNow \in Nat
  BY WindowsBounds DEF WindowsInv, W!TypeOK, Bounds
<1>2. next' \in Nat /\ wNow < next'
  BY <1>1, NextTime DEF W!Restart
<1>3. job' = W!All("none") /\ old' = W!All({}) /\ wTodo' = W!All({})
  BY DEF W!Restart
<1>4. PICK done \in SUBSET {t \in W!Time : job[t] = "create"} :
        wRepo' = wRepo \cup done /\ made' = made \cup done
  BY DEF W!Restart
<1>5. W!TypeOK'
  BY <1>1, <1>2, <1>3, <1>4 DEF WindowsInv, W!TypeOK, W!All, Bounds
<1>6. W!WantedAreKept'
  BY <1>4 DEF WindowsInv, W!WantedAreKept, W!IsMultiple
<1>7. Past'
  <2>1. \A t \in made' : t \in Nat /\ t <= wNow
    BY <1>1, <1>4 DEF WindowsInv, W!TypeOK, Past, Started, Bounds
  <2>. QED
    BY <1>1, <1>2, <2>1 DEF Past
<1>8. Started' /\ Fresh' /\ OldLooked'
  BY <1>3 DEF Started, Fresh, OldLooked, W!All, W!Time
<1>. QED
  BY <1>5, <1>6, <1>7, <1>8 DEF WindowsInv

\* The sleep is over, however late: no goroutine was ever of this time.
LEMMA WakeKeepsInv ==
  ASSUME W!WindowsOK, WindowsInv, W!Wake
  PROVE  WindowsInv'
<1>1. Bounds /\ wNow \in Nat /\ next \in Nat /\ next <= wNow
  BY WindowsBounds DEF WindowsInv, W!TypeOK, Bounds, W!Wake
<1>2. next' \in Nat /\ wNow < next'
  BY <1>1, NextTime DEF W!Wake
<1>3. job' = [job EXCEPT ![next] = "start"]
  BY DEF W!Wake, W!Go
<1>4. UNCHANGED <<wNow, delete, wRepo, old, wTodo, made, wFailures>>
  BY DEF W!Wake
<1>5. next \notin made /\ \A t \in W!Time : job'[t] = IF t = next THEN "start" ELSE job[t]
  BY <1>1, <1>3 DEF WindowsInv, W!TypeOK, Past
<1>6. W!TypeOK' /\ W!WantedAreKept'
  BY <1>1, <1>2, <1>3, <1>4 DEF WindowsInv, W!TypeOK, W!WantedAreKept, W!IsMultiple
<1>7. Started' /\ Past'
  <2>1. \A t \in W!Time : t <= wNow => t < next'
    BY <1>1, <1>2 DEF Bounds
  <2>. QED
    BY <1>1, <1>4, <1>5, <2>1 DEF WindowsInv, W!TypeOK, Started, Past, W!Time
<1>8. Fresh'
  BY <1>4, <1>5 DEF WindowsInv, Fresh, W!Time
<1>9. OldLooked'
  BY <1>4, <1>5 DEF WindowsInv, OldLooked, W!Keep, W!IsMultiple, W!Time
<1>. QED
  BY <1>6, <1>7, <1>8, <1>9 DEF WindowsInv

\* Time passes: what no window asks for any more need not be there.
LEMMA TimeKeepsInv ==
  ASSUME W!WindowsOK, WindowsInv, W!Tick
  PROVE  WindowsInv'
<1>1. Bounds /\ wNow \in Nat /\ next \in Nat /\ made \subseteq W!Time
  BY WindowsBounds DEF WindowsInv, W!TypeOK, Bounds
<1>2. /\ wNow' = wNow + 1
      /\ UNCHANGED <<delete, wRepo, next, job, old, wTodo, made, wFailures>>
  BY DEF W!Tick
<1>3. W!TypeOK'
  BY <1>1, <1>2 DEF W!Tick, WindowsInv, W!TypeOK, Bounds
<1>4. Started' /\ Past' /\ Fresh'
  BY <1>1, <1>2 DEF WindowsInv, Started, Past, Fresh, Bounds
<1>5. OldLooked'
  <2>1. ASSUME NEW s \in Nat, W!Keep(wNow, s)'
        PROVE  W!Keep(wNow, s)
    BY <1>1, <1>2, <2>1 DEF W!Keep, W!IsMultiple, Bounds
  <2>2. \A t \in W!Time : \A s \in old[t] : s \in Nat
    BY <1>1 DEF WindowsInv, W!TypeOK, Bounds
  <2>. QED
    BY <1>2, <2>1, <2>2 DEF WindowsInv, OldLooked, W!Time
<1>6. W!WantedAreKept'
  <2>1. \A t \in made : t \in Nat
    BY <1>1 DEF Bounds
  <2>. QED
    BY <1>1, <1>2, <2>1 DEF WindowsInv, W!WantedAreKept, W!IsMultiple, Bounds
<1>. QED
  BY <1>3, <1>4, <1>5, <1>6 DEF WindowsInv

\* The steps of a goroutine up to its list of snapshots, and its end.
LEMMA CreateKeepsInv ==
  ASSUME W!WindowsOK, WindowsInv, NEW t \in W!Time,
         W!StartSnapshot(t) \/ W!SnapshotCreated(t) \/ W!List(t) \/ W!JobEnds(t)
  PROVE  WindowsInv'
<1>1. UNCHANGED <<wNow, delete, next, wFailures>>
  BY DEF W!StartSnapshot, W!SnapshotCreated, W!List, W!JobEnds
<1>2. \A x, y : W!Keep(x, y)' <=> W!Keep(x, y)
  BY DEF W!Keep, W!IsMultiple
<1>3. CASE W!StartSnapshot(t)
  <2>. USE <1>1, <1>3 DEF WindowsInv, W!TypeOK, W!StartSnapshot, W!Go
  <2>1. W!TypeOK' /\ W!WantedAreKept'
    BY DEF W!WantedAreKept, W!IsMultiple
  <2>2. Started' /\ Past' /\ Fresh'
    BY DEF Started, Past, Fresh
  <2>3. OldLooked'
    BY <1>2 DEF OldLooked
  <2>. QED
    BY <2>1, <2>2, <2>3
<1>4. CASE W!SnapshotCreated(t)
  <2>. USE <1>1, <1>4 DEF WindowsInv, W!TypeOK, W!SnapshotCreated, W!Go
  <2>1. W!TypeOK' /\ W!WantedAreKept'
    BY DEF W!WantedAreKept, W!IsMultiple
  <2>2. Started' /\ Past' /\ Fresh'
    BY DEF Started, Past, Fresh
  <2>3. OldLooked'
    <3>1. t \notin made /\ wRepo' = wRepo \cup {t} /\ made' = made \cup {t}
      BY DEF Fresh
    <3>2. \A s \in W!Time : job'[s] = "delete" => job[s] = "delete"
      OBVIOUS
    <3>. QED
      BY <1>2, <3>1, <3>2 DEF OldLooked
  <2>. QED
    BY <2>1, <2>2, <2>3
<1>5. CASE W!List(t)
  <2>. DEFINE gone == {s \in wRepo : ~W!Keep(wNow, s)}
  <2>0. /\ wTodo' = [wTodo EXCEPT ![t] = wRepo] /\ job' = [job EXCEPT ![t] = "delete"]
        /\ old' = [old EXCEPT ![t] = gone] /\ UNCHANGED <<wRepo, made>>
        /\ gone \subseteq wRepo /\ job[t] = "list" /\ wRepo \subseteq made
        /\ \A s \in gone : ~W!Keep(wNow, s)
    BY <1>5 DEF W!List, W!Go, WindowsInv, W!TypeOK
  <2>. HIDE DEF gone
  <2>. USE <1>1, <2>0 DEF WindowsInv, W!TypeOK
  <2>1. W!TypeOK' /\ W!WantedAreKept'
    BY DEF W!WantedAreKept, W!IsMultiple
  <2>2. Started' /\ Past' /\ Fresh'
    BY DEF Started, Past, Fresh
  <2>3. OldLooked'
    BY <1>2 DEF OldLooked
  <2>. QED
    BY <2>1, <2>2, <2>3
<1>6. CASE W!JobEnds(t)
  <2>. USE <1>1, <1>6 DEF WindowsInv, W!TypeOK, W!JobEnds, W!Go
  <2>1. W!TypeOK' /\ W!WantedAreKept'
    BY DEF W!WantedAreKept, W!IsMultiple
  <2>2. Started' /\ Past' /\ Fresh'
    BY DEF Started, Past, Fresh
  <2>3. OldLooked'
    BY <1>2 DEF OldLooked
  <2>. QED
    BY <2>1, <2>2, <2>3
<1>. QED
  BY <1>3, <1>4, <1>5, <1>6

\* A turn of the loop that deletes.
LEMMA LookKeepsInv ==
  ASSUME W!WindowsOK, WindowsInv, NEW t \in W!Time, W!Look(t)
  PROVE  WindowsInv'
<1>1. UNCHANGED <<wNow, delete, next, job, old, made, wFailures>>
  BY DEF W!Look
<1>. DEFINE s == W!Least(wTodo[t])
<1>2. /\ wTodo' = [wTodo EXCEPT ![t] = wTodo[t] \ {s}]
      /\ \/ W!Keep(wNow, s) /\ wRepo' = wRepo
         \/ ~W!Keep(wNow, s) /\ wRepo' = wRepo \ {s}
      /\ job[t] = "delete"
  BY DEF W!Look
<1>. HIDE DEF s
<1>3. \A x, y : W!Keep(x, y)' <=> W!Keep(x, y)
  BY DEF W!Keep, W!IsMultiple
<1>4. W!TypeOK'
  BY <1>1, <1>2 DEF WindowsInv, W!TypeOK
<1>5. Started' /\ Past' /\ Fresh'
  BY <1>1 DEF WindowsInv, Started, Past, Fresh
<1>6. OldLooked'
  BY <1>1, <1>2, <1>3 DEF WindowsInv, W!TypeOK, OldLooked
<1>7. W!WantedAreKept'
  <2>1. \A x \in made, w \in Window :
          W!IsMultiple(x, w.every) /\ wNow - x <= w.keepFor => W!Keep(wNow, x)
    BY DEF W!Keep
  <2>2. \A x \in wRepo : W!Keep(wNow, x) => x \in wRepo'
    BY <1>2
  <2>. QED
    BY <1>1, <2>1, <2>2 DEF WindowsInv, W!WantedAreKept, W!IsMultiple
<1>. QED
  BY <1>4, <1>5, <1>6, <1>7 DEF WindowsInv

LEMMA WindowsNext == W!WindowsOK /\ WindowsInv /\ [W!Next]_(W!vars) => WindowsInv'
<1>. SUFFICES ASSUME W!WindowsOK, WindowsInv, [W!Next]_(W!vars) PROVE WindowsInv'
  OBVIOUS
<1>1. CASE W!Fail
  <2>1. wFailures' \in 0..MaxFailures
    BY <1>1, WindowsBounds DEF W!Fail, WindowsInv, W!TypeOK, Bounds
  <2>. QED
    BY <1>1, <2>1, RestartKeepsInv DEF W!Fail
<1>2. ASSUME NEW t \in W!Time, W!SanityCheck(t) \/ W!Rejected(t)
      PROVE  WindowsInv'
  BY <1>2, RestartKeepsInv DEF W!SanityCheck, W!Rejected, WindowsInv, W!TypeOK
<1>3. CASE UNCHANGED W!vars
  BY <1>3 DEF W!vars, WindowsInv, W!TypeOK, Started, Past, Fresh, OldLooked,
              W!WantedAreKept, W!Keep, W!IsMultiple
<1>. QED
  BY <1>1, <1>2, <1>3, WakeKeepsInv, TimeKeepsInv, CreateKeepsInv, LookKeepsInv DEF W!Next

LEMMA WindowsFit == W!WindowsOK
BY ParametersFit

LEMMA WindowsSpec == W!Spec => []WindowsInv
BY WindowsFit, WindowsInit, WindowsNext, PTL DEF W!Spec

LEMMA WindowsIsPart == ServicesSpec => W!Spec
<1>1. ServicesInit => W!Init
  BY DEF ServicesInit
<1>2. [ServicesNext]_services => [W!Next]_(W!vars)
  BY DEF ServicesNext, services, windows, W!vars
<1>. QED
  BY <1>1, <1>2, PTL DEF ServicesSpec, W!Spec

\* Whatever was complete and some window still asks for is in the repository
\* (cmd/snapshooter/main.go:170-189, snap.go:69-78).
THEOREM ServicesWanted == ServicesSpec => []WantedAreKept
<1>1. WindowsInv => WantedAreKept
  BY DEF WindowsInv, WantedAreKept
<1>. QED
  BY <1>1, WindowsSpec, WindowsIsPart, PTL

\* The time of the next snapshot never jumps over one that some window asks for and
\* that is still to come, however late a sleep ended (main.go:82-83, snap.go:52-60).
THEOREM ServicesNothingSkipped == ServicesSpec => NothingSkipped
<1>1. ASSUME WindowsInv, [W!Next]_(W!vars), next' # next,
             NEW t \in next + 1..next' - 1, W!Due(t)
      PROVE  t <= wNow
  <2>1. wNow \in Nat /\ next \in Nat
    BY <1>1, WindowsFit, WindowsBounds DEF WindowsInv, W!TypeOK, Bounds
  <2>2. next' = W!Next1(wNow)
    BY <1>1 DEF W!Next, W!vars, W!Wake, W!Fail, W!Tick, W!SanityCheck, W!StartSnapshot,
                W!SnapshotCreated, W!List, W!Look, W!JobEnds, W!Rejected, W!Restart
  <2>3. next' \in Nat /\ \A u \in Nat : wNow < u /\ u < next' => ~W!Due(u)
    BY <2>1, <2>2, WindowsFit, NextTime
  <2>4. t \in Nat /\ t < next'
    BY <1>1, <2>1, <2>3, Between
  <2>. QED
    BY <1>1, <2>1, <2>3, <2>4
<1>2. WindowsInv /\ [W!Next]_(W!vars) =>
        [next' # next => \A t \in next + 1..next' - 1 : W!Due(t) => t <= wNow]_(W!vars)
  BY <1>1
<1>. QED
  BY <1>2, WindowsSpec, WindowsIsPart, PTL DEF NothingSkipped, W!NothingSkipped, W!Spec

\* A goroutine that comes to its end has left nothing of what it listed and no window
\* asked for, with any other goroutines at work (cmd/snapshooter/main.go:163-189).
THEOREM ServicesOldSnapshotsGo == ServicesSpec => OldSnapshotsGo
<1>1. ASSUME WindowsInv, NEW t \in W!Time, job[t] = "delete", wTodo[t] = {}
      PROVE  old[t] \cap wRepo = {}
  BY <1>1 DEF WindowsInv, OldLooked
<1>2. WindowsInv =>
        [\A t \in W!Time : job[t] = "delete" /\ wTodo[t] = {} /\ job'[t] = "none" =>
           old[t] \cap wRepo = {}]_(W!vars)
  BY <1>1
<1>. QED
  BY <1>2, WindowsSpec, WindowsIsPart, PTL DEF OldSnapshotsGo, W!OldSnapshotsGo

-----------------------------------------------------------------------------
(* The healthcheck.                                                        *)

LEMMA HealthTypes == H!Spec => []H!TypeOK
<1>1. H!Init => H!TypeOK
  BY DEF H!Init, H!ProcessInit, H!TypeOK
<1>2. H!TypeOK /\ [H!Next]_(H!vars) => H!TypeOK'
  <2>. SUFFICES ASSUME H!TypeOK, [H!Next]_(H!vars) PROVE H!TypeOK'
    OBVIOUS
  <2>. USE DEF H!TypeOK, H!Goto, H!Return, H!check
  <2>1. CASE H!Join \/ H!Restart \/ UNCHANGED H!vars
    BY <2>1 DEF H!Join, H!Restart, H!vars
  <2>2. ASSUME NEW q \in Request,
               H!Begin(q) \/ H!GetNodeName(q) \/ H!List(q) \/ H!RequestFails(q) \/ H!IsFirst(q)
        PROVE  H!TypeOK'
    BY <2>2 DEF H!Begin, H!GetNodeName, H!List, H!RequestFails, H!IsFirst
  <2>3. ASSUME NEW q \in Request,
               \/ H!MakeInitial(q) \/ H!FillInitial(q) \/ H!Judge(q) \/ H!Pass(q)
               \/ H!CheckJoined(q)
        PROVE  H!TypeOK'
    BY <2>3 DEF H!MakeInitial, H!FillInitial, H!Judge, H!Pass, H!CheckJoined
  <2>. QED
    BY <2>1, <2>2, <2>3 DEF H!Next
<1>. QED
  BY <1>1, <1>2, PTL DEF H!Spec

LEMMA HealthIsPart == ServicesSpec => H!Spec
<1>1. ServicesInit => H!Init
  BY DEF ServicesInit
<1>2. [ServicesNext]_services => [H!Next]_(H!vars)
  BY DEF ServicesNext, services, health, H!vars, H!check
<1>. QED
  BY <1>1, <1>2, PTL DEF ServicesSpec, H!Spec

-----------------------------------------------------------------------------
(* Sums over finite sets.                                                  *)

\* The theorems about the snapshooter.
SP == INSTANCE SnapshooterProofs WITH now <- sNow, pc <- loop, due <- sDue

\* A set of sets that has each set from which every element can be taken to get one of
\* its members has all of them.
LEMMA SetInduct ==
  ASSUME NEW I, IsFiniteSet(I), NEW G,
         \A T \in SUBSET I : (\A x \in T : T \ {x} \in G) => T \in G
  PROVE  \A T \in SUBSET I : T \in G
<1>. DEFINE Upto == {k \in Nat : \A T \in SUBSET I : Cardinality(T) = k => T \in G}
<1>1. \A T \in SUBSET I : IsFiniteSet(T) /\ Cardinality(T) \in Nat
  BY FS_Subset, FS_CardinalityType
<1>2. 0 \in Upto
  <2>1. \A T \in SUBSET I : Cardinality(T) = 0 => T = {}
    BY <1>1, FS_EmptySet
  <2>. QED
    BY <2>1
<1>3. ASSUME NEW k \in Nat, k \in Upto PROVE k + 1 \in Upto
  <2>1. ASSUME NEW T \in SUBSET I, Cardinality(T) = k + 1, NEW x \in T
        PROVE  T \ {x} \in G
    <3>1. Cardinality(T \ {x}) = Cardinality(T) - 1
      BY <1>1, FS_RemoveElement
    <3>2. Cardinality(T \ {x}) = k /\ T \ {x} \in SUBSET I
      BY <2>1, <3>1
    <3>. QED
      BY <1>3, <3>2
  <2>. QED
    BY <2>1
<1>4. \A k \in Nat : k \in Upto
  <2>. HIDE DEF Upto
  <2>. QED
    BY <1>2, <1>3, SP!Induct
<1>. QED
  BY <1>1, <1>4

\* F[T] is the sum of f over T, for all parts T of I.
Adds(F, f, I) ==
  /\ F \in [SUBSET I -> Int] /\ F[{}] = 0
  /\ \A T \in SUBSET I : \A x \in T : F[T] = f[x] + F[T \ {x}]

Some(T) == CHOOSE x \in T : TRUE
AddsOne(F, f, I) == F = [T \in SUBSET I |-> IF T = {} THEN 0 ELSE f[Some(T)] + F[T \ {Some(T)}]]

LEMMA AnyOrder ==
  ASSUME NEW I, IsFiniteSet(I), NEW f \in [I -> Int], NEW F, AddsOne(F, f, I)
  PROVE  Adds(F, f, I)
<1>1. /\ F[{}] = 0
      /\ \A T \in SUBSET I : T # {} => F[T] = f[Some(T)] + F[T \ {Some(T)}]
  BY DEF AddsOne
<1>2. \A T \in SUBSET I : T # {} => Some(T) \in T
  BY DEF Some
<1>. DEFINE Typed == {T \in SUBSET I : F[T] \in Int}
            Good == {T \in SUBSET I : \A x \in T : F[T] = f[x] + F[T \ {x}]}
<1>3. \A T \in SUBSET I : T \in Typed
  <2>1. ASSUME NEW T \in SUBSET I, \A x \in T : T \ {x} \in Typed PROVE T \in Typed
    <3>1. CASE T = {}
      BY <1>1, <3>1
    <3>2. CASE T # {}
      <4>1. F[T \ {Some(T)}] \in Int /\ f[Some(T)] \in Int
        BY <1>2, <2>1, <3>2
      <4>2. F[T] = f[Some(T)] + F[T \ {Some(T)}]
        BY <1>1, <3>2
      <4>. QED
        BY <4>1, <4>2
    <3>. QED
      BY <3>1, <3>2
  <2>. HIDE DEF Typed
  <2>. QED
    BY <2>1, SetInduct
<1>4. ASSUME NEW T \in SUBSET I, \A x \in T : T \ {x} \in Good, NEW x \in T
      PROVE  F[T] = f[x] + F[T \ {x}]
  <2>. DEFINE c == Some(T)
              U == (T \ {c}) \ {x}
  <2>1. c \in T /\ F[T] = f[c] + F[T \ {c}]
    BY <1>1, <1>2
  <2>. HIDE DEF c
  <2>2. CASE x = c
    BY <2>1, <2>2
  <2>3. CASE x # c
    <3>1. F[T \ {c}] = f[x] + F[U]
      BY <1>4, <2>1, <2>3
    <3>2. F[T \ {x}] = f[c] + F[U]
      <4>1. U = (T \ {x}) \ {c}
        OBVIOUS
      <4>. HIDE DEF U
      <4>. QED
        BY <1>4, <2>1, <2>3, <4>1
    <3>3. F[U] \in Int /\ f[x] \in Int /\ f[c] \in Int
      BY <1>3, <2>1
    <3>. QED
      BY <2>1, <3>1, <3>2, <3>3
  <2>. QED
    BY <2>2, <2>3
<1>5. \A T \in SUBSET I : T \in Good
  <2>1. ASSUME NEW T \in SUBSET I, \A x \in T : T \ {x} \in Good PROVE T \in Good
    BY <1>4, <2>1
  <2>. HIDE DEF Good
  <2>. QED
    BY <2>1, SetInduct
<1>6. F \in [SUBSET I -> Int]
  BY <1>3 DEF AddsOne
<1>. QED
  BY <1>1, <1>5, <1>6 DEF Adds

LEMMA SumExists ==
  ASSUME NEW I, IsFiniteSet(I), NEW f \in [I -> Int]
  PROVE  \E F : AddsOne(F, f, I)
<1>. DEFINE Upto(k) == {T \in SUBSET I : Cardinality(T) <= k}
            Good(k, F) == F = [T \in Upto(k) |->
                                 IF T = {} THEN 0 ELSE f[Some(T)] + F[T \ {Some(T)}]]
            Reached == {k \in Nat : \E F \in [Upto(k) -> Int] : Good(k, F)}
<1>1. \A T \in SUBSET I : /\ IsFiniteSet(T) /\ Cardinality(T) \in Nat
                          /\ Cardinality(T) <= Cardinality(I)
  BY FS_Subset, FS_CardinalityType
<1>2. \A T \in SUBSET I : T # {} => /\ Some(T) \in T
                                    /\ Cardinality(T \ {Some(T)}) = Cardinality(T) - 1
  BY <1>1, FS_RemoveElement DEF Some
<1>3. 0 \in Reached
  <2>. DEFINE F == [T \in Upto(0) |-> 0]
  <2>1. \A T \in Upto(0) : T = {}
    BY <1>1, FS_EmptySet
  <2>2. F \in [Upto(0) -> Int] /\ Good(0, F)
    BY <2>1
  <2>. QED
    BY <2>2
<1>4. ASSUME NEW k \in Nat, k \in Reached PROVE k + 1 \in Reached
  <2>1. PICK F \in [Upto(k) -> Int] : Good(k, F)
    BY <1>4
  <2>. DEFINE E == [T \in Upto(k + 1) |->
                      IF T = {} THEN 0 ELSE f[Some(T)] + F[T \ {Some(T)}]]
  <2>2. \A T \in Upto(k + 1) : T # {} => Some(T) \in I /\ T \ {Some(T)} \in Upto(k)
    BY <1>1, <1>2
  <2>3. E \in [Upto(k + 1) -> Int]
    <3>1. \A T \in Upto(k + 1) : T # {} => f[Some(T)] \in Int /\ F[T \ {Some(T)}] \in Int
      BY <2>1, <2>2
    <3>2. \A T \in Upto(k + 1) :
            (IF T = {} THEN 0 ELSE f[Some(T)] + F[T \ {Some(T)}]) \in Int
      BY <3>1
    <3>. HIDE DEF Upto
    <3>. QED
      BY <3>2
  <2>4. \A T \in Upto(k) : T \in Upto(k + 1) /\ E[T] = F[T]
    <3>. TAKE T \in Upto(k)
    <3>1. T \in Upto(k + 1)
      BY <1>1
    <3>2. F[T] = IF T = {} THEN 0 ELSE f[Some(T)] + F[T \ {Some(T)}]
      BY <2>1
    <3>. QED
      BY <3>1, <3>2
  <2>5. Good(k + 1, E)
    BY <2>2, <2>4
  <2>. HIDE DEF E, Good, Upto
  <2>. QED
    BY <2>3, <2>5
<1>5. Cardinality(I) \in Reached
  <2>1. Cardinality(I) \in Nat
    BY FS_CardinalityType
  <2>. HIDE DEF Reached
  <2>. QED
    BY <1>3, <1>4, <2>1, SP!Induct
<1>6. Upto(Cardinality(I)) = SUBSET I
  BY <1>1
<1>. QED
  BY <1>5, <1>6 DEF AddsOne

LEMMA SumIs ==
  ASSUME NEW I, IsFiniteSet(I), NEW f \in [I -> Int]
  PROVE  \E F : Adds(F, f, I) /\ C!Total(f) = F[I]
<1>. DEFINE F == CHOOSE F : AddsOne(F, f, I)
<1>1. AddsOne(F, f, I)
  BY SumExists
<1>2. C!Total(f) = F[I]
  <2>1. DOMAIN f = I
    OBVIOUS
  <2>. QED
    BY <2>1 DEF C!Total, C!SumFunction, C!SumFunctionOnSet, C!FoldFunctionOnSet, C!MapThenFoldSet, AddsOne, Some
<1>. HIDE DEF F
<1>. QED
  BY <1>1, <1>2, AnyOrder

\* What is zero need not be summed.
LEMMA SumOfPart ==
  ASSUME NEW I, IsFiniteSet(I), NEW J \in SUBSET I, NEW f \in [I -> Int], NEW g \in [J -> Int],
         \A i \in J : g[i] = f[i], \A i \in I \ J : f[i] = 0
  PROVE  C!Total(f) = C!Total(g) /\ C!Total(f) \in Int
<1>1. PICK F : Adds(F, f, I) /\ C!Total(f) = F[I]
  BY SumIs
<1>2. PICK E : Adds(E, g, J) /\ C!Total(g) = E[J]
  BY FS_Subset, SumIs
<1>. DEFINE Good == {T \in SUBSET I : F[T] = E[T \cap J]}
<1>3. ASSUME NEW T \in SUBSET I, \A x \in T : T \ {x} \in Good PROVE T \in Good
  <2>1. CASE T = {}
    <3>1. T \cap J = {}
      BY <2>1
    <3>. QED
      BY <1>1, <1>2, <2>1, <3>1 DEF Adds
  <2>2. CASE T # {}
    <3>1. PICK x \in T : TRUE
      BY <2>2
    <3>2. F[T] = f[x] + F[T \ {x}] /\ F[T \ {x}] = E[(T \ {x}) \cap J] /\ F[T \ {x}] \in Int
      BY <1>1, <1>3 DEF Adds
    <3>3. CASE x \in J
      <4>1. E[T \cap J] = g[x] + E[(T \cap J) \ {x}]
        BY <1>2, <3>3 DEF Adds
      <4>2. (T \cap J) \ {x} = (T \ {x}) \cap J
        OBVIOUS
      <4>. QED
        BY <3>2, <3>3, <4>1, <4>2
    <3>4. CASE x \notin J
      <4>1. f[x] = 0 /\ (T \ {x}) \cap J = T \cap J
        BY <3>4
      <4>. QED
        BY <3>2, <4>1
    <3>. QED
      BY <3>3, <3>4
  <2>. QED
    BY <2>1, <2>2
<1>4. I \in Good
  <2>1. \A T \in SUBSET I : T \in Good
    <3>. HIDE DEF Good
    <3>. QED
      BY <1>3, SetInduct
  <2>. QED
    BY <2>1
<1>5. I \cap J = J /\ F[I] \in Int
  BY <1>1 DEF Adds
<1>. QED
  BY <1>1, <1>2, <1>4, <1>5

LEMMA SumOfDifference ==
  ASSUME NEW I, IsFiniteSet(I), NEW f \in [I -> Int], NEW g \in [I -> Int], NEW h \in [I -> Int],
         \A i \in I : h[i] = f[i] - g[i]
  PROVE  C!Total(h) = C!Total(f) - C!Total(g)
<1>1. PICK F : Adds(F, f, I) /\ C!Total(f) = F[I]
  BY SumIs
<1>2. PICK E : Adds(E, g, I) /\ C!Total(g) = E[I]
  BY SumIs
<1>3. PICK D : Adds(D, h, I) /\ C!Total(h) = D[I]
  BY SumIs
<1>. DEFINE Good == {T \in SUBSET I : D[T] = F[T] - E[T]}
<1>4. ASSUME NEW T \in SUBSET I, \A x \in T : T \ {x} \in Good PROVE T \in Good
  <2>1. CASE T = {}
    BY <1>1, <1>2, <1>3, <2>1 DEF Adds
  <2>2. CASE T # {}
    <3>1. PICK x \in T : TRUE
      BY <2>2
    <3>2. F[T] = f[x] + F[T \ {x}] /\ E[T] = g[x] + E[T \ {x}] /\ D[T] = h[x] + D[T \ {x}]
      BY <1>1, <1>2, <1>3 DEF Adds
    <3>3. F[T \ {x}] \in Int /\ E[T \ {x}] \in Int /\ D[T \ {x}] \in Int
      BY <1>1, <1>2, <1>3 DEF Adds
    <3>4. D[T \ {x}] = F[T \ {x}] - E[T \ {x}] /\ h[x] = f[x] - g[x]
      BY <1>4
    <3>5. f[x] \in Int /\ g[x] \in Int
      OBVIOUS
    <3>. QED
      BY <3>2, <3>3, <3>4, <3>5
  <2>. QED
    BY <2>1, <2>2
<1>5. I \in Good
  <2>1. \A T \in SUBSET I : T \in Good
    <3>. HIDE DEF Good
    <3>. QED
      BY <1>4, SetInduct
  <2>. QED
    BY <2>1
<1>. QED
  BY <1>1, <1>2, <1>3, <1>5

LEMMA SumOfZeroes ==
  ASSUME NEW I, IsFiniteSet(I), NEW f \in [I -> Int], \A i \in I : f[i] = 0
  PROVE  C!Total(f) = 0
<1>1. PICK F : Adds(F, f, I) /\ C!Total(f) = F[I]
  BY SumIs
<1>. DEFINE Good == {T \in SUBSET I : F[T] = 0}
<1>2. ASSUME NEW T \in SUBSET I, \A x \in T : T \ {x} \in Good PROVE T \in Good
  <2>1. CASE T = {}
    BY <1>1, <2>1 DEF Adds
  <2>2. CASE T # {}
    <3>1. PICK x \in T : TRUE
      BY <2>2
    <3>2. F[T] = f[x] + F[T \ {x}] /\ F[T \ {x}] = 0 /\ f[x] = 0
      BY <1>1, <1>2 DEF Adds
    <3>. QED
      BY <3>2
  <2>. QED
    BY <2>1, <2>2
<1>3. \A T \in SUBSET I : T \in Good
  <2>. HIDE DEF Good
  <2>. QED
    BY <1>2, SetInduct
<1>. QED
  BY <1>1, <1>3

-----------------------------------------------------------------------------
(* The figures.                                                            *)

\* Nodes with their stats.
Nodes(s) ==
  /\ IsFiniteSet(DOMAIN s) /\ s = [i \in DOMAIN s |-> s[i]]
  /\ \A i \in DOMAIN s : C!StatsOK(s[i])

LEMMA NodesInRole ==
  ASSUME NEW s, Nodes(s), NEW role
  PROVE  /\ Nodes(C!InRole(s, role))
         /\ C!InRole(s, role) = [i \in {j \in DOMAIN s : C!HasRole(s[j], role)} |-> s[i]]
<1>. DEFINE J == {j \in DOMAIN s : C!HasRole(s[j], role)}
<1>1. C!InRole(s, role) = [i \in J |-> s[i]]
  BY DEF C!InRole, C!Restrict
<1>2. IsFiniteSet(J)
  <2>1. J \in SUBSET DOMAIN s /\ IsFiniteSet(DOMAIN s)
    BY DEF Nodes
  <2>. QED
    BY <2>1, FS_Subset
<1>3. \A i \in J : C!StatsOK(s[i])
  BY DEF Nodes
<1>. HIDE DEF J
<1>4. Nodes([i \in J |-> s[i]])
  BY <1>2, <1>3 DEF Nodes
<1>. QED
  BY <1>1, <1>4 DEF J

\* The disks of p: of all nodes, or of those that hold data.
LEMMA DisksAre ==
  ASSUME NEW p, Nodes(p)
  PROVE  LET data == {i \in DOMAIN p : "data" \in p[i].roles}
             total == [i \in DOMAIN p |-> C!OfData(p[i], p[i].total)]
             free == [i \in DOMAIN p |-> C!OfData(p[i], p[i].free)]
         IN /\ C!DataNodes(p) = [i \in data |-> p[i]]
            /\ C!Total(C!Series(C!DataNodes(p), C!FSTotal)) = C!Total(total)
            /\ C!Total(C!Series(C!DataNodes(p), C!FSFree)) = C!Total(free)
            /\ C!Total(C!Series(C!DataNodes(p), C!FSUsed)) = C!Total(total) - C!Total(free)
            /\ (\A i \in DOMAIN p : total[i] = 0) => C!Total(total) = 0
<1>. DEFINE I == DOMAIN p
            data == {i \in I : "data" \in p[i].roles}
            total == [i \in I |-> C!OfData(p[i], p[i].total)]
            free == [i \in I |-> C!OfData(p[i], p[i].free)]
            dt == [i \in data |-> p[i].total]
            df == [i \in data |-> p[i].free]
            du == [i \in data |-> p[i].total - p[i].free]
<1>1. \A i \in I : p[i].total \in Int /\ p[i].free \in Int
  BY DEF Nodes, C!StatsOK
<1>2. IsFiniteSet(I) /\ data \in SUBSET I /\ IsFiniteSet(data)
  <2>1. IsFiniteSet(I) /\ data \in SUBSET I
    BY DEF Nodes
  <2>. QED
    BY <2>1, FS_Subset
<1>3. C!DataNodes(p) = [i \in data |-> p[i]]
  <2>1. \A i \in I : C!HasRole(p[i], "data") <=> "data" \in p[i].roles
    BY DEF C!HasRole
  <2>2. {i \in I : C!HasRole(p[i], "data")} = data
    BY <2>1
  <2>3. C!InRole(p, "data") = [i \in {j \in I : C!HasRole(p[j], "data")} |-> p[i]]
    BY NodesInRole
  <2>. HIDE DEF I, data
  <2>. QED
    BY <2>2, <2>3 DEF C!DataNodes
<1>4. /\ total \in [I -> Int] /\ free \in [I -> Int]
      /\ dt \in [data -> Int] /\ df \in [data -> Int] /\ du \in [data -> Int]
  BY <1>1, <1>2 DEF C!OfData
<1>5. /\ C!Series(C!DataNodes(p), C!FSTotal) = dt
      /\ C!Series(C!DataNodes(p), C!FSFree) = df
      /\ C!Series(C!DataNodes(p), C!FSUsed) = du
  BY <1>3 DEF C!Series, C!FSTotal, C!FSFree, C!FSUsed
<1>6. /\ \A i \in data : dt[i] = total[i] /\ df[i] = free[i] /\ du[i] = dt[i] - df[i]
      /\ \A i \in I \ data : total[i] = 0 /\ free[i] = 0
  BY <1>2 DEF C!OfData
<1>. HIDE DEF total, free, dt, df, du, data, I
<1>7. C!Total(dt) = C!Total(total) /\ C!Total(df) = C!Total(free)
  BY <1>2, <1>4, <1>6, SumOfPart
<1>8. C!Total(du) = C!Total(dt) - C!Total(df)
  BY <1>2, <1>4, <1>6, SumOfDifference
<1>9. (\A i \in I : total[i] = 0) => C!Total(total) = 0
  BY <1>2, <1>4, SumOfZeroes
<1>. QED
  BY <1>3, <1>5, <1>7, <1>8, <1>9 DEF total, free, data, I


Five == {"CountNodes", "CountvCPU", "Load", "LoadUtilization", "JVMUtilization"}
OfFree == {"FSAvailableBytes", "FSUtilization"}

LEMMA ValueIs ==
  /\ \A x : C!Value(<<x>>) = <<x>>
  /\ \A x, y : C!Value(<<x, y>>) = <<x, y>>
  /\ \A d : C!Value(C!StatsData(d)) = <<C!Total(d)>>
<1>1. \A x, y, z, w : C!Value(<<x, y, z, w>>) = <<w>>
  BY DEF C!Value
<1>. QED
  BY <1>1 DEF C!Value, C!StatsData

\* The figures of all nodes.
LEMMA FiveAgree ==
  ASSUME NEW p, NEW name \in Five
  PROVE  C!Metrics(p)[name] = C!Value(C!Aggregate(p)[name])
<1>. DEFINE one == C!Metrics(p)
            two == C!Aggregate(p)
<1>1. C!Basic \subseteq DOMAIN two /\ Five \subseteq C!Basic /\ Five \subseteq DOMAIN one
  BY DEF C!Aggregate, C!Metrics, C!Basic, Five
<1>2. CASE name = "CountNodes"
  <2>1. two[name] = <<C!Cardinality(DOMAIN p)>>
    BY <1>1, <1>2 DEF C!Aggregate, C!Basic
  <2>2. one[name] = <<C!Cardinality(DOMAIN p)>>
    BY <1>1, <1>2 DEF C!Metrics
  <2>. QED
    BY <2>1, <2>2, ValueIs
<1>3. CASE name = "CountvCPU"
  <2>1. two[name] = <<C!Total(C!Series(p, C!VCPUs))>>
    BY <1>1, <1>3 DEF C!Aggregate, C!Basic
  <2>2. one[name] = <<C!Total(C!Series(p, C!VCPUs))>>
    BY <1>1, <1>3 DEF C!Metrics
  <2>. QED
    BY <2>1, <2>2, ValueIs
<1>4. CASE name = "Load"
  <2>1. two[name] = C!StatsData(C!Series(p, C!Load))
    BY <1>1, <1>4 DEF C!Aggregate, C!Basic
  <2>2. one[name] = <<C!Total(C!Series(p, C!Load))>>
    BY <1>1, <1>4 DEF C!Metrics
  <2>. QED
    BY <2>1, <2>2, ValueIs
<1>5. CASE name = "LoadUtilization"
  <2>1. two[name] = <<C!Total(C!Series(p, C!Load)), C!Total(C!Series(p, C!VCPUs))>>
    BY <1>1, <1>5 DEF C!Aggregate, C!Basic, C!UtilizationData
  <2>2. one[name] = <<C!Total(C!Series(p, C!Load)), C!Total(C!Series(p, C!VCPUs))>>
    BY <1>1, <1>5 DEF C!Metrics
  <2>. QED
    BY <2>1, <2>2, ValueIs
<1>6. CASE name = "JVMUtilization"
  <2>1. two[name] = <<C!Total(C!Series(p, C!HeapUsed)), C!Total(C!Series(p, C!HeapMax))>>
    BY <1>1, <1>6 DEF C!Aggregate, C!Basic, C!UtilizationData
  <2>2. one[name] = <<C!Total(C!Series(p, C!HeapUsed)), C!Total(C!Series(p, C!HeapMax))>>
    BY <1>1, <1>6 DEF C!Metrics
  <2>. QED
    BY <2>1, <2>2, ValueIs
<1>. QED
  BY <1>2, <1>3, <1>4, <1>5, <1>6 DEF Five

\* The figures of the disks in the second generation.
LEMMA DisksOfSecond ==
  ASSUME NEW p, NEW disks, disks = C!DataNodes(p), NEW two, two = C!Aggregate(p)
  PROVE  /\ C!Common \cap DOMAIN two = Five \cup (IF DOMAIN disks = {} THEN {} ELSE OfFree)
         /\ DOMAIN disks # {} =>
              /\ "FSUtilization" \in DOMAIN two
              /\ two["FSUtilization"]
                   = <<C!Total(C!Series(disks, C!FSUsed)), C!Total(C!Series(disks, C!FSTotal))>>
              /\ C!Value(two["FSAvailableBytes"]) = <<C!Total(C!Series(disks, C!FSFree))>>
<1>. DEFINE mine == C!Basic \cup (IF DOMAIN disks = {} THEN {} ELSE C!OfDisks)
                            \cup (IF DOMAIN C!FromOldPool(p) = {} THEN {} ELSE C!OfPool)
<1>1. DOMAIN two = mine
  BY DEF C!Aggregate
<1>2. C!Common \cap mine = Five \cup (IF DOMAIN disks = {} THEN {} ELSE OfFree)
  BY DEF C!Common, C!Basic, C!OfDisks, C!OfPool, Five, OfFree
<1>3. ASSUME DOMAIN disks # {}
      PROVE  /\ "FSUtilization" \in DOMAIN two
             /\ two["FSUtilization"]
                  = <<C!Total(C!Series(disks, C!FSUsed)), C!Total(C!Series(disks, C!FSTotal))>>
             /\ two["FSAvailableBytes"] = C!StatsData(C!Series(disks, C!FSFree))
  <2>1. {"FSUtilization", "FSAvailableBytes"} \subseteq mine
    BY <1>3 DEF C!OfDisks
  <2>2. two["FSUtilization"]
          = <<C!Total(C!Series(disks, C!FSUsed)), C!Total(C!Series(disks, C!FSTotal))>>
    BY <2>1 DEF C!Aggregate, C!UtilizationData
  <2>3. two["FSAvailableBytes"] = C!StatsData(C!Series(disks, C!FSFree))
    BY <2>1 DEF C!Aggregate
  <2>. QED
    BY <1>1, <2>1, <2>2, <2>3
<1>. HIDE DEF mine
<1>. QED
  BY <1>1, <1>2, <1>3, ValueIs

\* And in the first.
LEMMA DisksOfFirst ==
  ASSUME NEW p, NEW one, one = C!Metrics(p),
         NEW totals, totals = [i \in DOMAIN p |-> C!OfData(p[i], p[i].total)],
         NEW frees, frees = [i \in DOMAIN p |-> C!OfData(p[i], p[i].free)]
  PROVE  LET some == \E i \in DOMAIN p : totals[i] # 0
         IN /\ C!Common \cap DOMAIN one = Five \cup (IF some THEN OfFree ELSE {})
            /\ some =>
                 /\ one["FSAvailableBytes"] = <<C!Total(frees)>>
                 /\ one["FSUtilization"] = <<C!Total(totals) - C!Total(frees), C!Total(totals)>>
<1>. DEFINE some == \E i \in DOMAIN p : totals[i] # 0
            mine == {"CountNodes", "CountvCPU", "Load", "LoadUtilization",
                     "CountExcludedFromAllocation", "JVMTotal", "JVMUsed", "JVMUtilization"}
                    \cup (IF some THEN {"FSMaxBytes", "FSAvailableBytes", "FSUtilization"} ELSE {})
                    \cup (IF \E i \in DOMAIN p : p[i].old # <<>>
                          THEN {"JVMOldPoolMax", "JVMOldPoolUsed", "JVMOldPoolUtilization"} ELSE {})
<1>1. DOMAIN one = mine
  BY DEF C!Metrics
<1>2. C!Common \cap mine = Five \cup (IF some THEN OfFree ELSE {})
  <2>. HIDE DEF some
  <2>. QED
    BY DEF C!Common, Five, OfFree
<1>3. ASSUME some
      PROVE  /\ one["FSAvailableBytes"] = <<C!Total(frees)>>
             /\ one["FSUtilization"] = <<C!Total(totals) - C!Total(frees), C!Total(totals)>>
  <2>1. {"FSUtilization", "FSAvailableBytes"} \subseteq mine
    BY <1>3
  <2>. QED
    BY <2>1 DEF C!Metrics, C!Series
<1>. HIDE DEF mine
<1>. QED
  BY <1>1, <1>2, <1>3

\* Both generations agree on nodes with which the second does not panic.
LEMMA GenerationsAgree ==
  ASSUME NEW s, Nodes(s), ~C!Panics(s)
  PROVE  C!Agree(s)
<1>. SUFFICES ASSUME NEW role \in C!RolesOf(s)
              PROVE  LET one == C!Metrics(C!InRole(s, role))
                         two == C!Aggregate(C!InRole(s, role))
                     IN /\ C!Common \cap DOMAIN one = C!Common \cap DOMAIN two
                        /\ \A name \in C!Common \cap DOMAIN one : one[name] = C!Value(two[name])
  BY DEF C!Agree
<1>. DEFINE p == C!InRole(s, role)
            one == C!Metrics(p)
            two == C!Aggregate(p)
            disks == C!DataNodes(p)
            data == {i \in DOMAIN p : "data" \in p[i].roles}
            totals == [i \in DOMAIN p |-> C!OfData(p[i], p[i].total)]
            frees == [i \in DOMAIN p |-> C!OfData(p[i], p[i].free)]
            some == \E i \in DOMAIN p : totals[i] # 0
<1>1. Nodes(p)
  BY NodesInRole
<1>2. "FSUtilization" \in DOMAIN two => two["FSUtilization"][2] # 0
  BY DEF C!Panics, C!Utilizations
<1>. HIDE DEF p
<1>3. /\ disks = [i \in data |-> p[i]]
      /\ C!Total(C!Series(disks, C!FSTotal)) = C!Total(totals)
      /\ C!Total(C!Series(disks, C!FSFree)) = C!Total(frees)
      /\ C!Total(C!Series(disks, C!FSUsed)) = C!Total(totals) - C!Total(frees)
      /\ ~some => C!Total(totals) = 0
  BY <1>1, DisksAre
<1>4. ASSUME some PROVE DOMAIN disks # {}
  <2>1. PICK i \in DOMAIN p : C!OfData(p[i], p[i].total) # 0
    BY <1>4
  <2>2. i \in data
    BY <2>1 DEF C!OfData
  <2>. QED
    BY <1>3, <2>2
<1>5. \A name \in Five : one[name] = C!Value(two[name])
  BY FiveAgree
<1>6. /\ disks = C!DataNodes(p) /\ two = C!Aggregate(p) /\ one = C!Metrics(p)
      /\ totals = [i \in DOMAIN p |-> C!OfData(p[i], p[i].total)]
      /\ frees = [i \in DOMAIN p |-> C!OfData(p[i], p[i].free)]
  OBVIOUS
<1>. HIDE DEF one, two, disks, totals, frees
<1>7. /\ C!Common \cap DOMAIN two = Five \cup (IF DOMAIN disks = {} THEN {} ELSE OfFree)
      /\ DOMAIN disks # {} =>
           /\ "FSUtilization" \in DOMAIN two
           /\ two["FSUtilization"]
                = <<C!Total(C!Series(disks, C!FSUsed)), C!Total(C!Series(disks, C!FSTotal))>>
           /\ C!Value(two["FSAvailableBytes"]) = <<C!Total(C!Series(disks, C!FSFree))>>
  BY <1>6, DisksOfSecond
<1>8. /\ C!Common \cap DOMAIN one = Five \cup (IF some THEN OfFree ELSE {})
      /\ some =>
           /\ one["FSAvailableBytes"] = <<C!Total(frees)>>
           /\ one["FSUtilization"] = <<C!Total(totals) - C!Total(frees), C!Total(totals)>>
  BY <1>6, DisksOfFirst
<1>. HIDE DEF some
<1>9. ASSUME DOMAIN disks # {} PROVE some
  <2>1. two["FSUtilization"][2] = C!Total(totals)
    BY <1>3, <1>7, <1>9
  <2>. QED
    BY <1>2, <1>3, <1>7, <1>9, <2>1
<1>10. C!Common \cap DOMAIN one = C!Common \cap DOMAIN two
  BY <1>4, <1>7, <1>8, <1>9
<1>11. ASSUME some PROVE \A name \in OfFree : one[name] = C!Value(two[name])
  <2>1. one["FSAvailableBytes"] = C!Value(two["FSAvailableBytes"])
    <3>1. C!Value(two["FSAvailableBytes"]) = <<C!Total(C!Series(disks, C!FSFree))>>
      BY <1>4, <1>7, <1>11
    <3>2. one["FSAvailableBytes"] = <<C!Total(frees)>>
      BY <1>8, <1>11
    <3>. QED
      BY <1>3, <3>1, <3>2
  <2>2. one["FSUtilization"] = C!Value(two["FSUtilization"])
    <3>. DEFINE used == C!Total(totals) - C!Total(frees)
                size == C!Total(totals)
    <3>1. two["FSUtilization"] = <<used, size>>
      BY <1>3, <1>4, <1>7, <1>11
    <3>2. one["FSUtilization"] = <<used, size>>
      BY <1>8, <1>11
    <3>. HIDE DEF used, size
    <3>. QED
      BY <3>1, <3>2, ValueIs
  <2>. QED
    BY <2>1, <2>2 DEF OfFree
<1>12. \A name \in C!Common \cap DOMAIN one : one[name] = C!Value(two[name])
  BY <1>5, <1>8, <1>11
<1>. QED
  BY <1>10, <1>12 DEF one, two, p

-----------------------------------------------------------------------------
(* The pairing.                                                            *)

LEMMA SameCount == ASSUME NEW A PROVE C!Cardinality(A) = Cardinality(A)
BY DEF C!Cardinality, Cardinality

\* The names of InOrder are those that are counted, and what is counted twice is there
\* twice.
LEMMA InOrderIs ==
  ASSUME C!ParametersOK, NEW counts \in [1..Size -> Nat]
  PROVE  /\ C!InOrder(counts) \in Seq(1..Size)
         /\ \A n \in 1..Size : n \in C!ToSet(C!InOrder(counts)) <=> counts[n] > 0
         /\ (\E n \in 1..Size : counts[n] > 1) => C!Twice(C!InOrder(counts))
<1>. DEFINE seqs == [n \in 1..Size |-> [i \in 1..counts[n] |-> n]]
<1>1. Size \in Nat \ {0}
  BY DEF C!ParametersOK
<1>2. seqs \in [1..Size -> Seq(1..Size)]
  <2>1. ASSUME NEW n \in 1..Size PROVE [i \in 1..counts[n] |-> n] \in Seq(1..Size)
    <3>1. ASSUME NEW A, NEW m \in Nat, NEW x \in A PROVE [i \in 1..m |-> x] \in Seq(A)
      OBVIOUS
    <3>2. counts[n] \in Nat
      OBVIOUS
    <3>. QED
      BY <3>1, <3>2
  <2>. QED
    BY <2>1
<1>3. \A n \in 1..Size : DOMAIN seqs[n] = 1..counts[n] /\ \A i \in 1..counts[n] : seqs[n][i] = n
  OBVIOUS
<1>4. C!InOrder(counts) = SP!FlattenSeq(seqs)
  BY DEF C!InOrder, C!Name, C!FlattenSeq, SP!FlattenSeq
<1>. HIDE DEF seqs
<1>5. PICK F : SP!Flattens(F, seqs, Size, 1..Size)
  BY <1>1, <1>2, SP!FlattenSteps
<1>6. /\ F \in [1..Size -> Seq(1..Size)] /\ F[1] = seqs[1] /\ SP!FlattenSeq(seqs) = F[Size]
      /\ \A k \in 2..Size : F[k] = F[k - 1] \o seqs[k]
  BY <1>5 DEF SP!Flattens
<1>. DEFINE Counted(k) == /\ \A i \in DOMAIN F[k] : counts[F[k][i]] > 0
                          /\ \A n \in 1..k : counts[n] > 0 => \E i \in DOMAIN F[k] : F[k][i] = n
                          /\ \A n \in 1..k : counts[n] > 1 =>
                               \E i, j \in DOMAIN F[k] : i # j /\ F[k][i] = n /\ F[k][j] = n
            Upto == {k \in Nat : k \in 1..Size => Counted(k)}
<1>7. ASSUME NEW k \in Nat, k \in Upto, k + 1 \in 1..Size PROVE Counted(k + 1)
  <2>. DEFINE e == seqs[k + 1]
  <2>1. /\ e \in Seq(1..Size) /\ DOMAIN e = 1..counts[k + 1]
        /\ \A i \in DOMAIN e : e[i] = k + 1
        /\ counts[k + 1] \in Nat
    BY <1>2, <1>3, <1>7
  <2>2. CASE k = 0
    <3>1. F[k + 1] = e
      BY <1>6, <2>2
    <3>2. \A n \in 1..k + 1 : n = k + 1
      BY <2>2
    <3>3. \A i \in DOMAIN e : counts[e[i]] > 0
      BY <2>1
    <3>4. counts[k + 1] > 0 => 1 \in DOMAIN e
      BY <2>1
    <3>5. counts[k + 1] > 1 => 1 \in DOMAIN e /\ 2 \in DOMAIN e
      BY <2>1
    <3>. HIDE DEF e
    <3>. QED
      BY <2>1, <3>1, <3>2, <3>3, <3>4, <3>5
  <2>3. CASE k # 0
    <3>. DEFINE d == F[k]
    <3>1. k \in 1..Size /\ k + 1 \in 2..Size /\ (k + 1) - 1 = k
      BY <1>1, <1>7, <2>3
    <3>2. F[k + 1] = d \o e /\ d \in Seq(1..Size)
      BY <1>6, <3>1
    <3>3. /\ \A i \in DOMAIN d : counts[d[i]] > 0
          /\ \A n \in 1..k : counts[n] > 0 => \E i \in DOMAIN d : d[i] = n
          /\ \A n \in 1..k : counts[n] > 1 => \E i, j \in DOMAIN d : i # j /\ d[i] = n /\ d[j] = n
      BY <1>7, <3>1
    <3>. HIDE DEF d, e
    <3>4. /\ DOMAIN d = 1..Len(d) /\ Len(d) \in Nat /\ DOMAIN e = 1..Len(e) /\ Len(e) \in Nat
          /\ DOMAIN (d \o e) = 1..Len(d) + Len(e)
      BY <2>1, <3>2
    <3>5. /\ \A i \in DOMAIN d : i \in DOMAIN (d \o e) /\ (d \o e)[i] = d[i]
          /\ \A i \in DOMAIN e : /\ Len(d) + i \in DOMAIN (d \o e)
                                 /\ (d \o e)[Len(d) + i] = e[i]
      BY <2>1, <3>2, <3>4
    <3>6. \A i \in DOMAIN (d \o e) : i \in DOMAIN d \/ \E j \in DOMAIN e : i = Len(d) + j
      <4>. TAKE i \in DOMAIN (d \o e)
      <4>1. CASE i <= Len(d)
        BY <3>4, <4>1
      <4>2. CASE i > Len(d)
        <5>1. i - Len(d) \in DOMAIN e /\ i = Len(d) + (i - Len(d))
          BY <3>4, <4>2
        <5>. QED
          BY <5>1
      <4>. QED
        BY <3>4, <4>1, <4>2
    <3>7. ASSUME NEW i \in DOMAIN (d \o e) PROVE counts[(d \o e)[i]] > 0
      <4>1. CASE i \in DOMAIN d
        BY <3>3, <3>5, <4>1
      <4>2. CASE \E j \in DOMAIN e : i = Len(d) + j
        <5>1. PICK j \in DOMAIN e : i = Len(d) + j
          BY <4>2
        <5>2. (d \o e)[i] = k + 1 /\ counts[k + 1] > 0
          BY <2>1, <3>5, <5>1
        <5>. QED
          BY <5>2
      <4>. QED
        BY <3>6, <4>1, <4>2
    <3>8. ASSUME NEW n \in 1..k + 1, counts[n] > 0 PROVE \E i \in DOMAIN (d \o e) : (d \o e)[i] = n
      <4>1. CASE n = k + 1
        <5>1. 1 \in DOMAIN e
          BY <2>1, <3>8, <4>1
        <5>. QED
          BY <2>1, <3>5, <4>1, <5>1
      <4>2. CASE n \in 1..k
        BY <3>3, <3>5, <3>8, <4>2
      <4>. QED
        BY <4>1, <4>2
    <3>9. ASSUME NEW n \in 1..k + 1, counts[n] > 1
          PROVE  \E i, j \in DOMAIN (d \o e) : i # j /\ (d \o e)[i] = n /\ (d \o e)[j] = n
      <4>1. CASE n = k + 1
        <5>1. 1 \in DOMAIN e /\ 2 \in DOMAIN e
          BY <2>1, <3>9, <4>1
        <5>2. Len(d) + 1 # Len(d) + 2
          BY <3>4
        <5>3. /\ Len(d) + 1 \in DOMAIN (d \o e) /\ (d \o e)[Len(d) + 1] = n
              /\ Len(d) + 2 \in DOMAIN (d \o e) /\ (d \o e)[Len(d) + 2] = n
          BY <2>1, <3>5, <4>1, <5>1
        <5>. QED
          BY <5>2, <5>3
      <4>2. CASE n \in 1..k
        <5>1. PICK i \in DOMAIN d, j \in DOMAIN d : i # j /\ d[i] = n /\ d[j] = n
          BY <3>3, <3>9, <4>2
        <5>2. /\ i \in DOMAIN (d \o e) /\ (d \o e)[i] = n
              /\ j \in DOMAIN (d \o e) /\ (d \o e)[j] = n
          BY <3>5, <5>1
        <5>. QED
          BY <5>1, <5>2
      <4>. QED
        BY <4>1, <4>2
    <3>. DEFINE g == d \o e
    <3>10. /\ \A i \in DOMAIN g : counts[g[i]] > 0
           /\ \A n \in 1..k + 1 : counts[n] > 0 => \E i \in DOMAIN g : g[i] = n
           /\ \A n \in 1..k + 1 : counts[n] > 1 =>
                \E i, j \in DOMAIN g : i # j /\ g[i] = n /\ g[j] = n
      BY <3>7, <3>8, <3>9
    <3>11. F[k + 1] = g
      BY <3>2
    <3>. HIDE DEF g
    <3>. QED
      BY <3>10, <3>11
  <2>. QED
    BY <2>2, <2>3
<1>8. Size \in Upto
  <2>1. 0 \in Upto
    OBVIOUS
  <2>2. ASSUME NEW k \in Nat, k \in Upto PROVE k + 1 \in Upto
    <3>1. k + 1 \in 1..Size => Counted(k + 1)
      BY <1>7, <2>2
    <3>. HIDE DEF Counted
    <3>. QED
      BY <3>1
  <2>. HIDE DEF Upto
  <2>. QED
    BY <1>1, <2>1, <2>2, SP!Induct
<1>9. Counted(Size) /\ F[Size] \in Seq(1..Size)
  <2>1. Size \in 1..Size
    BY <1>1
  <2>. HIDE DEF Counted
  <2>. QED
    BY <1>6, <1>8, <2>1
<1>10. C!InOrder(counts) = F[Size]
  BY <1>4, <1>6
<1>. QED
  BY <1>9, <1>10 DEF C!ToSet, C!Twice

\* Names that are listed once are in the order of their instances, whatever is cached.
LEMMA ListedOnce ==
  ASSUME C!ParametersOK, NEW counts \in [1..Size -> 0..2], NEW s, s = C!InOrder(counts),
         ~C!Twice(s)
  PROVE  C!Instances(s) = s
<1>1. counts \in [1..Size -> Nat]
  OBVIOUS
<1>2. /\ s \in Seq(1..Size)
      /\ \A n \in 1..Size : n \in C!ToSet(s) <=> counts[n] > 0
      /\ \A n \in 1..Size : ~(counts[n] > 1)
  BY <1>1, InOrderIs
<1>3. ASSUME NEW n \in 1..Size
      PROVE  C!Times(s, n) = counts[n] /\ counts[n] = IF n \in C!ToSet(s) THEN 1 ELSE 0
  <2>1. CASE n \in C!ToSet(s)
    <3>1. PICK i \in DOMAIN s : s[i] = n
      BY <2>1 DEF C!ToSet
    <3>2. {j \in DOMAIN s : s[j] = n} = {i}
      BY <3>1 DEF C!Twice
    <3>3. Cardinality({i}) = 1
      BY FS_Singleton
    <3>4. counts[n] = 1
      BY <1>2, <2>1
    <3>. QED
      BY <2>1, <3>2, <3>3, <3>4, SameCount DEF C!Times
  <2>2. CASE n \notin C!ToSet(s)
    <3>1. {j \in DOMAIN s : s[j] = n} = {}
      BY <2>2 DEF C!ToSet
    <3>2. counts[n] = 0
      BY <1>2, <2>2
    <3>. QED
      BY <2>2, <3>1, <3>2, FS_EmptySet, SameCount DEF C!Times
  <2>. QED
    BY <2>1, <2>2
<1>4. [n \in C!Name |-> C!Cached(s)[n] + C!Described(s)[n]] = counts
  <2>1. \A n \in 1..Size : C!Cached(s)[n] + C!Described(s)[n] = counts[n]
    BY <1>3 DEF C!Cached, C!Described, C!Name
  <2>. QED
    BY <2>1 DEF C!Name
<1>. QED
  BY <1>4 DEF C!Instances

-----------------------------------------------------------------------------
(* The cloudwatcher's invariant.                                           *)

\* The slices of p cover the first k figures, each once, and are not too large.
SlicesTo(p, k) ==
  /\ k \in Nat
  /\ \A i \in DOMAIN p : p[i][2] - p[i][1] \in 1..BatchSize /\ p[i][2] <= k
  /\ \A i, j \in DOMAIN p : i < j => p[i][2] <= p[j][1]
  /\ \A x \in 1..k : \E i \in DOMAIN p : p[i][1] < x /\ x <= p[i][2]

LEMMA SliceAdded ==
  ASSUME NEW p \in Seq(Nat \X Nat), NEW k, SlicesTo(p, k), NEW m \in Nat, m - k \in 1..BatchSize,
         BatchSize \in Nat
  PROVE  SlicesTo(Append(p, <<k, m>>), m)
<1>. DEFINE e == <<k, m>>
            q == Append(p, e)
<1>1. /\ k \in Nat
      /\ \A i \in DOMAIN p : p[i][2] - p[i][1] \in 1..BatchSize /\ p[i][2] <= k
      /\ \A i, j \in DOMAIN p : i < j => p[i][2] <= p[j][1]
      /\ \A x \in 1..k : \E i \in DOMAIN p : p[i][1] < x /\ x <= p[i][2]
  BY DEF SlicesTo
<1>2. e \in Nat \X Nat /\ e[1] = k /\ e[2] = m /\ k < m
  BY <1>1
<1>. HIDE DEF e
<1>3. /\ DOMAIN p = 1..Len(p) /\ Len(p) \in Nat /\ DOMAIN q = 1..Len(p) + 1
      /\ \A i \in DOMAIN p : i \in DOMAIN q /\ q[i] = p[i]
      /\ Len(p) + 1 \in DOMAIN q /\ q[Len(p) + 1] = e
  BY <1>2
<1>4. \A i \in DOMAIN q : i \in DOMAIN p \/ i = Len(p) + 1
  BY <1>3
<1>5. \A i \in DOMAIN p : p[i][1] \in Nat /\ p[i][2] \in Nat
  OBVIOUS
<1>. HIDE DEF q
<1>6. ASSUME NEW i \in DOMAIN q PROVE q[i][2] - q[i][1] \in 1..BatchSize /\ q[i][2] <= m
  <2>1. CASE i \in DOMAIN p
    <3>1. p[i][2] - p[i][1] \in 1..BatchSize /\ p[i][2] <= k /\ p[i][2] \in Nat
      BY <1>1, <1>5, <2>1
    <3>2. q[i] = p[i]
      BY <1>3, <2>1
    <3>3. p[i][2] <= m
      BY <1>1, <1>2, <3>1
    <3>. QED
      BY <3>1, <3>2, <3>3
  <2>2. CASE i = Len(p) + 1
    BY <1>2, <1>3, <2>2
  <2>. QED
    BY <1>4, <2>1, <2>2
<1>7. ASSUME NEW i \in DOMAIN q, NEW j \in DOMAIN q, i < j PROVE q[i][2] <= q[j][1]
  <2>1. i \in DOMAIN p
    BY <1>3, <1>4, <1>7
  <2>2. CASE j \in DOMAIN p
    BY <1>1, <1>3, <1>7, <2>1, <2>2
  <2>3. CASE j = Len(p) + 1
    BY <1>1, <1>2, <1>3, <2>1, <2>3
  <2>. QED
    BY <1>4, <2>2, <2>3
<1>8. ASSUME NEW x \in 1..m PROVE \E i \in DOMAIN q : q[i][1] < x /\ x <= q[i][2]
  <2>1. CASE x \in 1..k
    <3>1. PICK i \in DOMAIN p : p[i][1] < x /\ x <= p[i][2]
      BY <1>1, <2>1
    <3>2. i \in DOMAIN q /\ q[i] = p[i]
      BY <1>3
    <3>. QED
      BY <3>1, <3>2
  <2>2. CASE k < x
    <3>1. q[Len(p) + 1][1] < x /\ x <= q[Len(p) + 1][2]
      BY <1>2, <1>3, <2>2
    <3>. QED
      BY <1>3, <3>1
  <2>. QED
    BY <1>1, <2>1, <2>2
<1>. QED
  BY <1>6, <1>7, <1>8 DEF SlicesTo, q, e

LEMMA SlicesOnce ==
  ASSUME NEW p \in Seq(Nat \X Nat), NEW k, SlicesTo(p, k), NEW x \in 1..k
  PROVE  C!Cardinality({i \in DOMAIN p : p[i][1] < x /\ x <= p[i][2]}) = 1
<1>. DEFINE I == DOMAIN p
            first == [j \in I |-> p[j][1]]
            last == [j \in I |-> p[j][2]]
<1>1. \A j \in I : first[j] \in Nat /\ last[j] \in Nat /\ j \in Nat
  OBVIOUS
<1>2. /\ \A j, h \in I : j < h => last[j] <= first[h]
      /\ x \in Nat /\ \E j \in I : first[j] < x /\ x <= last[j]
  <2>1. /\ \A j, h \in I : j < h => p[j][2] <= p[h][1]
        /\ \E j \in I : p[j][1] < x /\ x <= p[j][2]
    BY DEF SlicesTo
  <2>2. x \in Nat
    BY DEF SlicesTo
  <2>3. \A j \in I : first[j] = p[j][1] /\ last[j] = p[j][2]
    OBVIOUS
  <2>. HIDE DEF I, first, last
  <2>. QED
    BY <2>1, <2>2, <2>3
<1>3. {j \in DOMAIN p : p[j][1] < x /\ x <= p[j][2]} = {j \in I : first[j] < x /\ x <= last[j]}
  OBVIOUS
<1>. HIDE DEF I, first, last
<1>4. PICK i \in I : first[i] < x /\ x <= last[i]
  BY <1>2
<1>5. ASSUME NEW j \in I, NEW h \in I, j < h, x <= last[j] PROVE ~(first[h] < x)
  <2>1. last[j] <= first[h]
    BY <1>2, <1>5
  <2>. QED
    BY <1>1, <1>2, <1>5, <2>1
<1>6. ASSUME NEW j \in I, first[j] < x, x <= last[j] PROVE j = i
  <2>1. ~(i < j) /\ ~(j < i)
    BY <1>4, <1>5, <1>6
  <2>. QED
    BY <1>1, <2>1
<1>7. {j \in I : first[j] < x /\ x <= last[j]} = {i}
  BY <1>4, <1>6
<1>8. Cardinality({i}) = 1
  BY FS_Singleton
<1>. QED
  BY <1>3, <1>7, <1>8, SameCount

LEMMA ImageIsFinite ==
  ASSUME NEW T, IsFiniteSet(T), NEW f
  PROVE  IsFiniteSet({f[x] : x \in T})
<1>. DEFINE g == [x \in T |-> f[x]]
<1>1. g \in Surjection(T, {f[x] : x \in T})
  BY DEF Surjection
<1>. QED
  BY <1>1, FS_Surjection

LEMMA NamesAreFinite ==
  /\ \A a, b, c : IsFiniteSet({a, b, c})
  /\ \A a, b, c, d, e, f, g, h : IsFiniteSet({a, b, c, d, e, f, g, h})
<1>1. ASSUME NEW a, NEW b PROVE IsFiniteSet({a, b})
  <2>1. {a, b} = {a} \cup {b} /\ IsFiniteSet({a}) /\ IsFiniteSet({b})
    BY FS_Singleton
  <2>. QED
    BY <2>1, FS_Union
<1>2. ASSUME NEW a, NEW b, NEW c PROVE IsFiniteSet({a, b, c})
  <2>1. {a, b, c} = {a, b} \cup {b, c} /\ IsFiniteSet({a, b}) /\ IsFiniteSet({b, c})
    BY <1>1
  <2>. QED
    BY <2>1, FS_Union
<1>3. ASSUME NEW a, NEW b, NEW c, NEW d, NEW e, NEW f, NEW g, NEW h
      PROVE  IsFiniteSet({a, b, c, d, e, f, g, h})
  <2>. DEFINE T == {a, b, c}  U == {d, e, f}  V == {g, h}
  <2>1. IsFiniteSet(T) /\ IsFiniteSet(U) /\ IsFiniteSet(V)
    BY <1>1, <1>2
  <2>2. {a, b, c, d, e, f, g, h} = (T \cup U) \cup V
    OBVIOUS
  <2>. HIDE DEF T, U, V
  <2>3. IsFiniteSet((T \cup U) \cup V)
    BY <2>1, FS_Union
  <2>. QED
    BY <2>2, <2>3
<1>. QED
  BY <1>2, <1>3

LEMMA FiguresAre ==
  ASSUME NEW s, Nodes(s)
  PROVE  C!Figures(s) \in Nat
<1>. DEFINE mine(i) == {"all"} \cup (IF s[i].roles = {} THEN {"coordinate"} ELSE s[i].roles)
            figures(role) == IF generation = 1 THEN C!Metrics(C!InRole(s, role))
                                               ELSE C!Aggregate(C!InRole(s, role))
            pairs(role) == {role} \X DOMAIN figures(role)
<1>1. IsFiniteSet(C!RolesOf(s))
  <2>1. \A i \in DOMAIN s : IsFiniteSet(mine(i))
    <3>. TAKE i \in DOMAIN s
    <3>1. IsFiniteSet(s[i].roles) /\ IsFiniteSet({"all"}) /\ IsFiniteSet({"coordinate"})
      BY FS_Singleton DEF Nodes, C!StatsOK, C!IsFiniteSet, IsFiniteSet
    <3>. QED
      BY <3>1, FS_Union
  <2>. DEFINE f == [i \in DOMAIN s |-> mine(i)]
  <2>2. IsFiniteSet({f[i] : i \in DOMAIN s})
    <3>1. IsFiniteSet(DOMAIN s)
      BY DEF Nodes
    <3>. HIDE DEF f
    <3>. QED
      BY <3>1, ImageIsFinite
  <2>3. \A T \in {f[i] : i \in DOMAIN s} : IsFiniteSet(T)
    BY <2>1
  <2>4. C!RolesOf(s) = UNION {f[i] : i \in DOMAIN s}
    BY DEF C!RolesOf
  <2>. HIDE DEF f
  <2>. QED
    BY <2>2, <2>3, <2>4, FS_UNION
<1>2. \A role : IsFiniteSet(DOMAIN figures(role))
  <2>. TAKE role
  <2>. DEFINE p == C!InRole(s, role)
  <2>1. IsFiniteSet(DOMAIN C!Metrics(p))
    BY NamesAreFinite, FS_EmptySet, FS_Union DEF C!Metrics
  <2>2. IsFiniteSet(DOMAIN C!Aggregate(p))
    BY NamesAreFinite, FS_EmptySet, FS_Union DEF C!Aggregate, C!Basic, C!OfDisks, C!OfPool
  <2>. HIDE DEF p
  <2>. QED
    BY <2>1, <2>2 DEF p
<1>3. \A role : IsFiniteSet(pairs(role))
  BY <1>2, FS_Singleton, FS_Product
<1>. DEFINE e == [role \in C!RolesOf(s) |-> pairs(role)]
<1>4. C!Figures(s) = C!Cardinality(UNION {e[role] : role \in C!RolesOf(s)})
  BY DEF C!Figures
<1>5. \A T \in {e[role] : role \in C!RolesOf(s)} : IsFiniteSet(T)
  BY <1>3
<1>. HIDE DEF e
<1>6. IsFiniteSet({e[role] : role \in C!RolesOf(s)})
  BY <1>1, ImageIsFinite
<1>7. IsFiniteSet(UNION {e[role] : role \in C!RolesOf(s)})
  BY <1>5, <1>6, FS_UNION
<1>. QED
  BY <1>4, <1>7, FS_CardinalityType, SameCount

-----------------------------------------------------------------------------

\* What a round has seen and not yet judged is names in order.
InOrderSeen ==
  \A r \in Round : round[r] = "instances" =>
    \E counts \in [1..Size -> 0..2] : seen[r] = C!InOrder(counts)

\* Only names that are listed twice keep nodes from their instances.
MispairedTwice == \A r \in Round : round[r] = "mispaired" => C!Twice(seen[r])

\* The second generation pushes what no denominator of zero is in.
PanicFree ==
  \A r \in Round : generation = 2 /\ round[r] = "push" => ~C!Panics(C!StatsOf(r))

\* Each figure up to the last one that was pushed was pushed once.
SlicesPushed == \A r \in Round : SlicesTo(pushed[r], C!Pushed(r))

CloudInv ==
  /\ C!TypeOK
  /\ InOrderSeen
  /\ MispairedTwice
  /\ PanicFree
  /\ SlicesPushed

LEMMA Members == ASSUME NEW A, NEW s \in Seq(A) PROVE \A i \in DOMAIN s : s[i] \in A
OBVIOUS

LEMMA StatsAreNodes ==
  ASSUME C!ParametersOK, C!TypeOK, NEW r \in Round
  PROVE  Nodes(C!StatsOf(r))
<1>1. \A n \in 1..Size : C!StatsOK(stats[n])
  BY DEF C!ParametersOK, C!TypeOK, C!Name
<1>2. seen[r] \in Seq(1..Size)
  BY DEF C!TypeOK, C!Name
<1>3. IsFiniteSet(DOMAIN seen[r])
  <2>1. DOMAIN seen[r] = 1..Len(seen[r]) /\ Len(seen[r]) \in Nat
    BY <1>2
  <2>. QED
    BY <2>1, FS_Interval
<1>4. \A i \in DOMAIN seen[r] : seen[r][i] \in 1..Size
  BY <1>2, Members
<1>5. \A i \in DOMAIN seen[r] : C!StatsOK(stats[seen[r][i]])
  BY <1>1, <1>4
<1>. DEFINE s == seen[r]
            e == [i \in DOMAIN s |-> stats[s[i]]]
<1>6. DOMAIN e = DOMAIN s /\ \A i \in DOMAIN s : e[i] = stats[s[i]]
  OBVIOUS
<1>7. \A i \in DOMAIN e : C!StatsOK(e[i])
  <2>. HIDE DEF e
  <2>. QED
    BY <1>5, <1>6
<1>8. e = [i \in DOMAIN e |-> e[i]]
  OBVIOUS
<1>9. C!StatsOf(r) = e
  BY DEF C!StatsOf
<1>. HIDE DEF e
<1>. QED
  BY <1>3, <1>6, <1>7, <1>8, <1>9 DEF Nodes, s

LEMMA SamePushed == ASSUME NEW r, pushed'[r] = pushed[r] PROVE C!Pushed(r)' = C!Pushed(r)
BY DEF C!Pushed

LEMMA NothingPushed == SlicesTo(<<>>, 0)
BY DEF SlicesTo

LEMMA CloudInit == C!ParametersOK /\ C!Init => CloudInv
<1>. SUFFICES ASSUME C!ParametersOK, C!Init PROVE CloudInv
  OBVIOUS
<1>. USE DEF C!Init, C!Idle
<1>1. C!TypeOK
  BY DEF C!TypeOK
<1>2. InOrderSeen /\ MispairedTwice /\ PanicFree
  BY DEF InOrderSeen, MispairedTwice, PanicFree
<1>3. SlicesPushed
  BY NothingPushed DEF SlicesPushed, C!Pushed
<1>. QED
  BY <1>1, <1>2, <1>3 DEF CloudInv

\* Nothing but the cluster, the cache or the end of the process changes.
LEMMA ClusterKeepsInv ==
  ASSUME CloudInv, C!TypeOK', UNCHANGED <<generation, stats, round, seen, pushed>>
  PROVE  CloudInv'
<1>1. InOrderSeen' /\ MispairedTwice'
  BY DEF CloudInv, InOrderSeen, MispairedTwice, C!InOrder, C!Twice, C!Name
<1>2. PanicFree'
  <2>1. \A r \in Round : C!StatsOf(r)' = C!StatsOf(r)
    BY DEF C!StatsOf
  <2>. QED
    BY <2>1 DEF CloudInv, PanicFree
<1>3. SlicesPushed'
  BY DEF CloudInv, SlicesPushed, C!Pushed
<1>. QED
  BY <1>1, <1>2, <1>3 DEF CloudInv

\* Every round is ended.
LEMMA EndKeepsInv ==
  ASSUME CloudInv, C!ParametersOK, UNCHANGED <<generation, stats, live, cache>>,
         NEW reason \in {"error", "inconsistent", "zero"}, C!End(reason)
  PROVE  CloudInv'
<1>. USE DEF C!End
<1>1. C!TypeOK'
  BY DEF CloudInv, C!TypeOK
<1>2. (InOrderSeen /\ MispairedTwice /\ PanicFree)'
  BY DEF InOrderSeen, MispairedTwice, PanicFree
<1>3. SlicesPushed'
  BY NothingPushed DEF SlicesPushed, C!Pushed
<1>. QED
  BY <1>1, <1>2, <1>3 DEF CloudInv

LEMMA GetNodesKeepsInv ==
  ASSUME CloudInv, C!ParametersOK, NEW r \in Round, C!GetNodes(r)
  PROVE  CloudInv'
<1>. USE DEF C!GetNodes
<1>. DEFINE counts == [n \in 1..Size |-> IF generation = 1 /\ live[n] = 2 THEN 1 ELSE live[n]]
<1>1. counts \in [1..Size -> 0..2] /\ C!Listed = C!InOrder(counts)
  <2>1. \A n \in 1..Size : live[n] \in 0..2
    BY DEF CloudInv, C!TypeOK, C!Name
  <2>. QED
    BY <2>1 DEF C!Listed, C!Name
<1>. HIDE DEF counts
<1>2. C!InOrder(counts) \in Seq(1..Size)
  BY <1>1, InOrderIs
<1>3. /\ round' = [round EXCEPT ![r] = "instances"]
      /\ seen' = [seen EXCEPT ![r] = C!InOrder(counts)]
      /\ UNCHANGED <<generation, stats, live, cache, ended, pushed>>
  BY <1>1
<1>4. C!TypeOK'
  BY <1>2, <1>3 DEF CloudInv, C!TypeOK, C!Name
<1>5. InOrderSeen'
  <2>1. \A c : C!InOrder(c)' = C!InOrder(c)
    BY DEF C!InOrder, C!Name
  <2>2. ASSUME NEW q \in Round, round'[q] = "instances"
        PROVE  \E c \in [1..Size -> 0..2] : seen'[q] = C!InOrder(c)
    <3>1. CASE q = r
      BY <1>1, <1>3, <3>1 DEF CloudInv, C!TypeOK
    <3>2. CASE q # r
      <4>1. round[q] = "instances" /\ seen'[q] = seen[q]
        BY <1>3, <2>2, <3>2 DEF CloudInv, C!TypeOK
      <4>. QED
        BY <4>1 DEF CloudInv, InOrderSeen
    <3>. QED
      BY <3>1, <3>2
  <2>. QED
    BY <2>2 DEF InOrderSeen
<1>6. \A q \in Round : round'[q] # "instances" => round[q] = round'[q] /\ seen'[q] = seen[q]
  BY <1>3 DEF CloudInv, C!TypeOK
<1>7. MispairedTwice'
  BY <1>6 DEF CloudInv, MispairedTwice, C!Twice
<1>8. PanicFree'
  <2>1. ASSUME NEW q \in Round, round'[q] = "push" PROVE round[q] = "push" /\ C!StatsOf(q)' = C!StatsOf(q)
    BY <1>3, <1>6, <2>1 DEF C!StatsOf
  <2>. QED
    BY <1>3, <2>1 DEF CloudInv, PanicFree
<1>9. SlicesPushed'
  BY <1>3 DEF CloudInv, SlicesPushed, C!Pushed
<1>. QED
  BY <1>4, <1>5, <1>7, <1>8, <1>9 DEF CloudInv

\* A round goes on, and has not pushed anything.
LEMMA GoesOn ==
  ASSUME CloudInv, C!TypeOK', NEW r \in Round, UNCHANGED <<generation, stats, seen, pushed>>,
         \A q \in Round : q # r => round'[q] = round[q],
         round'[r] # "instances",
         round'[r] = "mispaired" => C!Twice(seen[r]),
         generation = 2 /\ round'[r] = "push" => ~C!Panics(C!StatsOf(r))
  PROVE  CloudInv'
<1>1. InOrderSeen' /\ MispairedTwice'
  <2>1. ASSUME NEW q \in Round, round'[q] = "instances" PROVE round[q] = "instances" /\ seen'[q] = seen[q]
    BY <2>1
  <2>2. InOrderSeen'
    BY <2>1 DEF CloudInv, InOrderSeen, C!InOrder, C!Name
  <2>3. ASSUME NEW q \in Round, round'[q] = "mispaired" PROVE C!Twice(seen'[q])
    BY <2>3 DEF CloudInv, MispairedTwice
  <2>. QED
    BY <2>2, <2>3 DEF MispairedTwice
<1>2. PanicFree'
  <2>1. \A q \in Round : C!StatsOf(q)' = C!StatsOf(q)
    BY DEF C!StatsOf
  <2>2. ASSUME NEW q \in Round, generation = 2, round'[q] = "push" PROVE ~C!Panics(C!StatsOf(q))
    BY <2>2 DEF CloudInv, PanicFree
  <2>. QED
    BY <2>1, <2>2 DEF PanicFree
<1>3. SlicesPushed'
  BY DEF CloudInv, SlicesPushed, C!Pushed
<1>. QED
  BY <1>1, <1>2, <1>3 DEF CloudInv

LEMMA GetInstancesKeepsInv ==
  ASSUME CloudInv, C!ParametersOK, NEW r \in Round, C!GetInstances(r)
  PROVE  CloudInv'
<1>. USE DEF C!GetInstances
<1>1. PICK counts \in [1..Size -> 0..2] : seen[r] = C!InOrder(counts)
  BY DEF CloudInv, InOrderSeen
<1>2. ~C!Twice(seen[r]) => C!Paired(seen[r])
  <2>1. SUFFICES ASSUME ~C!Twice(seen[r]) PROVE C!Paired(seen[r])
    OBVIOUS
  <2>2. C!Instances(seen[r]) = seen[r]
    BY <1>1, <2>1, ListedOnce
  <2>3. seen[r] \in Seq(1..Size)
    BY DEF CloudInv, C!TypeOK, C!Name
  <2>. QED
    BY <2>2, <2>3 DEF C!Paired
<1>. DEFINE to == IF ~C!Paired(seen[r]) THEN "mispaired"
                  ELSE IF generation = 2 THEN "settings" ELSE "push"
<1>3. /\ round' = [round EXCEPT ![r] = to] /\ cache' = cache \cup C!ToSet(seen[r])
      /\ to \in {"mispaired", "settings", "push"}
      /\ to = "mispaired" => ~C!Paired(seen[r])
      /\ to = "push" => generation # 2
      /\ UNCHANGED <<generation, stats, live, ended, seen, pushed>>
  OBVIOUS
<1>. HIDE DEF to
<1>4. C!TypeOK'
  <2>1. C!ToSet(seen[r]) \subseteq 1..Size
    <3>1. seen[r] \in Seq(1..Size)
      BY DEF CloudInv, C!TypeOK, C!Name
    <3>. QED
      BY <3>1, Members DEF C!ToSet
  <2>. QED
    BY <1>3, <2>1 DEF CloudInv, C!TypeOK, C!Name
<1>5. round'[r] = to /\ \A q \in Round : q # r => round'[q] = round[q]
  BY <1>3 DEF CloudInv, C!TypeOK
<1>. QED
  BY <1>2, <1>3, <1>4, <1>5, GoesOn

LEMMA GetSettingsKeepsInv ==
  ASSUME CloudInv, C!ParametersOK, NEW r \in Round, C!GetSettings(r)
  PROVE  CloudInv'
<1>. USE DEF C!GetSettings
<1>1. CASE round[r] = "mispaired"
  BY <1>1, EndKeepsInv
<1>2. CASE round[r] # "mispaired" /\ C!Panics(C!StatsOf(r))
  BY <1>2, EndKeepsInv
<1>3. CASE round[r] # "mispaired" /\ ~C!Panics(C!StatsOf(r))
  <2>1. /\ round' = [round EXCEPT ![r] = "push"]
        /\ UNCHANGED <<generation, stats, live, cache, ended, seen, pushed>>
    BY <1>3
  <2>2. C!TypeOK'
    BY <2>1 DEF CloudInv, C!TypeOK
  <2>3. round'[r] = "push" /\ \A q \in Round : q # r => round'[q] = round[q]
    BY <2>1 DEF CloudInv, C!TypeOK
  <2>. QED
    BY <1>3, <2>1, <2>2, <2>3, GoesOn
<1>. QED
  BY <1>1, <1>2, <1>3

LEMMA PushBatchKeepsInv ==
  ASSUME CloudInv, C!ParametersOK, NEW r \in Round, C!PushBatch(r)
  PROVE  CloudInv'
<1>. USE DEF C!PushBatch
<1>. DEFINE p == pushed[r]
            k == C!Pushed(r)
            n == C!Figures(C!StatsOf(r))
            m == C!BatchEnd(k, n)
            d == Append(p, <<k, m>>)
<1>1. p \in Seq(Nat \X Nat) /\ SlicesTo(p, k) /\ k \in Nat
  BY DEF CloudInv, C!TypeOK, SlicesPushed, SlicesTo
<1>2. n \in Nat /\ k < n
  <2>1. n \in Nat
    BY StatsAreNodes, FiguresAre DEF CloudInv
  <2>. QED
    BY <2>1
<1>3. /\ pushed' = [pushed EXCEPT ![r] = d]
      /\ UNCHANGED <<generation, stats, live, cache, ended, round, seen>>
  OBVIOUS
<1>4. BatchSize \in Nat \ {0}
  BY DEF C!ParametersOK
<1>5. m = IF k + BatchSize > n THEN n ELSE k + BatchSize
  BY DEF C!BatchEnd
<1>. HIDE DEF k, n, m
<1>6. m \in Nat /\ m - k \in 1..BatchSize
  BY <1>1, <1>2, <1>4, <1>5
<1>. HIDE DEF p
<1>7. SlicesTo(d, m) /\ d \in Seq(Nat \X Nat)
  <2>1. SlicesTo(d, m)
    BY <1>1, <1>4, <1>6, SliceAdded
  <2>2. <<k, m>> \in Nat \X Nat
    BY <1>1, <1>6
  <2>. QED
    BY <1>1, <2>1, <2>2
<1>8. d # <<>> /\ C!Last(d)[2] = m
  <2>1. Len(d) = Len(p) + 1 /\ d[Len(p) + 1] = <<k, m>> /\ Len(p) \in Nat
    BY <1>1, <1>6
  <2>. HIDE DEF d
  <2>. QED
    BY <2>1 DEF C!Last
<1>. HIDE DEF d
<1>9. \A q \in Round : pushed'[q] = IF q = r THEN d ELSE pushed[q]
  BY <1>3 DEF CloudInv, C!TypeOK
<1>10. C!TypeOK'
  BY <1>3, <1>7 DEF CloudInv, C!TypeOK
<1>11. SlicesPushed'
  <2>1. ASSUME NEW q \in Round PROVE SlicesTo(pushed'[q], C!Pushed(q)')
    <3>1. CASE q = r
      <4>1. C!Pushed(q)' = m
        BY <1>8, <1>9, <3>1 DEF C!Pushed
      <4>. QED
        BY <1>7, <1>9, <3>1, <4>1
    <3>2. CASE q # r
      <4>1. pushed'[q] = pushed[q]
        BY <1>9, <3>2
      <4>2. C!Pushed(q)' = C!Pushed(q)
        BY <4>1, SamePushed
      <4>. QED
        BY <4>1, <4>2 DEF CloudInv, SlicesPushed
    <3>. QED
      BY <3>1, <3>2
  <2>. QED
    BY <2>1 DEF SlicesPushed, SlicesTo
<1>12. InOrderSeen' /\ MispairedTwice' /\ PanicFree'
  <2>1. \A q \in Round : C!StatsOf(q)' = C!StatsOf(q)
    BY <1>3 DEF C!StatsOf
  <2>2. PanicFree'
    BY <1>3, <2>1 DEF CloudInv, PanicFree
  <2>3. InOrderSeen'
    BY <1>3 DEF CloudInv, InOrderSeen, C!InOrder, C!Name
  <2>4. MispairedTwice'
    BY <1>3 DEF CloudInv, MispairedTwice, C!Twice
  <2>. QED
    BY <2>2, <2>3, <2>4
<1>. QED
  BY <1>10, <1>11, <1>12 DEF CloudInv

\* A round is taken, or done: nothing is pushed of it.
LEMMA TickKeepsInv ==
  ASSUME CloudInv, NEW r \in Round, C!Tick(r) \/ C!Done(r)
  PROVE  CloudInv'
<1>. DEFINE to == IF C!Tick(r) THEN "nodes" ELSE "idle"
<1>1. /\ UNCHANGED <<generation, stats, live, cache, ended>>
      /\ round' = [round EXCEPT ![r] = to] /\ to \in {"nodes", "idle"}
      /\ \/ UNCHANGED <<seen, pushed>>
         \/ seen' = [seen EXCEPT ![r] = <<>>] /\ pushed' = [pushed EXCEPT ![r] = <<>>]
  BY DEF C!Tick, C!Done
<1>. HIDE DEF to
<1>2. C!TypeOK'
  <2>1. CASE UNCHANGED <<seen, pushed>>
    BY <1>1, <2>1 DEF CloudInv, C!TypeOK
  <2>2. CASE seen' = [seen EXCEPT ![r] = <<>>] /\ pushed' = [pushed EXCEPT ![r] = <<>>]
    BY <1>1, <2>2 DEF CloudInv, C!TypeOK
  <2>. QED
    BY <1>1, <2>1, <2>2
<1>3. /\ round'[r] = to /\ to \notin {"instances", "mispaired", "push"}
      /\ \A q \in Round : q # r =>
           round'[q] = round[q] /\ seen'[q] = seen[q] /\ pushed'[q] = pushed[q]
      /\ pushed'[r] \in {pushed[r], <<>>}
  BY <1>1 DEF CloudInv, C!TypeOK
<1>4. InOrderSeen' /\ MispairedTwice'
  <2>1. \A q \in Round : round'[q] \in {"instances", "mispaired"} =>
          round[q] = round'[q] /\ seen[q] = seen'[q]
    BY <1>3
  <2>2. InOrderSeen'
    BY <2>1 DEF CloudInv, InOrderSeen, C!InOrder, C!Name
  <2>3. MispairedTwice'
    BY <2>1 DEF CloudInv, MispairedTwice, C!Twice
  <2>. QED
    BY <2>2, <2>3
<1>5. PanicFree'
  <2>1. ASSUME NEW q \in Round, round'[q] = "push"
        PROVE  round[q] = "push" /\ C!StatsOf(q)' = C!StatsOf(q)
    BY <1>1, <1>3, <2>1 DEF C!StatsOf
  <2>. QED
    BY <1>1, <2>1 DEF CloudInv, PanicFree
<1>6. SlicesPushed'
  <2>1. ASSUME NEW q \in Round PROVE SlicesTo(pushed'[q], C!Pushed(q)')
    <3>1. CASE pushed'[q] = pushed[q]
      <4>1. C!Pushed(q)' = C!Pushed(q)
        BY <3>1, SamePushed
      <4>. QED
        BY <3>1, <4>1 DEF CloudInv, SlicesPushed
    <3>2. CASE pushed'[q] = <<>>
      <4>1. C!Pushed(q)' = 0
        BY <3>2 DEF C!Pushed
      <4>. QED
        BY <3>2, <4>1, NothingPushed
    <3>. QED
      BY <1>3, <3>1, <3>2
  <2>. QED
    BY <2>1 DEF SlicesPushed, SlicesTo
<1>. QED
  BY <1>2, <1>4, <1>5, <1>6 DEF CloudInv

LEMMA CloudNext == C!ParametersOK /\ CloudInv /\ [C!Next]_(C!vars) => CloudInv'
<1>. SUFFICES ASSUME C!ParametersOK, CloudInv, [C!Next]_(C!vars) PROVE CloudInv'
  OBVIOUS
<1>1. ASSUME NEW n \in C!Name, C!Join(n) \/ C!Leave(n) \/ C!Forget(n) PROVE CloudInv'
  <2>1. C!TypeOK' /\ UNCHANGED <<generation, stats, round, seen, pushed>>
    <3>1. UNCHANGED <<generation, stats, ended, round, seen, pushed>>
      BY <1>1 DEF C!Join, C!Leave, C!Forget, C!round
    <3>2. live' \in [C!Name -> 0..2]
      <4>1. live \in [C!Name -> 0..2]
        BY DEF CloudInv, C!TypeOK
      <4>2. CASE C!Join(n)
        BY <4>1, <4>2 DEF C!Join
      <4>3. CASE C!Leave(n)
        BY <4>1, <4>3 DEF C!Leave
      <4>4. CASE C!Forget(n)
        BY <4>1, <4>4 DEF C!Forget
      <4>. QED
        BY <1>1, <4>2, <4>3, <4>4
    <3>3. cache' \subseteq C!Name
      BY <1>1 DEF CloudInv, C!TypeOK, C!Join, C!Leave, C!Forget
    <3>4. C!Name' = C!Name
      BY DEF C!Name
    <3>. QED
      BY <3>1, <3>2, <3>3, <3>4 DEF CloudInv, C!TypeOK
  <2>. QED
    BY <2>1, ClusterKeepsInv
<1>2. CASE C!StartAgain
  <2>1. C!TypeOK' /\ UNCHANGED <<generation, stats, round, seen, pushed>>
    BY <1>2 DEF CloudInv, C!TypeOK, C!StartAgain, C!round
  <2>. QED
    BY <2>1, ClusterKeepsInv
<1>3. ASSUME NEW r \in Round, C!Tick(r) \/ C!Done(r) PROVE CloudInv'
  BY <1>3, TickKeepsInv
<1>4. ASSUME NEW r \in Round, C!GetNodes(r) PROVE CloudInv'
  BY <1>4, GetNodesKeepsInv
<1>5. ASSUME NEW r \in Round, C!GetInstances(r) PROVE CloudInv'
  BY <1>5, GetInstancesKeepsInv
<1>6. ASSUME NEW r \in Round, C!GetSettings(r) PROVE CloudInv'
  BY <1>6, GetSettingsKeepsInv
<1>7. ASSUME NEW r \in Round, C!PushBatch(r) PROVE CloudInv'
  BY <1>7, PushBatchKeepsInv
<1>8. ASSUME NEW r \in Round, C!Fails(r) PROVE CloudInv'
  BY <1>8, EndKeepsInv DEF C!Fails
<1>9. CASE UNCHANGED C!vars
  <2>1. C!TypeOK' /\ UNCHANGED <<generation, stats, round, seen, pushed>>
    BY <1>9 DEF CloudInv, C!TypeOK, C!vars, C!round
  <2>. QED
    BY <2>1, ClusterKeepsInv
<1>. QED
  BY <1>1, <1>2, <1>3, <1>4, <1>5, <1>6, <1>7, <1>8, <1>9 DEF C!Next

LEMMA CloudFits == C!ParametersOK
BY ParametersFit

LEMMA CloudSpec == C!Spec => []CloudInv
<1>. QED
  BY CloudInit, CloudNext, CloudFits, PTL DEF C!Spec

LEMMA CloudwatcherIsPart == ServicesSpec => C!Spec
<1>1. ServicesInit => C!Init
  BY DEF ServicesInit
<1>2. [ServicesNext]_services => [C!Next]_(C!vars)
  BY DEF ServicesNext, services, cloudwatcher, C!vars, C!round
<1>. QED
  BY <1>1, <1>2, PTL DEF ServicesSpec, C!Spec

\* The second generation ends over nodes and instances that do not match only when one
\* name was listed for two nodes (app.go:229-252, node_stats.go:58-70).
THEOREM ServicesPairing == ServicesSpec => PairingHolds
<1>1. ASSUME CloudInv, [C!Next]_(C!vars), ended = "no", ended' = "inconsistent"
      PROVE  \E r \in Round : round[r] = "mispaired" /\ C!Twice(seen[r])
  <2>1. ASSUME NEW r \in Round, C!GetSettings(r)
        PROVE  round[r] = "mispaired" /\ C!Twice(seen[r])
    BY <1>1, <2>1 DEF C!GetSettings, C!End, CloudInv, MispairedTwice
  <2>2. CASE \E r \in Round : C!GetSettings(r)
    BY <2>1, <2>2
  <2>3. CASE \E n \in C!Name : C!Join(n) \/ C!Leave(n) \/ C!Forget(n)
    BY <1>1, <2>3 DEF C!Join, C!Leave, C!Forget
  <2>4. CASE C!StartAgain \/ UNCHANGED C!vars
    BY <1>1, <2>4 DEF C!StartAgain, C!vars
  <2>5. CASE \E r \in Round : C!Tick(r) \/ C!GetNodes(r) \/ C!GetInstances(r)
    BY <1>1, <2>5 DEF C!Tick, C!GetNodes, C!GetInstances
  <2>6. CASE \E r \in Round : C!PushBatch(r) \/ C!Done(r) \/ C!Fails(r)
    BY <1>1, <2>6 DEF C!PushBatch, C!Done, C!Fails, C!End
  <2>. QED
    BY <1>1, <2>2, <2>3, <2>4, <2>5, <2>6 DEF C!Next
<1>2. CloudInv /\ [C!Next]_(C!vars)
        => [ended = "no" /\ ended' = "inconsistent"
              => \E r \in Round : round[r] = "mispaired" /\ C!Twice(seen[r])]_(C!vars)
  BY <1>1
<1>. QED
  BY <1>2, CloudSpec, CloudwatcherIsPart, PTL DEF PairingHolds, C!PairingHolds, C!Spec

\* A round that ends without an error has pushed each of its figures once, in batches
\* of BatchSize at most, and the figures that both generations have are the same
\* (app.go:181-195, 319-346, node_stats.go:144-461, cmd/cloudwatcher/metrics.go:228-362).
THEOREM ServicesPushedFigures == ServicesSpec => PushedFigures
<1>1. ASSUME CloudInv, [C!Next]_(C!vars), NEW r \in Round, round[r] = "push",
             round'[r] = "idle", ended' = "no"
      PROVE  C!Done(r)
  <2>1. CASE \E q \in Round : C!Done(q)
    <3>1. PICK q \in Round : C!Done(q)
      BY <2>1
    <3>2. q = r
      BY <1>1, <3>1 DEF C!Done, CloudInv, C!TypeOK
    <3>. QED
      BY <3>1, <3>2
  <2>2. CASE \E n \in C!Name : C!Join(n) \/ C!Leave(n) \/ C!Forget(n)
    BY <1>1, <2>2 DEF C!Join, C!Leave, C!Forget, C!round
  <2>3. CASE C!StartAgain \/ UNCHANGED C!vars
    BY <1>1, <2>3 DEF C!StartAgain, C!vars, C!round
  <2>4. CASE \E q \in Round : C!Tick(q) \/ C!GetNodes(q) \/ C!GetInstances(q)
    <3>1. PICK q \in Round : C!Tick(q) \/ C!GetNodes(q) \/ C!GetInstances(q)
      BY <2>4
    <3>. QED
      BY <1>1, <3>1 DEF C!Tick, C!GetNodes, C!GetInstances, CloudInv, C!TypeOK
  <2>5. CASE \E q \in Round : C!GetSettings(q) \/ C!PushBatch(q) \/ C!Fails(q)
    <3>1. PICK q \in Round : C!GetSettings(q) \/ C!PushBatch(q) \/ C!Fails(q)
      BY <2>5
    <3>. QED
      BY <1>1, <3>1 DEF C!GetSettings, C!PushBatch, C!Fails, C!End, CloudInv, C!TypeOK
  <2>. QED
    BY <1>1, <2>1, <2>2, <2>3, <2>4, <2>5 DEF C!Next
<1>2. ASSUME CloudInv, NEW r \in Round, C!Done(r)
      PROVE  /\ \A i \in DOMAIN pushed[r] : pushed[r][i][2] - pushed[r][i][1] \in 1..BatchSize
             /\ \A k \in 1..C!Figures(C!StatsOf(r)) :
                  C!Cardinality({i \in DOMAIN pushed[r] :
                                   pushed[r][i][1] < k /\ k <= pushed[r][i][2]}) = 1
             /\ C!Agree(C!StatsOf(r)) \/ (generation = 1 /\ C!Panics(C!StatsOf(r)))
  <2>. DEFINE p == pushed[r]
              n == C!Figures(C!StatsOf(r))
              m == C!Pushed(r)
  <2>1. p \in Seq(Nat \X Nat) /\ SlicesTo(p, m) /\ m \in Nat
    BY <1>2 DEF CloudInv, C!TypeOK, SlicesPushed, SlicesTo
  <2>2. Nodes(C!StatsOf(r)) /\ round[r] = "push" /\ n <= m
    BY <1>2, CloudFits, StatsAreNodes DEF CloudInv, C!Done
  <2>3. n \in Nat
    BY <2>2, FiguresAre
  <2>4. C!Agree(C!StatsOf(r)) \/ (generation = 1 /\ C!Panics(C!StatsOf(r)))
    <3>1. CASE C!Panics(C!StatsOf(r))
      BY <1>2, <2>2, <3>1 DEF CloudInv, PanicFree, C!TypeOK
    <3>2. CASE ~C!Panics(C!StatsOf(r))
      BY <2>2, <3>2, GenerationsAgree
    <3>. QED
      BY <3>1, <3>2
  <2>. HIDE DEF p, n, m
  <2>5. \A k \in 1..n : C!Cardinality({i \in DOMAIN p : p[i][1] < k /\ k <= p[i][2]}) = 1
    <3>. TAKE k \in 1..n
    <3>1. k \in 1..m
      BY <2>1, <2>2, <2>3
    <3>. QED
      BY <2>1, <3>1, SlicesOnce
  <2>6. \A i \in DOMAIN p : p[i][2] - p[i][1] \in 1..BatchSize
    BY <2>1 DEF SlicesTo
  <2>. QED
    BY <2>4, <2>5, <2>6 DEF p, n
<1>3. CloudInv /\ [C!Next]_(C!vars)
        => [\A r \in Round : round[r] = "push" /\ round'[r] = "idle" /\ ended' = "no" =>
              /\ \A i \in DOMAIN pushed[r] :
                   pushed[r][i][2] - pushed[r][i][1] \in 1..BatchSize
              /\ \A k \in 1..C!Figures(C!StatsOf(r)) :
                   C!Cardinality({i \in DOMAIN pushed[r] :
                                    pushed[r][i][1] < k /\ k <= pushed[r][i][2]}) = 1
              /\ C!Agree(C!StatsOf(r))
                   \/ (generation = 1 /\ C!Panics(C!StatsOf(r)))]_(C!vars)
  BY <1>1, <1>2
<1>. QED
  BY <1>3, CloudSpec, CloudwatcherIsPart, PTL DEF PushedFigures, C!PushedFigures, C!Spec

-----------------------------------------------------------------------------
(* The snapshooter.                                                        *)

\* The operators of Retention are the same in both instances.
LEMMA SameTimes ==
  ASSUME NEW A
  PROVE  /\ S!Max(A) = SP!Max(A) /\ S!Min(A) = SP!Min(A) /\ S!ToSet(A) = SP!ToSet(A)
         /\ S!PeekNewest(A) = SP!PeekNewest(A)
BY DEF S!Max, SP!Max, S!Min, SP!Min, S!ToSet, SP!ToSet, S!PeekNewest, SP!PeekNewest,
       S!Zero, SP!Zero

LEMMA SameSorted ==
  ASSUME NEW A
  PROVE  S!Sorted(A) = SP!Sorted(A) /\ S!PeekOldest(A) = SP!PeekOldest(A)
BY DEF S!Sorted, SP!Sorted, S!Cardinality, SP!Cardinality, S!PeekOldest, SP!PeekOldest,
       S!Min, SP!Min, S!Zero, SP!Zero

LEMMA SameBuckets ==
  ASSUME NEW c, NEW n, NEW b, NEW A
  PROVE  /\ S!NewBuckets(c, n) = SP!NewBuckets(c, n)
         /\ S!Assign(b, A) = SP!Assign(b, A)
<1>1. S!NewBuckets(c, n) = SP!NewBuckets(c, n)
  BY DEF S!NewBuckets, SP!NewBuckets, S!Widths, SP!Widths, S!Reverse, SP!Reverse,
         S!FlattenSeq, SP!FlattenSeq, S!FoldLeft, SP!FoldLeft, S!MapThenFoldSet,
         SP!MapThenFoldSet, S!Max, SP!Max, S!Min, SP!Min
<1>2. S!Assign(b, A) = SP!Assign(b, A)
  BY DEF S!Assign, SP!Assign, S!For, SP!For, S!Newest, SP!Newest, S!Max, SP!Max, S!Min,
         SP!Min
<1>. QED
  BY <1>1, <1>2

LEMMA SamePolicy ==
  ASSUME NEW c, NEW b, NEW t
  PROVE  /\ S!Span(c) = SP!Span(c) /\ S!MinInterval(c) = SP!MinInterval(c)
         /\ S!For(b, t) = SP!For(b, t)
<1>1. S!Span(c) = SP!Span(c)
  BY DEF S!Span, SP!Span, S!Widths, SP!Widths, S!FlattenSeq, SP!FlattenSeq, S!FoldLeft,
         SP!FoldLeft, S!MapThenFoldSet, SP!MapThenFoldSet, S!Max, SP!Max, S!Min, SP!Min
<1>2. S!MinInterval(c) = SP!MinInterval(c)
  BY DEF S!MinInterval, SP!MinInterval, S!Min, SP!Min
<1>3. S!For(b, t) = SP!For(b, t)
  BY DEF S!For, SP!For, S!Newest, SP!Newest, S!Max, SP!Max, S!Min, SP!Min
<1>. QED
  BY <1>1, <1>2, <1>3

LEMMA SameRedistributed ==
  ASSUME NEW b PROVE S!RedistributeBackups(b) = SP!RedistributeBackups(b)
BY ZenonT(60) DEF S!RedistributeBackups, SP!RedistributeBackups, S!Redistribute1, SP!Redistribute1,
       S!PeekOldest, SP!PeekOldest, S!PeekNewest, SP!PeekNewest, S!Zero, SP!Zero,
       S!Newest, SP!Newest, S!FoldLeft, SP!FoldLeft, S!MapThenFoldSet, SP!MapThenFoldSet,
       S!Max, SP!Max, S!Min, SP!Min, S!Cardinality, SP!Cardinality

LEMMA SamePush ==
  ASSUME NEW acc, NEW times
  PROVE  S!Push(acc, times) = SP!Push(acc, times)
BY ZenonT(60)
DEF S!Push, SP!Push, S!Squash, SP!Squash, S!Sorted, SP!Sorted, S!ToSet, SP!ToSet, S!Max,
    SP!Max, S!Min, SP!Min, S!Cardinality, SP!Cardinality

\* What Marked makes of its marks, in either instance.
Pushes1(s) == S!FoldLeft(S!Push, [panic |-> FALSE, series |-> <<>>], s)
Pushes2(s) == SP!FoldLeft(SP!Push, [panic |-> FALSE, series |-> <<>>], s)

LEMMA SamePushes ==
  ASSUME NEW s PROVE Pushes1(s) = Pushes2(s) /\ S!FlattenSeq(s) = SP!FlattenSeq(s)
<1>1. Pushes1(s) = Pushes2(s)
  BY ZenonT(60)
  DEF Pushes1, Pushes2, S!Push, SP!Push, S!Squash, SP!Squash, S!Sorted, SP!Sorted, S!ToSet,
      SP!ToSet, S!FoldLeft, SP!FoldLeft, S!MapThenFoldSet, SP!MapThenFoldSet, S!Max, SP!Max,
      S!Min, SP!Min, S!Cardinality, SP!Cardinality
<1>2. S!FlattenSeq(s) = SP!FlattenSeq(s)
  BY DEF S!FlattenSeq, SP!FlattenSeq, S!FoldLeft, SP!FoldLeft, S!MapThenFoldSet,
         SP!MapThenFoldSet, S!Max, SP!Max, S!Min, SP!Min
<1>. QED
  BY <1>1, <1>2

LEMMA SameMarked ==
  ASSUME NEW b PROVE S!Marked(b) = SP!Marked(b)
<1>. DEFINE marks(i) ==
       IF b[i].width = S!Hour THEN <<S!Sorted(b[i].snapshots)>>
       ELSE IF i < S!Newest(b) THEN <<<<S!PeekOldest(b[i].snapshots)>>>>
       ELSE <<<<S!PeekOldest(b[i].snapshots)>>, <<S!PeekNewest(b[i].snapshots)>>>>
     s == [i \in 1..S!Newest(b) |-> marks(i)]
<1>1. S!Marked(b) = Pushes1(S!FlattenSeq(s))
  BY DEF S!Marked, Pushes1
<1>2. SP!Marked(b) = Pushes2(SP!FlattenSeq(s))
  <2>1. /\ S!Newest(b) = SP!Newest(b) /\ S!Hour = SP!Hour
        /\ \A A : /\ S!Sorted(A) = SP!Sorted(A) /\ S!PeekOldest(A) = SP!PeekOldest(A)
                  /\ S!PeekNewest(A) = SP!PeekNewest(A)
    BY SameTimes, SameSorted DEF S!Newest, SP!Newest, S!Hour, SP!Hour
  <2>. DEFINE marks2(i) ==
         IF b[i].width = SP!Hour THEN <<SP!Sorted(b[i].snapshots)>>
         ELSE IF i < SP!Newest(b) THEN <<<<SP!PeekOldest(b[i].snapshots)>>>>
         ELSE <<<<SP!PeekOldest(b[i].snapshots)>>, <<SP!PeekNewest(b[i].snapshots)>>>>
       t == [i \in 1..SP!Newest(b) |-> marks2(i)]
  <2>2. s = t
    BY <2>1
  <2>3. SP!Marked(b) = Pushes2(SP!FlattenSeq(t))
    BY DEF SP!Marked, Pushes2
  <2>. HIDE DEF s, t
  <2>. QED
    BY <2>2, <2>3
<1>. HIDE DEF s
<1>. QED
  BY <1>1, <1>2, SamePushes

LEMMA SameMiddle ==
  ASSUME NEW b, NEW A, NEW left, NEW right
  PROVE  /\ S!Has(b, left) = SP!Has(b, left)
         /\ S!Middle(b, A, left, right) = SP!Middle(b, A, left, right)
<1>1. \A t : S!Has(b, t) = SP!Has(b, t)
  BY DEF S!Has, SP!Has, S!Min, SP!Min
<1>. QED
  BY <1>1 DEF S!Middle, SP!Middle

LEMMA SameKept ==
  ASSUME NEW b, NEW first, NEW A PROVE S!Kept(b, first, A) = SP!Kept(b, first, A)
<1>. DEFINE k == first.series
            pairs == 1..Len(k) - 1
            middles1 == {S!Middle(b, A, k[i], k[i + 1]) :
                           i \in {j \in pairs : S!Has(b, k[j]) # -1}}
            middles2 == {SP!Middle(b, A, k[i], k[i + 1]) :
                           i \in {j \in pairs : SP!Has(b, k[j]) # -1}}
            nil1 == \E i \in pairs : (S!Has(b, k[i]) = -1) # (S!Has(b, k[i + 1]) = -1)
            nil2 == \E i \in pairs : (SP!Has(b, k[i]) = -1) # (SP!Has(b, k[i + 1]) = -1)
<1>1. middles1 = middles2 /\ (nil1 <=> nil2)
  <2>1. \A t : S!Has(b, t) = SP!Has(b, t)
    BY SameMiddle
  <2>2. \A l, r : S!Middle(b, A, l, r) = SP!Middle(b, A, l, r)
    BY SameMiddle
  <2>3. nil1 <=> nil2
    BY <2>1
  <2>4. middles1 = middles2
    <3>1. {j \in pairs : S!Has(b, k[j]) # -1} = {j \in pairs : SP!Has(b, k[j]) # -1}
      BY <2>1
    <3>. QED
      BY <2>2, <3>1
  <2>. QED
    BY <2>3, <2>4
<1>2. S!Kept(b, first, A) = IF first.panic \/ nil1 THEN [panic |-> TRUE, series |-> <<>>]
                            ELSE S!Push(first, S!Sorted(UNION middles1))
  BY DEF S!Kept
<1>3. SP!Kept(b, first, A) = IF first.panic \/ nil2 THEN [panic |-> TRUE, series |-> <<>>]
                             ELSE SP!Push(first, SP!Sorted(UNION middles2))
  BY DEF SP!Kept
<1>. HIDE DEF middles1, middles2, nil1, nil2
<1>. QED
  BY <1>1, <1>2, <1>3, SamePush, SameSorted

LEMMA SameDelete ==
  ASSUME NEW c, NEW A PROVE S!Delete(c, A) = SP!Delete(c, A)
<1>. DEFINE b == S!RedistributeBackups(S!Assign(S!NewBuckets(c, S!PeekNewest(A)), A))
<1>1. b = SP!RedistributeBackups(SP!Assign(SP!NewBuckets(c, SP!PeekNewest(A)), A))
  BY SameTimes, SameBuckets, SameRedistributed
<1>2. S!Kept(b, S!Marked(b), A) = SP!Kept(b, SP!Marked(b), A)
  BY SameMarked, SameKept
<1>3. S!Keep(c, A) = S!Kept(b, S!Marked(b), A)
  BY DEF S!Keep
<1>. HIDE DEF b
<1>4. SP!Keep(c, A) = SP!Kept(b, SP!Marked(b), A)
  BY <1>1 DEF SP!Keep
<1>5. S!Keep(c, A) = SP!Keep(c, A)
  BY <1>2, <1>3, <1>4
<1>. QED
  BY <1>5, SameTimes DEF S!Delete, SP!Delete

LEMMA SnapshooterIsPart == ServicesSpec => SP!Spec
<1>1. ServicesInit => SP!Init
  BY DEF ServicesInit, S!Init, SP!Init
<1>2. S!Next = SP!Next
  <2>1. S!Advance = SP!Advance /\ S!Create = SP!Create /\ S!Fail = SP!Fail
    BY DEF S!Advance, SP!Advance, S!Create, SP!Create, S!Fail, SP!Fail, S!Running, SP!Running
  <2>2. S!Boot = SP!Boot /\ S!Tick = SP!Tick
    BY SamePolicy DEF S!Boot, SP!Boot, S!Tick, SP!Tick, S!Running, SP!Running, S!Every, SP!Every
  <2>3. S!Plan = SP!Plan
    BY SameDelete DEF S!Plan, SP!Plan
  <2>4. S!DeleteSnapshot = SP!DeleteSnapshot
    BY SameTimes DEF S!DeleteSnapshot, SP!DeleteSnapshot
  <2>. QED
    BY <2>1, <2>2, <2>3, <2>4 DEF S!Next, SP!Next
<1>3. [ServicesNext]_services => [SP!Next]_(SP!vars)
  BY <1>2 DEF ServicesNext, services, snapshooter, SP!vars
<1>. QED
  BY <1>1, <1>3, PTL DEF ServicesSpec, SP!Spec

LEMMA SnapshooterFits == SP!ParametersOK
BY ParametersFit DEF S!ParametersOK, SP!ParametersOK, S!WidthOK, SP!WidthOK

\* The newest snapshot is never deleted, by SnapshooterProofs (retention.go:69).
THEOREM ServicesNewestSurvives == ServicesSpec => NewestSurvives
<1>1. [repo # {} => SP!Max(repo) \in repo']_(SP!vars)
        => [repo # {} => S!Max(repo) \in repo']_(S!vars)
  BY SameTimes DEF S!vars, SP!vars
<1>2. SP!Spec => SP!NewestSurvives
  BY SnapshooterFits, SP!NewestIsKept
<1>. QED
  BY <1>1, <1>2, SnapshooterIsPart, PTL DEF NewestSurvives, S!NewestSurvives, SP!NewestSurvives

\* The recent snapshots are kept whole, by SnapshooterProofs (retention.go:62).
THEOREM ServicesRecentSurvive == ServicesSpec => RecentSurvive
<1>1. [\A t \in SP!Gone : SP!Max(repo) - t >= config[1] * SP!Hour - SP!Hour \div 4]_(SP!vars)
        => [\A t \in S!Gone : S!Max(repo) - t >= config[1] * S!Hour - S!Hour \div 4]_(S!vars)
  BY SameTimes DEF S!vars, SP!vars, S!Gone, SP!Gone, S!Hour, SP!Hour
<1>2. SP!Spec => SP!RecentSurvive
  BY SnapshooterFits, SP!RecentAreKept
<1>. QED
  BY <1>1, <1>2, SnapshooterIsPart, PTL DEF RecentSurvive, S!RecentSurvive, SP!RecentSurvive

\* A deletion opens no gap wider than its bucket, by SnapshooterProofs (retention.go:67).
THEOREM ServicesNoGapOpens == ServicesSpec => NoGapOpens
<1>1. [\A t \in SP!Gone : SP!Max(repo) - t < SP!Span(config) - SP!Every \div 4 =>
         LET b == SP!NewBuckets(config, SP!Max(repo))
         IN \E u \in repo' \ todo' :
              u < t /\ t - u <= b[SP!For(b, t)].width + SP!Every \div 4]_(SP!vars)
        => [\A t \in S!Gone : S!Max(repo) - t < S!Span(config) - S!Every \div 4 =>
              LET b == S!NewBuckets(config, S!Max(repo))
              IN \E u \in repo' \ todo' :
                   u < t /\ t - u <= b[S!For(b, t)].width + S!Every \div 4]_(S!vars)
  <2>1. /\ S!Max(repo) = SP!Max(repo) /\ S!Span(config) = SP!Span(config)
        /\ S!Every = SP!Every
    BY SameTimes, SamePolicy DEF S!Every, SP!Every
  <2>2. S!NewBuckets(config, S!Max(repo)) = SP!NewBuckets(config, SP!Max(repo))
    BY <2>1, SameBuckets
  <2>3. \A b, t : S!For(b, t) = SP!For(b, t)
    BY SamePolicy
  <2>. QED
    BY <2>1, <2>2, <2>3 DEF S!vars, SP!vars, S!Gone, SP!Gone
<1>2. SP!Spec => SP!NoGapOpens
  BY SnapshooterFits, SP!NoGapIsOpened
<1>. QED
  BY <1>1, <1>2, SnapshooterIsPart, PTL DEF NoGapOpens, S!NoGapOpens, SP!NoGapOpens

-----------------------------------------------------------------------------
(* The lifecycler, and its KeepAlive.                                      *)

\* The theorems about them; "launches" is the lifecycler with another bound.
LP == INSTANCE LifecyclerProofs WITH ctxDone <- leaving, pc <- handler
BP == INSTANCE LifecyclerProofs
        WITH ctxDone <- leaving, pc <- handler, MaxBeats <- MaxBeats + 1
KP == INSTANCE KeepAliveProofs WITH now <- kNow, status <- kStatus, deadline <- kDeadline,
                                    count <- kCount, due <- kDue, result <- kResult

LEMMA KeepAliveIsPart == ServicesSpec => KP!Spec
<1>1. ServicesInit => KP!Init
  BY DEF ServicesInit, K!AtMostGlobal, KP!AtMostGlobal, K!EventTimeout, KP!EventTimeout,
         K!CheckAt, KP!CheckAt, K!Init, KP!Init
<1>2. K!Next = KP!Next
  BY DEF K!AtMostGlobal, KP!AtMostGlobal, K!EventTimeout, KP!EventTimeout, K!CheckAt,
         KP!CheckAt, K!Expire, KP!Expire, K!End, KP!End, K!Schedule, KP!Schedule,
         K!Enter, KP!Enter, K!StartCheck, KP!StartCheck, K!CheckPasses, KP!CheckPasses,
         K!CheckFails, KP!CheckFails, K!AnswerHeartbeat, KP!AnswerHeartbeat,
         K!StopHeartbeat, KP!StopHeartbeat, K!Fails, KP!Fails, K!Tick, KP!Tick, K!Next,
         KP!Next
<1>3. [ServicesNext]_services => [KP!Next]_(KP!vars)
  BY <1>2 DEF ServicesNext, services, keepAlive, KP!vars
<1>. QED
  BY <1>1, <1>3, PTL DEF ServicesSpec, KP!Spec

\* The program that is chosen runs for good.
Launching == program = "launches"

LEMMA LifecyclerSteps ==
  [ServicesNext]_services =>
    /\ ~Launching => [LP!Next]_(LP!vars) /\ ~Launching'
    /\ Launching  => [BP!Next]_(BP!vars) /\ Launching'
<1>1. L!Next = LP!Next
  <2>1. \A h : L!Draining(h) = LP!Draining(h)
    BY DEF L!cluster, LP!cluster, L!group, LP!group, L!sqs, LP!sqs, L!voters, LP!voters,
        L!handler, LP!handler, L!NoMessage, LP!NoMessage, L!NodeOf, LP!NodeOf, L!Restart,
        LP!Restart, L!Fault, LP!Fault, L!Fails, LP!Fails, L!Goto, LP!Goto, L!Enter,
        LP!Enter, L!StartHandler, LP!StartHandler, L!AfterDrain, LP!AfterDrain, L!DrainGet,
        LP!DrainGet, L!DrainPut, LP!DrainPut, L!LockVotes, LP!LockVotes, L!Vote, LP!Vote,
        L!EarlyError, LP!EarlyError, L!Draining, LP!Draining
  <2>2. \A h : L!KeepingAlive(h) = LP!KeepingAlive(h)
    BY DEF L!cluster, LP!cluster, L!group, LP!group, L!sqs, LP!sqs, L!voters, LP!voters,
        L!handler, LP!handler, L!NoMessage, LP!NoMessage, L!NodeOf, LP!NodeOf, L!Restart,
        LP!Restart, L!Fault, LP!Fault, L!Fails, LP!Fails, L!Goto, LP!Goto, L!Enter,
        LP!Enter, L!StartCheck, LP!StartCheck, L!Errored, LP!Errored, L!CheckPasses,
        LP!CheckPasses, L!CheckFails, LP!CheckFails, L!CheckErrs, LP!CheckErrs, L!Extended,
        LP!Extended, L!BeatRecorded, LP!BeatRecorded, L!BeatErrs, LP!BeatErrs, L!Panics,
        LP!Panics, L!KeepingAlive, LP!KeepingAlive
  <2>3. \A h : L!Leaving(h) = LP!Leaving(h)
    BY DEF L!cluster, LP!cluster, L!group, LP!group, L!sqs, LP!sqs, L!voters, LP!voters,
        L!handler, LP!handler, L!NoMessage, LP!NoMessage, L!NodeOf, LP!NodeOf, L!Restart,
        LP!Restart, L!Fault, LP!Fault, L!Fails, LP!Fails, L!Goto, LP!Goto, L!Errored,
        LP!Errored, L!Send, LP!Send, L!DeleteReplaced, LP!DeleteReplaced, L!Unvote,
        LP!Unvote, L!ClearVotes, LP!ClearVotes, L!UndrainGet, LP!UndrainGet, L!UndrainPut,
        LP!UndrainPut, L!Fatal, LP!Fatal, L!Finish, LP!Finish, L!DeleteMessage,
        LP!DeleteMessage, L!Failed, LP!Failed, L!Leaving, LP!Leaving
  <2>. QED
    BY <2>1, <2>2, <2>3
    DEF L!cluster, LP!cluster, L!group, LP!group, L!sqs, LP!sqs, L!voters, LP!voters,
        L!handler, LP!handler, L!NoMessage, LP!NoMessage, L!NodeOf, LP!NodeOf, L!Restart,
        LP!Restart, L!Fault, LP!Fault, L!Fails, LP!Fails, L!Goto, LP!Goto, L!StartAction,
        LP!StartAction, L!Kept, LP!Kept, L!Expire, LP!Expire, L!Vacate, LP!Vacate, L!Leave,
        LP!Leave, L!Dispatch, LP!Dispatch, L!Exit, LP!Exit, L!Crash, LP!Crash, L!Next,
        LP!Next
<1>2. B!Next = BP!Next
  <2>1. \A h : B!Draining(h) = BP!Draining(h)
    BY DEF B!cluster, BP!cluster, B!group, BP!group, B!sqs, BP!sqs, B!voters, BP!voters,
        B!handler, BP!handler, B!NoMessage, BP!NoMessage, B!NodeOf, BP!NodeOf, B!Restart,
        BP!Restart, B!Fault, BP!Fault, B!Fails, BP!Fails, B!Goto, BP!Goto, B!Enter,
        BP!Enter, B!StartHandler, BP!StartHandler, B!AfterDrain, BP!AfterDrain, B!DrainGet,
        BP!DrainGet, B!DrainPut, BP!DrainPut, B!LockVotes, BP!LockVotes, B!Vote, BP!Vote,
        B!EarlyError, BP!EarlyError, B!Draining, BP!Draining
  <2>2. \A h : B!KeepingAlive(h) = BP!KeepingAlive(h)
    BY DEF B!cluster, BP!cluster, B!group, BP!group, B!sqs, BP!sqs, B!voters, BP!voters,
        B!handler, BP!handler, B!NoMessage, BP!NoMessage, B!NodeOf, BP!NodeOf, B!Restart,
        BP!Restart, B!Fault, BP!Fault, B!Fails, BP!Fails, B!Goto, BP!Goto, B!Enter,
        BP!Enter, B!StartCheck, BP!StartCheck, B!Errored, BP!Errored, B!CheckPasses,
        BP!CheckPasses, B!CheckFails, BP!CheckFails, B!CheckErrs, BP!CheckErrs, B!Extended,
        BP!Extended, B!BeatRecorded, BP!BeatRecorded, B!BeatErrs, BP!BeatErrs, B!Panics,
        BP!Panics, B!KeepingAlive, BP!KeepingAlive
  <2>3. \A h : B!Leaving(h) = BP!Leaving(h)
    BY DEF B!cluster, BP!cluster, B!group, BP!group, B!sqs, BP!sqs, B!voters, BP!voters,
        B!handler, BP!handler, B!NoMessage, BP!NoMessage, B!NodeOf, BP!NodeOf, B!Restart,
        BP!Restart, B!Fault, BP!Fault, B!Fails, BP!Fails, B!Goto, BP!Goto, B!Errored,
        BP!Errored, B!Send, BP!Send, B!DeleteReplaced, BP!DeleteReplaced, B!Unvote,
        BP!Unvote, B!ClearVotes, BP!ClearVotes, B!UndrainGet, BP!UndrainGet, B!UndrainPut,
        BP!UndrainPut, B!Fatal, BP!Fatal, B!Finish, BP!Finish, B!DeleteMessage,
        BP!DeleteMessage, B!Failed, BP!Failed, B!Leaving, BP!Leaving
  <2>. QED
    BY <2>1, <2>2, <2>3
    DEF B!cluster, BP!cluster, B!group, BP!group, B!sqs, BP!sqs, B!voters, BP!voters,
        B!handler, BP!handler, B!NoMessage, BP!NoMessage, B!NodeOf, BP!NodeOf, B!Restart,
        BP!Restart, B!Fault, BP!Fault, B!Fails, BP!Fails, B!Goto, BP!Goto, B!StartAction,
        BP!StartAction, B!Kept, BP!Kept, B!Expire, BP!Expire, B!Vacate, BP!Vacate, B!Leave,
        BP!Leave, B!Dispatch, BP!Dispatch, B!Exit, BP!Exit, B!Crash, BP!Crash, B!Next,
        BP!Next
<1>. QED
  BY <1>1, <1>2
  DEF Launching, ServicesNext, services, lifecycler, LP!cluster, LP!group, LP!sqs,
      LP!voters, LP!handler, LP!vars, BP!cluster, BP!group, BP!sqs, BP!voters, BP!handler,
      BP!vars

LEMMA LifecyclerStarts == ServicesInit => LP!Init /\ BP!Init
BY DEF ServicesInit, L!NoMessage, LP!NoMessage, L!ProcessInit, LP!ProcessInit, L!Init,
       LP!Init, BP!NoMessage, BP!ProcessInit, BP!Init

\* One of the two runs, and what both promise holds.
LEMMA LifecyclerIsPart ==
  ServicesSpec => ([]~Launching /\ LP!Spec) \/ ([]Launching /\ BP!Spec)
BY LifecyclerStarts, LifecyclerSteps, PTL DEF ServicesSpec, LP!Spec, BP!Spec

\* The parameters of the parts.
LEMMA Fit == LP!ParametersOK /\ BP!ParametersOK /\ KP!CommBufferCovers
BY ParametersFit
DEF L!ParametersOK, LP!ParametersOK, B!ParametersOK, BP!ParametersOK, K!CommBufferCovers,
    KP!CommBufferCovers

\* No node loses its exclusion from voting while its handler keeps its action waiting,
\* with either bound of the heartbeats (main.go:182-205).
THEOREM ServicesVotersAreExcluded == ServicesSpec => []VotingKept
<1>1. LP!VotingKept => VotingKept
  BY DEF VotingKept, L!NoMessage, LP!NoMessage, L!NodeOf, LP!NodeOf, L!Voted, LP!Voted,
         L!VotingKept, LP!VotingKept
<1>2. BP!VotingKept => VotingKept
  BY DEF VotingKept, L!NoMessage, BP!NoMessage, L!NodeOf, BP!NodeOf, L!Voted, BP!Voted,
         L!VotingKept, BP!VotingKept
<1>3. (LP!Spec => []LP!VotingKept) /\ (BP!Spec => []BP!VotingKept)
  BY Fit, LP!VotersAreExcluded, BP!VotersAreExcluded
<1>. QED
  BY <1>1, <1>2, <1>3, LifecyclerIsPart, PTL

\* The last handler with a vote clears the exclusions (main.go:187-199), with either
\* bound of the heartbeats.
THEOREM ServicesLastClears == ServicesSpec => VotingCleared
<1>1. LP!VotingCleared => VotingCleared
  BY PTL DEF VotingCleared, L!cluster, LP!cluster, L!group, LP!group, L!sqs, LP!sqs,
             L!voters, LP!voters, L!handler, LP!handler, L!vars, LP!vars, L!NoMessage,
             LP!NoMessage, L!NodeOf, LP!NodeOf, L!Voted, LP!Voted, L!VotingCleared,
             LP!VotingCleared
<1>2. BP!VotingCleared => VotingCleared
  BY PTL DEF VotingCleared, L!cluster, BP!cluster, L!group, BP!group, L!sqs, BP!sqs,
             L!voters, BP!voters, L!handler, BP!handler, L!vars, BP!vars, L!NoMessage,
             BP!NoMessage, L!NodeOf, BP!NodeOf, L!Voted, BP!Voted, L!VotingCleared,
             BP!VotingCleared
<1>3. (LP!Spec => LP!VotingCleared) /\ (BP!Spec => BP!VotingCleared)
  BY Fit, LP!LastClears, BP!LastClears
<1>. QED
  BY <1>1, <1>2, <1>3, LifecyclerIsPart, PTL

\* The last message about an action that waits is given up only for a reason, with
\* either bound of the heartbeats (main.go:221).
THEOREM ServicesPickUp == ServicesSpec => NeverForgotten
<1>1. ~Launching /\ [\A n \in Node : LP!GivenUpWhenOver(n)]_(LP!vars) =>
        [\A n \in Node : /\ program = "lifecycler" => L!GivenUpWhenOver(n)
                         /\ program = "launches" => B!GivenUpWhenOver(n)]_services
  BY DEF Launching, services, lifecycler, L!cluster, LP!cluster, L!group, LP!group, L!sqs,
         LP!sqs, L!voters, LP!voters, L!handler, LP!handler, L!vars, LP!vars, L!NodeOf,
         LP!NodeOf, L!About, LP!About, L!GivenUpWhenOver, LP!GivenUpWhenOver
<1>2. Launching /\ [\A n \in Node : BP!GivenUpWhenOver(n)]_(BP!vars) =>
        [\A n \in Node : /\ program = "lifecycler" => L!GivenUpWhenOver(n)
                         /\ program = "launches" => B!GivenUpWhenOver(n)]_services
  BY DEF Launching, services, lifecycler, B!cluster, BP!cluster, B!group, BP!group, B!sqs,
         BP!sqs, B!voters, BP!voters, B!handler, BP!handler, B!vars, BP!vars, B!NodeOf,
         BP!NodeOf, B!About, BP!About, B!GivenUpWhenOver, BP!GivenUpWhenOver
<1>3. (LP!Spec => LP!NeverForgotten) /\ (BP!Spec => BP!NeverForgotten)
  BY Fit, LP!PicksUpWhereItLeft, BP!PicksUpWhereItLeft
<1>4. []~Launching /\ LP!NeverForgotten => NeverForgotten
  BY <1>1, PTL DEF NeverForgotten, LP!NeverForgotten
<1>5. []Launching /\ BP!NeverForgotten => NeverForgotten
  BY <1>2, PTL DEF NeverForgotten, BP!NeverForgotten
<1>. QED
  BY <1>3, <1>4, <1>5, LifecyclerIsPart, PTL

\* The action is active until the first heartbeat that extends it, and until the next
\* check once a later one is recorded (lifecycle.go:144).
THEOREM ServicesKeepAlive == ServicesSpec => []KeptUntilCheck
<1>1. KP!KeptUntilCheck => KeptUntilCheck
  BY DEF KeptUntilCheck, K!KeptUntilCheck, KP!KeptUntilCheck
<1>2. KP!Spec => []KP!KeptUntilCheck
  BY Fit, KP!KeptBetweenChecks
<1>. QED
  BY <1>1, <1>2, KeepAliveIsPart, PTL

-----------------------------------------------------------------------------
(* The types.                                                              *)

LEMMA SameTypes ==
  /\ LP!TypeOK => L!TypeOK
  /\ BP!TypeOK => B!TypeOK
  /\ KP!TypeOK => K!TypeOK
  /\ SP!TypeOK => S!TypeOK
<1>1. LP!TypeOK => L!TypeOK
  BY DEF L!TypeOK, LP!TypeOK, L!Message, LP!Message, L!NoMessage, LP!NoMessage
<1>2. BP!TypeOK => B!TypeOK
  BY DEF B!TypeOK, BP!TypeOK, B!Message, BP!Message, B!NoMessage, BP!NoMessage
<1>3. KP!TypeOK => K!TypeOK
  BY DEF K!TypeOK, KP!TypeOK
<1>4. SP!TypeOK => S!TypeOK
  <2>1. S!Max(S!ToSet(Width)) = SP!Max(SP!ToSet(Width))
    BY DEF S!Max, SP!Max, S!ToSet, SP!ToSet
  <2>. QED
    BY <2>1 DEF S!TypeOK, SP!TypeOK, S!Running, SP!Running
<1>. QED
  BY <1>1, <1>2, <1>3, <1>4

\* Every variable of the program that runs keeps its type, for any values of the
\* constants that fit; the types of the others, which do not run, hold as well.
THEOREM ServicesTypes == ServicesSpec => []TypesOK
<1>1. ServicesSpec => []TypeOK
  BY PostponerIsPart, TypeCorrect, PTL
<1>2. ServicesSpec => []((program = "lifecycler" => L!TypeOK) /\ (program = "launches" => B!TypeOK))
  <2>1. (LP!Spec => []LP!TypeOK) /\ (BP!Spec => []BP!TypeOK)
    BY Fit, LP!TypeCorrect, BP!TypeCorrect
  <2>2. ~Launching /\ LP!TypeOK
          => (program = "lifecycler" => L!TypeOK) /\ (program = "launches" => B!TypeOK)
    BY SameTypes DEF Launching
  <2>3. Launching /\ BP!TypeOK
          => (program = "lifecycler" => L!TypeOK) /\ (program = "launches" => B!TypeOK)
    BY SameTypes DEF Launching
  <2>. QED
    BY <2>1, <2>2, <2>3, LifecyclerIsPart, PTL
<1>3. ServicesSpec => []Q!TypeOK
  <2>1. QueryInv => Q!TypeOK
    BY DEF QueryInv
  <2>. QED
    BY <2>1, QuerySpec, NodesQueryIsPart, PTL
<1>4. ServicesSpec => []K!TypeOK
  <2>1. KP!Spec => []KP!TypeOK
    BY Fit, KP!TypeCorrect
  <2>2. KP!TypeOK => K!TypeOK
    BY SameTypes
  <2>. QED
    BY <2>1, <2>2, KeepAliveIsPart, PTL
<1>5. ServicesSpec => []S!TypeOK
  <2>1. SP!Spec => []SP!TypeOK
    BY SnapshooterFits, SP!TypeCorrect
  <2>2. SP!TypeOK => S!TypeOK
    BY SameTypes
  <2>. QED
    BY <2>1, <2>2, SnapshooterIsPart, PTL
<1>6. ServicesSpec => []W!TypeOK
  <2>1. WindowsInv => W!TypeOK
    BY DEF WindowsInv
  <2>. QED
    BY <2>1, WindowsSpec, WindowsIsPart, PTL
<1>7. ServicesSpec => []C!TypeOK
  <2>1. CloudInv => C!TypeOK
    BY DEF CloudInv
  <2>. QED
    BY <2>1, CloudSpec, CloudwatcherIsPart, PTL
<1>8. ServicesSpec => []H!TypeOK
  BY HealthTypes, HealthIsPart, PTL
<1>. QED
  BY <1>1, <1>2, <1>3, <1>4, <1>5, <1>6, <1>7, <1>8, PTL DEF TypesOK
=============================================================================
