-------------------------- MODULE LifecyclerProofs --------------------------
(***************************************************************************)
(* Theorems about Lifecycler, for any nodes, masters and handlers, and any *)
(* numbers of heartbeats, messages and faults.                             *)
(***************************************************************************)
EXTENDS Lifecycler, FiniteSetTheorems, TLAPS

PcType == {"idle", "start", "get", "put", "vote", "post", "keep", "check",
           "beat", "unvote", "clear", "undrain", "unput", "delete",
           "send", "replace", "failed"}

\* A handler that runs has a message, of those there have been.
MessagesFit ==
  /\ \A m \in queue : m.id <= sent /\ m.count <= MaxBeats
  /\ \A h \in Handler :
       IF pc[h] = "idle" THEN msg[h] = NoMessage
         ELSE msg[h] \in Message /\ msg[h].id <= sent /\ msg[h].count <= MaxBeats

\* The count of heartbeats is the message's until KeepAlive raises it, and passes
\* their most only when KeepAlive gives up.
CountsFit ==
  \A h \in Handler :
    /\ pc[h] # "delete" => count[h] <= MaxBeats
    /\ pc[h] = "beat" => count[h] > 0
    /\ pc[h] \in {"start", "get", "put", "vote", "post"} => count[h] = msg[h].count

TypeInv == TypeOK /\ MessagesFit /\ CountsFit

LEMMA NoMessageIsNone == NoMessage \notin Message
BY DEF NoMessage, Message

LEMMA InitTypeInv == ParametersOK /\ Init => TypeInv
<1>. SUFFICES ASSUME ParametersOK, Init PROVE TypeInv
  OBVIOUS
<1>0. /\ 0 \in 0..MaxBeats /\ 0 \in 0..MaxBeats + 1 /\ 0 \in 0..MaxSent /\ 0 \in 0..MaxFaults
      /\ launching \subseteq Node
  BY DEF ParametersOK, Init
<1>1. TypeOK
  BY <1>0 DEF Init, ProcessInit, TypeOK
<1>2. MessagesFit /\ CountsFit
  BY DEF ParametersOK, Init, ProcessInit, MessagesFit, CountsFit
<1>. QED
  BY <1>1, <1>2 DEF TypeInv

LEMMA RestartTypeInv ==
  ASSUME ParametersOK, TypeInv, Restart, UNCHANGED <<members, holders, group, sent>>,
         excluded' \subseteq Node, voting' \subseteq Node, queue' \subseteq queue,
         faults' \in 0..MaxFaults
  PROVE  TypeInv'
<1>0. 0 \in 0..MaxBeats + 1
  BY DEF ParametersOK
<1>1. TypeOK'
  BY <1>0 DEF TypeInv, TypeOK, Restart, group
<1>2. MessagesFit' /\ CountsFit'
  BY DEF ParametersOK, TypeInv, MessagesFit, CountsFit, Restart
<1>. QED
  BY <1>1, <1>2 DEF TypeInv

LEMMA FaultType ==
  ASSUME ParametersOK, TypeInv, Fault \/ UNCHANGED faults
  PROVE  faults' \in 0..MaxFaults
BY DEF ParametersOK, TypeInv, TypeOK, Fault

LEMMA EnvironmentTypeInv ==
  ASSUME ParametersOK, TypeInv, NEW n \in Node,
         StartAction(n) \/ Expire(n) \/ Vacate(n) \/ Leave(n)
  PROVE  TypeInv'
<1>. MaxBeats \in Nat /\ MaxSent \in Nat /\ sent \in 0..MaxSent
  BY DEF ParametersOK, TypeInv, TypeOK
<1>1. CASE StartAction(n)
  <2>. DEFINE new == [id |-> sent + 1, node |-> n, count |-> 0]
  <2>1. sent + 1 \in 1..MaxSent /\ new \in Message /\ new.id = sent + 1 /\ new.count = 0
    BY <1>1 DEF StartAction, Message
  <2>2. queue' = queue \cup {new} /\ sent' = sent + 1
    BY <1>1 DEF StartAction
  <2>3. TypeOK'
    BY <1>1, <2>1, <2>2 DEF StartAction, TypeInv, TypeOK, cluster, voters, handler
  <2>4. \A m \in queue' : m.id <= sent' /\ m.count <= MaxBeats
    <3>1. \A m \in queue : m.id \in 1..MaxSent /\ m.id <= sent
      BY DEF TypeInv, TypeOK, MessagesFit, Message
    <3>. QED
      BY <2>1, <2>2, <3>1 DEF TypeInv, MessagesFit
  <2>5. MessagesFit' /\ CountsFit'
    <3>1. \A h \in Handler : pc[h] # "idle" => msg[h].id \in 1..MaxSent
      BY DEF TypeInv, MessagesFit, Message
    <3>. QED
      BY <1>1, <2>2, <2>4, <3>1 DEF StartAction, TypeInv, MessagesFit, CountsFit, handler
  <2>. QED
    BY <2>3, <2>5 DEF TypeInv
<1>2. CASE Expire(n) \/ Vacate(n) \/ Leave(n)
  BY <1>2 DEF Expire, Vacate, Leave, TypeInv, TypeOK, MessagesFit, CountsFit, cluster, group,
              sqs, voters, handler
<1>. QED
  BY <1>1, <1>2

LEMMA DispatchTypeInv ==
  ASSUME ParametersOK, TypeInv, NEW h \in Handler, NEW m \in queue, Dispatch(h, m)
  PROVE  TypeInv'
<1>1. m \in Message /\ m.id <= sent /\ m.count <= MaxBeats /\ m.count \in 0..MaxBeats + 1
  BY DEF TypeInv, TypeOK, MessagesFit, Message
<1>2. TypeOK'
  BY <1>1 DEF Dispatch, Goto, TypeInv, TypeOK, cluster, group, sqs, voters
<1>3. MessagesFit' /\ CountsFit'
  BY <1>1 DEF Dispatch, Goto, TypeInv, TypeOK, MessagesFit, CountsFit, sqs
<1>. QED
  BY <1>2, <1>3 DEF TypeInv

\* The steps of a handler up to KeepAlive.
LEMMA DrainingTypeInv ==
  ASSUME ParametersOK, TypeInv, NEW h \in Handler, Draining(h)
  PROVE  TypeInv'
<1>0. /\ MaxBeats \in Nat /\ faults' \in 0..MaxFaults /\ pc[h] # "idle" /\ msg' = msg
      /\ count' = count /\ UNCHANGED sqs
  BY FaultType DEF ParametersOK, Draining, StartHandler, DrainGet, DrainPut, LockVotes, Vote,
                   EarlyError, Fails
<1>1. msg[h] \in Message /\ NodeOf(h) \in Node /\ fetched[h] \subseteq Node
  BY <1>0 DEF TypeInv, TypeOK, MessagesFit, NodeOf, Message
<1>2. PICK w \in PcType \ {"idle", "start", "beat"} : pc' = [pc EXCEPT ![h] = w]
  BY DEF Draining, StartHandler, DrainGet, DrainPut, LockVotes, Vote, EarlyError, AfterDrain,
         Enter, Goto, PcType
<1>3. pc[h] \in {"start", "get", "put", "vote", "post"}
  BY DEF Draining, StartHandler, DrainGet, DrainPut, LockVotes, Vote, EarlyError
<1>4. pc' \in [Handler -> PcType]
  BY <1>2 DEF TypeInv, TypeOK, PcType
<1>5. \/ why' = why
      \/ \E r \in {"none", "left", "passed", "expired"} : why' = [why EXCEPT ![h] = r]
  <2>1. why' = [why EXCEPT ![h] = why[h]] => why' = why
    BY DEF TypeInv, TypeOK
  <2>2. ASSUME NEW voted, Enter(h, voted)
        PROVE  why' = why \/ why' = [why EXCEPT ![h] = "expired"]
    BY <2>1, <2>2 DEF Enter
  <2>3. AfterDrain(h) => why' = why \/ why' = [why EXCEPT ![h] = "expired"]
    BY <2>2 DEF AfterDrain
  <2>4. CASE StartHandler(h) \/ Vote(h)
    BY <2>2, <2>4 DEF StartHandler, Vote
  <2>5. CASE DrainGet(h) \/ DrainPut(h)
    BY <2>3, <2>5 DEF DrainGet, DrainPut
  <2>6. CASE LockVotes(h) \/ EarlyError(h)
    BY <2>6 DEF LockVotes, EarlyError
  <2>. QED
    BY <2>4, <2>5, <2>6 DEF Draining
<1>6. why' \in [Handler -> {"none", "left", "passed", "expired"}]
  BY <1>5 DEF TypeInv, TypeOK
<1>7. leaked' \in BOOLEAN
  <2>1. leaked \in BOOLEAN
    BY DEF TypeInv, TypeOK
  <2>2. ASSUME NEW voted, Enter(h, voted)
        PROVE  leaked' \in BOOLEAN
    BY <2>2 DEF Enter
  <2>3. AfterDrain(h) => leaked' \in BOOLEAN
    BY <2>1, <2>2 DEF AfterDrain
  <2>4. CASE StartHandler(h) \/ Vote(h)
    BY <2>1, <2>2, <2>4 DEF StartHandler, Vote
  <2>5. CASE DrainGet(h) \/ DrainPut(h)
    BY <2>1, <2>3, <2>5 DEF DrainGet, DrainPut
  <2>6. CASE LockVotes(h) \/ EarlyError(h)
    BY <2>1, <2>6 DEF LockVotes, EarlyError
  <2>. QED
    BY <2>4, <2>5, <2>6 DEF Draining
<1>8. TypeOK'
  <2>1. /\ excluded' \subseteq Node /\ voting' \subseteq Node
        /\ fetched' \in [Handler -> SUBSET Node]
    <3>1. /\ excluded \subseteq Node /\ voting \subseteq Node
          /\ fetched \in [Handler -> SUBSET Node]
      BY DEF TypeInv, TypeOK
    <3>2. excluded' \in {excluded, fetched[h] \cup {NodeOf(h)}}
      BY DEF Draining, StartHandler, DrainGet, DrainPut, LockVotes, Vote, EarlyError, cluster
    <3>3. voting' \in {voting, voting \cup {NodeOf(h)}}
      BY DEF Draining, StartHandler, DrainGet, DrainPut, LockVotes, Vote, EarlyError, cluster
    <3>4. \/ fetched' = fetched
          \/ \E S \in {excluded, {}} : fetched' = [fetched EXCEPT ![h] = S]
      BY DEF Draining, StartHandler, DrainGet, DrainPut, LockVotes, Vote, EarlyError
    <3>5. excluded' \subseteq Node /\ voting' \subseteq Node
      BY <1>1, <3>1, <3>2, <3>3
    <3>6. fetched' \in [Handler -> SUBSET Node]
      BY <3>1, <3>4
    <3>. QED
      BY <3>5, <3>6
  <2>2. votingLock' \in Handler \cup {Free} /\ votingCount' \in Nat
    <3>1. votingLock \in Handler \cup {Free} /\ votingCount \in Nat
      BY DEF TypeInv, TypeOK
    <3>2. votingLock' \in {votingLock, h, Free}
      BY DEF Draining, StartHandler, DrainGet, DrainPut, LockVotes, Vote, EarlyError
    <3>3. votingCount' \in {votingCount, votingCount + 1}
      BY DEF Draining, StartHandler, DrainGet, DrainPut, LockVotes, Vote, EarlyError
    <3>. QED
      BY <3>1, <3>2, <3>3
  <2>3. UNCHANGED <<members, holders, group, ctxDone>>
    BY DEF Draining, StartHandler, DrainGet, DrainPut, LockVotes, Vote, EarlyError, cluster
  <2>. QED
    BY <1>0, <1>4, <1>6, <1>7, <2>1, <2>2, <2>3 DEF TypeInv, TypeOK, group, sqs, PcType
<1>9. MessagesFit' /\ CountsFit'
  BY <1>0, <1>2, <1>3 DEF TypeInv, TypeOK, MessagesFit, CountsFit, sqs
<1>. QED
  BY <1>8, <1>9 DEF TypeInv

\* The part of TypeInv that is not about where the handlers are.
SharedOK ==
  /\ excluded \subseteq Node /\ voting \subseteq Node /\ beats \in [Node -> 0..MaxBeats]
  /\ sent \in 0..MaxSent /\ queue \subseteq Message
  /\ \A m \in queue : m.id <= sent /\ m.count <= MaxBeats
  /\ leaked \in BOOLEAN /\ faults \in 0..MaxFaults
  /\ votingLock \in Handler \cup {Free} /\ votingCount \in Nat
  /\ why \in [Handler -> {"none", "left", "passed", "expired"}]
  /\ fetched \in [Handler -> SUBSET Node]

LEMMA SharedFits ==
  ASSUME TypeInv
  PROVE  SharedOK
BY DEF TypeInv, TypeOK, MessagesFit, SharedOK

\* A step of a handler once KeepAlive was called.
LEMMA StepTypeInv ==
  ASSUME ParametersOK, TypeInv, NEW h \in Handler, pc[h] # "idle",
         NEW w \in PcType \ {"idle", "start", "get", "put", "vote", "post"},
         pc' = [pc EXCEPT ![h] = w], msg' = msg,
         NEW c \in 0..MaxBeats + 1, count' = [count EXCEPT ![h] = c],
         w # "delete" => c <= MaxBeats, w = "beat" => c > 0,
         SharedOK', sent <= sent', UNCHANGED <<members, holders, launching, action, ctxDone>>
  PROVE  TypeInv'
<1>1. TypeOK'
  BY DEF TypeInv, TypeOK, SharedOK, PcType
<1>2. MessagesFit'
  <2>1. \A g \in Handler : msg[g] \in Message => msg[g].id \in Nat
    BY DEF Message
  <2>2. sent \in Nat /\ sent' \in Nat
    BY DEF ParametersOK, TypeInv, TypeOK, SharedOK
  <2>. QED
    BY <2>1, <2>2 DEF TypeInv, TypeOK, MessagesFit, SharedOK
<1>3. CountsFit'
  BY DEF TypeInv, TypeOK, CountsFit
<1>. QED
  BY <1>1, <1>2, <1>3 DEF TypeInv

LEMMA KeepingAliveTypeInv ==
  ASSUME ParametersOK, TypeInv, NEW h \in Handler, KeepingAlive(h)
  PROVE  TypeInv'
<1>0. /\ MaxBeats \in Nat /\ pc[h] # "idle" /\ SharedOK
  BY SharedFits DEF ParametersOK, KeepingAlive, StartCheck, CheckPasses, CheckFails, CheckErrs,
                    BeatRecorded, BeatErrs, Panics
<1>1. /\ msg[h] \in Message /\ NodeOf(h) \in Node /\ count[h] \in 0..MaxBeats + 1
      /\ (pc[h] # "delete" => count[h] \in 0..MaxBeats)
      /\ count = [count EXCEPT ![h] = count[h]] /\ why = [why EXCEPT ![h] = why[h]]
  <2>1. count[h] \in 0..MaxBeats + 1 /\ (pc[h] # "delete" => count[h] <= MaxBeats)
        /\ count = [count EXCEPT ![h] = count[h]] /\ why = [why EXCEPT ![h] = why[h]]
    BY DEF TypeInv, TypeOK, CountsFit
  <2>2. msg[h] \in Message /\ NodeOf(h) \in Node
    BY <1>0 DEF TypeInv, MessagesFit, NodeOf, Message
  <2>. QED
    BY <1>0, <2>1, <2>2
<1>2. Extended(NodeOf(h)) \in [Node -> 0..MaxBeats]
  BY <1>0, <1>1 DEF SharedOK, Extended
<1>3. Fault \/ UNCHANGED faults => faults' \in 0..MaxFaults
  BY FaultType
<1>s. ASSUME NEW w \in {"keep", "check", "beat", "unvote", "undrain", "delete", "send", "failed"},
             pc' = [pc EXCEPT ![h] = w],
             NEW c \in 0..MaxBeats + 1, count' = [count EXCEPT ![h] = c],
             w # "delete" => c <= MaxBeats, w = "beat" => c > 0, SharedOK',
             UNCHANGED <<msg, members, holders, launching, action, ctxDone, sent>>
      PROVE  TypeInv'
  <2>1. w \in PcType \ {"idle", "start", "get", "put", "vote", "post"}
    BY DEF PcType
  <2>2. sent <= sent'
    BY <1>0, <1>s DEF SharedOK
  <2>. QED
    BY <1>0, <1>s, <2>1, <2>2, StepTypeInv
<1>4. CASE StartCheck(h)
  <2>1. SharedOK'
    BY <1>0, <1>4 DEF StartCheck, SharedOK, cluster, group, sqs, voters
  <2>2. /\ pc' = [pc EXCEPT ![h] = "check"] /\ count' = [count EXCEPT ![h] = count[h]]
        /\ count[h] \in 0..MaxBeats + 1 /\ count[h] <= MaxBeats
        /\ UNCHANGED <<msg, members, holders, launching, action, ctxDone, sent>>
    BY <1>0, <1>1, <1>4 DEF StartCheck, Goto, cluster, group, sqs
  <2>. QED
    BY <2>1, <2>2, <1>s
<1>5. CASE CheckPasses(h)
  <2>1. SharedOK'
    BY <1>0, <1>3, <1>5 DEF CheckPasses, SharedOK, cluster, group, sqs, voters
  <2>2. PICK w \in {"delete", "unvote", "undrain"} : pc' = [pc EXCEPT ![h] = w]
    BY <1>5 DEF CheckPasses, Goto
  <2>3. /\ count[h] \in 0..MaxBeats + 1 /\ count[h] <= MaxBeats
        /\ count' = [count EXCEPT ![h] = count[h]]
        /\ UNCHANGED <<msg, members, holders, launching, action, ctxDone, sent>>
    BY <1>0, <1>1, <1>5 DEF CheckPasses, cluster, group, sqs
  <2>. QED
    BY <2>1, <2>2, <2>3, <1>s
<1>6. CASE CheckFails(h)
  <2>1. SharedOK'
    BY <1>0, <1>6 DEF CheckFails, SharedOK, cluster, group, sqs
  <2>2. /\ count[h] \in 0..MaxBeats /\ count[h] + 1 \in 0..MaxBeats + 1 /\ count[h] + 1 > 0
        /\ count' = [count EXCEPT ![h] = count[h] + 1]
        /\ UNCHANGED <<msg, members, holders, launching, action, ctxDone, sent>>
    BY <1>0, <1>1, <1>6 DEF CheckFails, cluster, group, sqs
  <2>3. CASE count[h] >= MaxBeats
    <3>1. pc' = [pc EXCEPT ![h] = "delete"]
      BY <1>6, <2>3 DEF CheckFails, Goto
    <3>. QED
      BY <2>1, <2>2, <3>1, <1>s
  <2>4. CASE ~(count[h] >= MaxBeats)
    <3>1. pc' = [pc EXCEPT ![h] = "beat"]
      BY <1>6, <2>4 DEF CheckFails, Goto
    <3>2. count[h] + 1 <= MaxBeats
      BY <1>0, <2>2, <2>4
    <3>. QED
      BY <2>1, <2>2, <3>1, <3>2, <1>s
  <2>. QED
    BY <2>3, <2>4
<1>7. ASSUME NEW c \in 0..MaxBeats, Errored(h, c), SharedOK', msg' = msg,
             UNCHANGED <<members, holders, launching, action, ctxDone, sent>>
      PROVE  TypeInv'
  <2>1. PICK w \in {"send", "failed"} : pc' = [pc EXCEPT ![h] = w]
    BY <1>7 DEF Errored, Goto
  <2>2. c \in 0..MaxBeats + 1 /\ c <= MaxBeats /\ count' = [count EXCEPT ![h] = c]
    BY <1>0, <1>7 DEF Errored
  <2>. QED
    BY <1>7, <2>1, <2>2, <1>s
<1>8. CASE CheckErrs(h)
  <2>1. SharedOK'
    BY <1>0, <1>3, <1>8 DEF CheckErrs, Fails, SharedOK, cluster, group, sqs, voters
  <2>. QED
    BY <1>1, <1>7, <1>8, <2>1 DEF CheckErrs, cluster, group, sqs
<1>9. CASE BeatRecorded(h)
  <2>1. SharedOK'
    BY <1>0, <1>2, <1>9 DEF BeatRecorded, SharedOK, cluster, sqs, voters
  <2>2. /\ pc' = [pc EXCEPT ![h] = "keep"] /\ count' = [count EXCEPT ![h] = count[h]]
        /\ count[h] \in 0..MaxBeats + 1 /\ count[h] <= MaxBeats
        /\ UNCHANGED <<msg, members, holders, launching, action, ctxDone, sent>>
    BY <1>0, <1>1, <1>9 DEF BeatRecorded, Goto, cluster, sqs
  <2>. QED
    BY <2>1, <2>2, <1>s
<1>10. CASE BeatErrs(h)
  <2>1. SharedOK'
    BY <1>0, <1>2, <1>3, <1>10 DEF BeatErrs, Fails, SharedOK, cluster, sqs, voters
  <2>2. count[h] > 0
    BY <1>10 DEF BeatErrs, TypeInv, CountsFit
  <2>3. count[h] - 1 \in 0..MaxBeats /\ count[h] \in 0..MaxBeats
    BY <1>0, <1>1, <1>10, <2>2 DEF BeatErrs
  <2>. QED
    BY <1>7, <1>10, <2>1, <2>3 DEF BeatErrs, cluster, sqs
<1>11. CASE Panics(h)
  <2>1. faults' \in 0..MaxFaults
    BY <1>3, <1>11 DEF Panics, Fails
  <2>. QED
    BY <1>0, <1>11, <2>1, RestartTypeInv DEF Panics, SharedOK, cluster, sqs
<1>. QED
  BY <1>4, <1>5, <1>6, <1>8, <1>9, <1>10, <1>11 DEF KeepingAlive

\* The steps of a handler after KeepAlive.  The count of votes is not lowered below 0.
LEMMA LeavingTypeInv ==
  ASSUME ParametersOK, TypeInv, NEW h \in Handler, Leaving(h), Unvote(h) => votingCount > 0
  PROVE  TypeInv'
<1>0. pc[h] # "idle" /\ SharedOK
  BY SharedFits DEF Leaving, Send, DeleteReplaced, Unvote, ClearVotes, UndrainGet, UndrainPut,
                    Fatal, DeleteMessage, Failed
<1>1. /\ msg[h] \in Message /\ NodeOf(h) \in Node /\ count[h] \in 0..MaxBeats + 1
      /\ (pc[h] # "delete" => count[h] <= MaxBeats)
      /\ count = [count EXCEPT ![h] = count[h]]
  <2>1. count[h] \in 0..MaxBeats + 1 /\ (pc[h] # "delete" => count[h] <= MaxBeats)
        /\ count = [count EXCEPT ![h] = count[h]]
    BY DEF TypeInv, TypeOK, CountsFit
  <2>2. msg[h] \in Message /\ NodeOf(h) \in Node
    BY <1>0 DEF TypeInv, MessagesFit, NodeOf, Message
  <2>. QED
    BY <2>1, <2>2
<1>2. MaxBeats \in Nat /\ MaxSent \in Nat /\ sent \in 0..MaxSent
  BY <1>0 DEF ParametersOK, SharedOK
<1>3. Fault \/ UNCHANGED faults => faults' \in 0..MaxFaults
  BY FaultType
<1>s. ASSUME NEW w \in {"replace", "failed", "clear", "undrain", "unput", "delete"},
             pc' = [pc EXCEPT ![h] = w], pc[h] # "delete", SharedOK', sent <= sent',
             UNCHANGED <<msg, count, members, holders, launching, action, ctxDone>>
      PROVE  TypeInv'
  <2>1. w \in PcType \ {"idle", "start", "get", "put", "vote", "post"} /\ w # "beat"
    BY DEF PcType
  <2>2. count' = [count EXCEPT ![h] = count[h]] /\ count[h] <= MaxBeats
    BY <1>1, <1>s
  <2>. QED
    BY <1>0, <1>1, <1>s, <2>1, <2>2, StepTypeInv
<1>4. CASE Send(h)
  <2>. DEFINE new == [id |-> sent + 1, node |-> NodeOf(h), count |-> count[h]]
  <2>1. /\ pc[h] = "send" /\ sent' = sent + 1 /\ sent + 1 \in 0..MaxSent
        /\ queue' = queue \cup {new}
    BY <1>2, <1>4 DEF Send
  <2>2. new \in Message /\ new.id = sent + 1 /\ new.count <= MaxBeats
    BY <1>1, <1>2, <2>1 DEF Message
  <2>3. \A m \in queue' : m \in Message /\ m.id <= sent + 1 /\ m.count <= MaxBeats
    <3>1. \A m \in queue : m.id \in 1..MaxSent
      BY <1>0 DEF SharedOK, Message
    <3>. QED
      BY <1>0, <1>2, <2>1, <2>2, <3>1 DEF SharedOK
  <2>4. SharedOK'
    <3>1. UNCHANGED <<excluded, voting, beats, leaked, faults, votingLock, votingCount, why,
                      fetched>>
      BY <1>4 DEF Send, cluster, group, voters
    <3>. QED
      BY <1>0, <2>1, <2>3, <3>1 DEF SharedOK
  <2>5. /\ pc' = [pc EXCEPT ![h] = "replace"] /\ sent <= sent'
        /\ UNCHANGED <<msg, count, members, holders, launching, action, ctxDone>>
    BY <1>2, <1>4, <2>1 DEF Send, Goto, cluster, group
  <2>. QED
    BY <2>1, <2>4, <2>5, <1>s
<1>5. CASE DeleteReplaced(h) \/ ClearVotes(h) \/ UndrainGet(h) \/ UndrainPut(h) \/ Unvote(h)
  <2>1. SharedOK'
    <3>1. CASE DeleteReplaced(h) \/ ClearVotes(h)
      BY <1>0, <3>1 DEF DeleteReplaced, ClearVotes, SharedOK, cluster, group, sqs, voters
    <3>2. CASE UndrainGet(h) \/ UndrainPut(h)
      BY <1>0, <3>2 DEF UndrainGet, UndrainPut, SharedOK, cluster, group, sqs, voters
    <3>3. CASE Unvote(h)
      <4>1. votingCount' = votingCount - 1 /\ votingCount > 0 /\ votingLock' \in {votingLock, h}
        BY <3>3 DEF Unvote
      <4>. QED
        BY <1>0, <3>3, <4>1 DEF Unvote, SharedOK, cluster, group, sqs
    <3>. QED
      BY <1>5, <3>1, <3>2, <3>3
  <2>2. PICK w \in {"replace", "failed", "clear", "undrain", "unput", "delete"} :
          pc' = [pc EXCEPT ![h] = w]
    BY <1>5 DEF DeleteReplaced, ClearVotes, UndrainGet, UndrainPut, Unvote, Goto
  <2>3. /\ pc[h] # "delete"
        /\ UNCHANGED <<msg, count, members, holders, launching, action, ctxDone, sent>>
    BY <1>5 DEF DeleteReplaced, ClearVotes, UndrainGet, UndrainPut, Unvote, cluster, group, sqs
  <2>4. sent <= sent' /\ UNCHANGED <<msg, count, members, holders, launching, action, ctxDone>>
    BY <1>2, <2>3
  <2>5. pc[h] # "delete"
    BY <2>3
  <2>. QED
    BY <2>1, <2>2, <2>4, <2>5, <1>s
<1>6. CASE Fatal(h)
  <2>1. /\ faults' \in 0..MaxFaults /\ voting' \subseteq Node /\ queue' \subseteq queue
        /\ excluded' \subseteq Node
    BY <1>0, <1>3, <1>6 DEF Fatal, Fails, SharedOK
  <2>. QED
    BY <1>6, <2>1, RestartTypeInv DEF Fatal
<1>7. CASE DeleteMessage(h) \/ Failed(h)
  <2>1. /\ Finish(h) /\ queue' \subseteq queue /\ faults' \in 0..MaxFaults /\ ctxDone' \in BOOLEAN
        /\ UNCHANGED <<cluster, group, sent, voters>>
    BY <1>0, <1>3, <1>7 DEF DeleteMessage, Failed, Fails, SharedOK, sqs, TypeInv, TypeOK
  <2>2. TypeOK'
    <3>1. 0 \in 0..MaxBeats + 1
      BY <1>2
    <3>. QED
      BY <2>1, <3>1 DEF Finish, Goto, TypeInv, TypeOK, cluster, group, voters
  <2>3. MessagesFit' /\ CountsFit'
    BY <1>2, <2>1 DEF Finish, Goto, TypeInv, TypeOK, MessagesFit, CountsFit
  <2>. QED
    BY <2>2, <2>3 DEF TypeInv
<1>. QED
  BY <1>4, <1>5, <1>6, <1>7 DEF Leaving

\* Every step keeps the types, provided no vote is taken back that was not counted.
LEMMA NextTypeInv ==
  ASSUME ParametersOK, TypeInv, Next, \A h \in Handler : Unvote(h) => votingCount > 0
  PROVE  TypeInv'
<1>1. CASE Exit \/ Crash
  <2>1. faults' \in 0..MaxFaults
    BY <1>1, FaultType DEF Exit, Crash
  <2>2. SharedOK
    BY SharedFits
  <2>3. UNCHANGED <<members, holders, group, sent>> /\ Restart
    BY <1>1 DEF Exit, Crash, cluster, sqs
  <2>4. excluded' \subseteq Node /\ voting' \subseteq Node /\ queue' \subseteq queue
    BY <1>1, <2>2 DEF Exit, Crash, cluster, sqs, SharedOK
  <2>. QED
    BY <2>1, <2>3, <2>4, RestartTypeInv
<1>2. ASSUME NEW n \in Node, StartAction(n) \/ Expire(n) \/ Vacate(n) \/ Leave(n)
      PROVE  TypeInv'
  BY <1>2, EnvironmentTypeInv
<1>3. ASSUME NEW h \in Handler, NEW m \in queue, Dispatch(h, m)
      PROVE  TypeInv'
  BY <1>3, DispatchTypeInv
<1>4. ASSUME NEW h \in Handler, Draining(h) \/ KeepingAlive(h)
      PROVE  TypeInv'
  BY <1>4, DrainingTypeInv, KeepingAliveTypeInv
<1>5. ASSUME NEW h \in Handler, Leaving(h)
      PROVE  TypeInv'
  BY <1>5, LeavingTypeInv
<1>. QED
  BY <1>1, <1>2, <1>3, <1>4, <1>5 DEF Next

LEMMA StutterTypeInv ==
  ASSUME TypeInv, UNCHANGED vars
  PROVE  TypeInv'
BY DEF TypeInv, TypeOK, MessagesFit, CountsFit, vars, cluster, group, sqs, voters, handler

-----------------------------------------------------------------------------
(* The votes: who is counted, and what the lock protects.                  *)

Voters == {h \in Handler : Voted(h)}

\* Handlers that return an error and leave their vote counted: the process ends.
Gone == {h \in Handler : pc[h] \in {"send", "replace", "failed"}}

LockHeld == \A h \in Handler : pc[h] \in {"post", "clear"} => votingLock = h

VotersAreMasters ==
  \A h \in Handler :
    /\ pc[h] \in {"get", "put"} => NodeOf(h) \notin launching
    /\ pc[h] \in {"vote", "post", "unvote", "clear"} => NodeOf(h) \in Master \ launching

\* votingCount never misses a voter, and counts nobody else unless an action with a
\* vote expired or the process is about to end.
VotesCounted ==
  /\ IsFiniteSet(Voters \cup Gone)
  /\ Cardinality(Voters) <= votingCount
  /\ ~leaked /\ ~ctxDone => votingCount <= Cardinality(Voters \cup Gone)

NobodyVotes == \A h \in Handler : pc[h] = "clear" => Voters = {}

VoteInv == LockHeld /\ VotersAreMasters /\ VotesCounted /\ NobodyVotes /\ VotingKept

\* A handler in KeepAlive, or about to clean up, of a node it drained.
LEMMA VotersAre ==
  ASSUME TypeInv
  PROVE  \A h \in Handler :
           h \in Voters <=> /\ pc[h] \in {"keep", "check", "beat", "unvote"}
                            /\ NodeOf(h) \in Master \ launching
BY NoMessageIsNone DEF TypeInv, MessagesFit, Voters, Voted

LEMMA NobodyCounted ==
  ASSUME NEW S, S = {}
  PROVE  IsFiniteSet(S) /\ Cardinality(S) = 0
BY FS_EmptySet

\* A step after which no handler has a vote, nor is about to.
LEMMA NoVotesInv ==
  ASSUME Restart
  PROVE  VoteInv'
<1>1. Voters' = {} /\ Gone' = {}
  BY DEF Restart, Voters, Gone, Voted
<1>2. IsFiniteSet({}) /\ Cardinality({}) = 0
  BY FS_EmptySet
<1>3. VotesCounted'
  BY <1>1, <1>2 DEF Restart, VotesCounted
<1>4. LockHeld' /\ VotersAreMasters' /\ NobodyVotes' /\ VotingKept'
  BY <1>1 DEF Restart, LockHeld, VotersAreMasters, NobodyVotes, VotingKept, Voted
<1>. QED
  BY <1>3, <1>4 DEF VoteInv

\* Who holds the lock, and whose handlers get as far as voting.
LEMMA PlacesKept ==
  ASSUME ParametersOK, TypeInv, TypeInv', LockHeld, VotersAreMasters, NEW h \in Handler,
         Draining(h) \/ KeepingAlive(h) \/ Leaving(h), ~Restart
  PROVE  LockHeld' /\ VotersAreMasters'
<1>0. /\ pc \in [Handler -> PcType] /\ Free \notin Handler /\ launching' = launching
      /\ \A g \in Handler \ {h} : pc'[g] = pc[g] /\ msg'[g] = msg[g]
  <2>1. pc \in [Handler -> PcType] /\ Free \notin Handler
    BY DEF ParametersOK, TypeInv, TypeOK, PcType
  <2>2. CASE Draining(h)
    BY <2>1, <2>2 DEF Draining, StartHandler, DrainGet, DrainPut, LockVotes, Vote, EarlyError,
           AfterDrain, Enter, Goto, group
  <2>3. CASE KeepingAlive(h)
    BY <2>1, <2>3 DEF KeepingAlive, StartCheck, CheckPasses, CheckFails, CheckErrs, BeatRecorded,
           BeatErrs, Panics, Errored, Goto, group
  <2>4. CASE Leaving(h)
    BY <2>1, <2>4 DEF Leaving, Send, DeleteReplaced, Unvote, ClearVotes, UndrainGet, UndrainPut,
           Fatal, DeleteMessage, Failed, Finish, Goto, group, TypeInv, TypeOK
  <2>. QED
    BY <2>1, <2>2, <2>3, <2>4
<1>1. CASE Draining(h)
  <2>1. /\ msg' = msg
        /\ pc'[h] \in {"get", "put"} => NodeOf(h) \notin launching
        /\ pc'[h] \in {"vote", "post"} => NodeOf(h) \in Master \ launching
        /\ pc'[h] \notin {"unvote", "clear"}
    BY <1>0, <1>1 DEF Draining, StartHandler, DrainGet, DrainPut, LockVotes, Vote, EarlyError,
           AfterDrain, Enter, Goto, VotersAreMasters
  <2>2. /\ pc'[h] = "post" => votingLock' = h
        /\ votingLock' = votingLock \/ votingLock \in {Free, h}
    BY <1>0, <1>1 DEF Draining, StartHandler, DrainGet, DrainPut, LockVotes, Vote, EarlyError,
           AfterDrain, Enter, Goto, voters, LockHeld
  <2>. QED
    BY <1>0, <2>1, <2>2 DEF LockHeld, VotersAreMasters, NodeOf
<1>2. CASE KeepingAlive(h)
  <2>1. /\ msg' = msg /\ votingLock' = votingLock
        /\ pc'[h] = "unvote" => NodeOf(h) \in Master \ launching
        /\ pc'[h] \notin {"get", "put", "vote", "post", "clear"}
    BY <1>0, <1>2 DEF KeepingAlive, StartCheck, CheckPasses, CheckFails, CheckErrs, BeatRecorded,
           BeatErrs, Panics, Errored, Goto, voters
  <2>. QED
    BY <1>0, <2>1 DEF LockHeld, VotersAreMasters, NodeOf
<1>3. CASE Leaving(h)
  <2>1. /\ pc'[h] = "clear" => NodeOf(h) \in Master \ launching /\ msg' = msg /\ votingLock' = h
        /\ pc'[h] \notin {"get", "put", "vote", "post", "unvote"}
        /\ votingLock' = votingLock \/ votingLock \in {Free, h}
    BY <1>0, <1>3 DEF Leaving, Send, DeleteReplaced, Unvote, ClearVotes, UndrainGet, UndrainPut,
           Fatal, DeleteMessage, Failed, Finish, Goto, voters, LockHeld, VotersAreMasters
  <2>. QED
    BY <1>0, <2>1 DEF LockHeld, VotersAreMasters, NodeOf
<1>. QED
  BY <1>1, <1>2, <1>3

\* Counting does not miss a handler that joins, or one that leaves.
LEMMA FiniteStays ==
  ASSUME NEW S, NEW T, NEW e, IsFiniteSet(S), T \subseteq S \cup {e}
  PROVE  IsFiniteSet(T)
BY FS_AddElement, FS_Subset

\* A step of a handler that counts no vote: it may leave the voters with its vote
\* counted only when that is remembered (leaked) or the process ends.
LEMMA UncountedStep ==
  ASSUME TypeInv, TypeInv', VoteInv, NEW h \in Handler,
         \A g \in Handler \ {h} : pc'[g] = pc[g] /\ msg'[g] = msg[g],
         msg'[h] = msg[h] \/ pc'[h] \in {"idle", "start"},
         UNCHANGED <<launching, votingCount>>, voting \subseteq voting',
         pc'[h] # "clear", leaked => leaked', ctxDone => ctxDone',
         pc'[h] \in {"keep", "check", "beat", "unvote"} /\ NodeOf(h) \in Master \ launching
           => pc[h] \in {"keep", "check", "beat", "unvote"},
         pc[h] \in {"keep", "check", "beat", "unvote"} /\ NodeOf(h) \in Master \ launching
           => \/ pc'[h] \in {"keep", "check", "beat", "unvote", "send", "replace", "failed"}
              \/ leaked' \/ ctxDone',
         pc[h] \in {"send", "replace", "failed"}
           => pc'[h] \in {"send", "replace", "failed"} \/ ctxDone'
  PROVE  VotesCounted' /\ NobodyVotes' /\ VotingKept'
<1>1. \A g \in Handler :
        /\ g \in Voters <=> /\ pc[g] \in {"keep", "check", "beat", "unvote"}
                            /\ NodeOf(g) \in Master \ launching
        /\ g \in Voters' <=> /\ pc'[g] \in {"keep", "check", "beat", "unvote"}
                             /\ NodeOf(g)' \in Master \ launching
  <2>1. \A g \in Handler :
          g \in Voters' <=> /\ pc'[g] \in {"keep", "check", "beat", "unvote"}
                            /\ NodeOf(g)' \in Master \ launching
    BY NoMessageIsNone DEF TypeInv, MessagesFit, Voters, Voted
  <2>. QED
    BY <2>1, VotersAre
<1>2. \A g \in Handler : g \in Voters' => g \in Voters /\ NodeOf(g)' = NodeOf(g)
  BY <1>1 DEF NodeOf
<1>3. Voters' \subseteq Voters
  BY <1>2 DEF Voters
<1>4. leaked' \/ ctxDone' \/ Voters \cup Gone \subseteq Voters' \cup Gone'
  <2>1. ASSUME ~leaked', ~ctxDone', NEW g \in Voters \cup Gone
        PROVE  g \in Voters' \cup Gone'
    BY <1>1, <2>1 DEF Voters, Gone, NodeOf
  <2>. QED
    BY <2>1
<1>5. Voters' \cup Gone' \subseteq (Voters \cup Gone) \cup {h}
  BY <1>3 DEF Gone
<1>6. IsFiniteSet(Voters \cup Gone) /\ IsFiniteSet(Voters) /\ IsFiniteSet(Voters' \cup Gone')
  BY <1>5, FiniteStays, FS_Subset DEF VoteInv, VotesCounted
<1>7. Cardinality(Voters') <= votingCount'
  <2>1. Cardinality(Voters') <= Cardinality(Voters) /\ Cardinality(Voters) <= votingCount
    BY <1>3, <1>6, FS_Subset DEF VoteInv, VotesCounted
  <2>2. IsFiniteSet(Voters') /\ votingCount \in Nat
    BY <1>3, <1>6, FS_Subset DEF TypeInv, TypeOK
  <2>3. Cardinality(Voters) \in Nat /\ Cardinality(Voters') \in Nat
    BY <1>6, <2>2, FS_CardinalityType
  <2>. QED
    BY <2>1, <2>2, <2>3
<1>8. ASSUME ~leaked', ~ctxDone'
      PROVE  votingCount' <= Cardinality(Voters' \cup Gone')
  <2>1. Voters \cup Gone \subseteq Voters' \cup Gone'
    BY <1>4, <1>8
  <2>2. Cardinality(Voters \cup Gone) <= Cardinality(Voters' \cup Gone')
    BY <1>6, <2>1, FS_Subset
  <2>3. votingCount <= Cardinality(Voters \cup Gone)
    BY <1>8 DEF VoteInv, VotesCounted
  <2>4. Cardinality(Voters \cup Gone) \in Nat /\ Cardinality(Voters' \cup Gone') \in Nat
        /\ votingCount \in Nat
    BY <1>6, FS_CardinalityType DEF TypeInv, TypeOK
  <2>. QED
    BY <2>2, <2>3, <2>4
<1>9. VotesCounted'
  BY <1>6, <1>7, <1>8 DEF VotesCounted
<1>10. NobodyVotes'
  BY <1>3 DEF VoteInv, NobodyVotes
<1>11. VotingKept'
  <2>1. \A g \in Voters : NodeOf(g) \in voting
    BY DEF VoteInv, VotingKept, Voters
  <2>. QED
    BY <1>2, <2>1 DEF VotingKept, Voters
<1>. QED
  BY <1>9, <1>10, <1>11

\* A voter is counted as it becomes one, or as its action expires at once.
LEMMA VoteCounts ==
  ASSUME TypeInv, TypeInv', VoteInv, NEW h \in Handler, Vote(h)
  PROVE  VotesCounted' /\ NobodyVotes' /\ VotingKept'
<1>1. /\ pc[h] = "post" /\ votingCount' = votingCount + 1 /\ voting' = voting \cup {NodeOf(h)}
      /\ UNCHANGED <<msg, launching, ctxDone>>
      /\ \/ pc' = [pc EXCEPT ![h] = "keep"]
         \/ pc' = [pc EXCEPT ![h] = "delete"] /\ leaked'
      /\ leaked => leaked'
  BY DEF Vote, Enter, Goto, group
<1>2. \A g \in Handler \ {h} : pc'[g] = pc[g]
  BY <1>1 DEF TypeInv, TypeOK
<1>3. Voters' \subseteq Voters \cup {h} /\ Gone' = Gone /\ NodeOf(h) \in voting'
  BY <1>1 DEF Voters, Gone, Voted, NodeOf, TypeInv, TypeOK
<1>4. Voters \subseteq Voters' /\ h \notin Voters
  BY <1>1 DEF Voters, Voted, NodeOf, TypeInv, TypeOK
<1>5. h \in Voters' \/ leaked'
  <2>1. NodeOf(h) \in Master \ launching /\ msg[h] # NoMessage
    BY <1>1, NoMessageIsNone DEF VoteInv, VotersAreMasters, TypeInv, MessagesFit
  <2>. QED
    BY <1>1, <2>1 DEF Voters, Voted, NodeOf, TypeInv, TypeOK
<1>6. /\ IsFiniteSet(Voters \cup Gone) /\ IsFiniteSet(Voters) /\ IsFiniteSet(Voters')
      /\ IsFiniteSet(Voters' \cup Gone')
  <2>1. IsFiniteSet(Voters \cup Gone)
    BY DEF VoteInv, VotesCounted
  <2>2. IsFiniteSet(Voters)
    BY <2>1, FS_Subset
  <2>3. Voters' \cup Gone' \subseteq (Voters \cup Gone) \cup {h}
    BY <1>3
  <2>. QED
    BY <1>3, <2>1, <2>2, <2>3, FiniteStays
<1>7. /\ Cardinality(Voters) \in Nat /\ Cardinality(Voters') \in Nat
      /\ Cardinality(Voters \cup Gone) \in Nat /\ Cardinality(Voters' \cup Gone') \in Nat
      /\ votingCount \in Nat
  BY <1>6, FS_CardinalityType DEF TypeInv, TypeOK
<1>8. Cardinality(Voters') <= votingCount'
  <2>1. Cardinality(Voters \cup {h}) = Cardinality(Voters) + 1 /\ IsFiniteSet(Voters \cup {h})
    BY <1>4, <1>6, FS_AddElement
  <2>2. Cardinality(Voters') <= Cardinality(Voters \cup {h})
    BY <1>3, <2>1, FS_Subset
  <2>3. Cardinality(Voters) <= votingCount
    BY DEF VoteInv, VotesCounted
  <2>. QED
    BY <1>1, <1>7, <2>1, <2>2, <2>3
<1>9. ASSUME ~leaked', ~ctxDone'
      PROVE  votingCount' <= Cardinality(Voters' \cup Gone')
  <2>1. votingCount <= Cardinality(Voters \cup Gone)
    BY <1>1, <1>9 DEF VoteInv, VotesCounted
  <2>2. Voters' \cup Gone' = (Voters \cup Gone) \cup {h}
    BY <1>3, <1>4, <1>5, <1>9
  <2>3. h \notin Voters \cup Gone
    BY <1>1, <1>4 DEF Gone
  <2>4. Cardinality(Voters' \cup Gone') = Cardinality(Voters \cup Gone) + 1
    BY <1>6, <2>2, <2>3, FS_AddElement
  <2>. QED
    BY <1>1, <1>7, <2>1, <2>4
<1>10. VotesCounted'
  BY <1>6, <1>8, <1>9 DEF VotesCounted
<1>11. NobodyVotes'
  <2>1. \A g \in Handler : pc'[g] # "clear"
    BY <1>1 DEF VoteInv, LockHeld, TypeInv, TypeOK
  <2>. QED
    BY <2>1 DEF NobodyVotes
<1>12. VotingKept'
  <2>1. \A g \in Voters : NodeOf(g) \in voting
    BY DEF VoteInv, VotingKept, Voters
  <2>. QED
    BY <1>1, <1>3, <2>1 DEF VotingKept, Voters, NodeOf
<1>. QED
  BY <1>10, <1>11, <1>12

\* The handler that is the last to be counted is the only voter.
LEMMA LastVoter ==
  ASSUME TypeInv, VoteInv, NEW h \in Handler, pc[h] = "unvote"
  PROVE  /\ h \in Voters /\ votingCount > 0
         /\ votingCount = 1 => Voters = {h}
         /\ votingCount # 1 /\ ~leaked /\ ~ctxDone => \E g \in (Voters \cup Gone) \ {h} : TRUE
<1>1. h \in Voters
  BY VotersAre DEF VoteInv, VotersAreMasters
<1>2. IsFiniteSet(Voters \cup Gone) /\ IsFiniteSet(Voters)
  <2>1. IsFiniteSet(Voters \cup Gone)
    BY DEF VoteInv, VotesCounted
  <2>. QED
    BY <2>1, FS_Subset
<1>3. /\ Cardinality(Voters) \in Nat /\ Cardinality(Voters \cup Gone) \in Nat
      /\ votingCount \in Nat /\ Cardinality(Voters) <= votingCount
  BY <1>2, FS_CardinalityType DEF TypeInv, TypeOK, VoteInv, VotesCounted
<1>4. /\ Cardinality(Voters \ {h}) = Cardinality(Voters) - 1 /\ IsFiniteSet(Voters \ {h})
      /\ Cardinality((Voters \cup Gone) \ {h}) = Cardinality(Voters \cup Gone) - 1
      /\ IsFiniteSet((Voters \cup Gone) \ {h})
  BY <1>1, <1>2, FS_RemoveElement
<1>5. Cardinality(Voters \ {h}) \in Nat /\ Cardinality((Voters \cup Gone) \ {h}) \in Nat
  BY <1>4, FS_CardinalityType
<1>6. votingCount > 0
  BY <1>3, <1>4, <1>5
<1>7. ASSUME votingCount = 1
      PROVE  Voters = {h}
  <2>1. Cardinality(Voters \ {h}) = 0
    BY <1>3, <1>4, <1>5, <1>7
  <2>2. Voters \ {h} = {}
    BY <1>4, <2>1, FS_EmptySet
  <2>. QED
    BY <1>1, <2>2
<1>8. ASSUME votingCount # 1, ~leaked, ~ctxDone
      PROVE  \E g \in (Voters \cup Gone) \ {h} : TRUE
  <2>1. votingCount <= Cardinality(Voters \cup Gone)
    BY <1>8 DEF VoteInv, VotesCounted
  <2>2. Cardinality((Voters \cup Gone) \ {h}) # 0
    BY <1>3, <1>4, <1>6, <1>8, <2>1
  <2>3. (Voters \cup Gone) \ {h} # {}
    BY <2>2, FS_EmptySet
  <2>. QED
    BY <2>3
<1>. QED
  BY <1>1, <1>6, <1>7, <1>8

\* A vote taken back is one that was counted.
LEMMA UnvoteCounts ==
  ASSUME TypeInv, TypeInv', VoteInv, NEW h \in Handler, Unvote(h)
  PROVE  VotesCounted' /\ NobodyVotes' /\ VotingKept'
<1>1. /\ pc[h] = "unvote" /\ votingCount' = votingCount - 1 /\ votingLock = Free
      /\ UNCHANGED <<msg, launching, ctxDone, leaked, voting>>
      /\ \A g \in Handler \ {h} : pc'[g] = pc[g]
      /\ pc'[h] = (IF votingCount = 1 THEN "clear" ELSE "undrain")
  BY DEF Unvote, Goto, cluster, group, TypeInv, TypeOK
<1>2. /\ h \in Voters /\ votingCount > 0 /\ (votingCount = 1 => Voters = {h})
  BY <1>1, LastVoter
<1>3. Voters' = Voters \ {h}
  BY <1>1 DEF Voters, Voted, NodeOf
<1>4. Gone' = Gone /\ h \notin Gone
  BY <1>1 DEF Gone
<1>5. IsFiniteSet(Voters \cup Gone) /\ IsFiniteSet(Voters)
  <2>1. IsFiniteSet(Voters \cup Gone)
    BY DEF VoteInv, VotesCounted
  <2>. QED
    BY <2>1, FS_Subset
<1>6. /\ Cardinality(Voters') = Cardinality(Voters) - 1
      /\ Cardinality(Voters' \cup Gone') = Cardinality(Voters \cup Gone) - 1
      /\ IsFiniteSet(Voters' \cup Gone')
  <2>1. Voters' \cup Gone' = (Voters \cup Gone) \ {h}
    BY <1>3, <1>4
  <2>2. Cardinality(Voters \ {h}) = Cardinality(Voters) - 1
    BY <1>2, <1>5, FS_RemoveElement
  <2>3. h \in Voters \cup Gone
    BY <1>2
  <2>4. /\ Cardinality((Voters \cup Gone) \ {h}) = Cardinality(Voters \cup Gone) - 1
        /\ IsFiniteSet((Voters \cup Gone) \ {h})
    BY <1>5, <2>3, FS_RemoveElement
  <2>. QED
    BY <1>3, <2>1, <2>2, <2>4
<1>7. /\ Cardinality(Voters) \in Nat /\ Cardinality(Voters \cup Gone) \in Nat
      /\ votingCount \in Nat
  BY <1>5, FS_CardinalityType DEF TypeInv, TypeOK
<1>8. VotesCounted'
  <2>1. /\ Cardinality(Voters) <= votingCount
        /\ ~leaked /\ ~ctxDone => votingCount <= Cardinality(Voters \cup Gone)
    BY DEF VoteInv, VotesCounted
  <2>2. Cardinality(Voters') <= votingCount'
    BY <1>1, <1>6, <1>7, <2>1
  <2>3. ~leaked' /\ ~ctxDone' => votingCount' <= Cardinality(Voters' \cup Gone')
    BY <1>1, <1>6, <1>7, <2>1
  <2>. QED
    BY <1>6, <2>2, <2>3 DEF VotesCounted
<1>9. NobodyVotes'
  BY <1>1, <1>2, <1>3 DEF VoteInv, NobodyVotes
<1>10. VotingKept'
  BY <1>1, <1>3 DEF VoteInv, VotingKept, Voters, NodeOf
<1>. QED
  BY <1>8, <1>9, <1>10

\* Nobody has a vote when all the exclusions are cleared.
LEMMA ClearCounts ==
  ASSUME TypeInv, TypeInv', VoteInv, NEW h \in Handler, ClearVotes(h)
  PROVE  VotesCounted' /\ NobodyVotes' /\ VotingKept'
<1>1. /\ pc[h] = "clear" /\ UNCHANGED <<msg, launching, ctxDone, leaked, votingCount>>
      /\ pc' = [pc EXCEPT ![h] = "undrain"]
  BY DEF ClearVotes, Goto, group
<1>2. Voters = {}
  BY <1>1 DEF VoteInv, NobodyVotes
<1>3. Voters' = {} /\ Gone' = Gone
  BY <1>1, <1>2 DEF Voters, Voted, Gone, NodeOf, TypeInv, TypeOK
<1>4. VotesCounted'
  BY <1>1, <1>2, <1>3 DEF VoteInv, VotesCounted
<1>5. NobodyVotes' /\ VotingKept'
  BY <1>3 DEF NobodyVotes, VotingKept, Voters
<1>. QED
  BY <1>4, <1>5

LEMMA InitVoteInv == ParametersOK /\ Init => VoteInv
<1>. SUFFICES ASSUME Init PROVE VoteInv
  OBVIOUS
<1>1. Voters = {} /\ Gone = {}
  BY DEF Init, ProcessInit, Voters, Gone, Voted
<1>2. VotesCounted
  BY <1>1, NobodyCounted DEF Init, ProcessInit, VotesCounted
<1>3. LockHeld /\ VotersAreMasters /\ NobodyVotes /\ VotingKept
  BY <1>1 DEF Init, ProcessInit, LockHeld, VotersAreMasters, NobodyVotes, VotingKept, Voted
<1>. QED
  BY <1>2, <1>3 DEF VoteInv

\* The count and the exclusions from voting, over the steps of one handler.
LEMMA DrainingVotes ==
  ASSUME TypeInv, TypeInv', VoteInv, NEW h \in Handler, Draining(h)
  PROVE  VotesCounted' /\ NobodyVotes' /\ VotingKept'
<1>0. pc \in [Handler -> PcType]
  BY DEF TypeInv, TypeOK, PcType
<1>1. CASE Vote(h)
  BY <1>1, VoteCounts
<1>2. CASE StartHandler(h) \/ DrainGet(h) \/ DrainPut(h) \/ LockVotes(h) \/ EarlyError(h)
  <2>1. /\ UNCHANGED <<msg, launching, votingCount, ctxDone>> /\ voting \subseteq voting'
        /\ \A g \in Handler \ {h} : pc'[g] = pc[g]
        /\ pc[h] \in {"start", "get", "put", "vote", "post"}
    BY <1>0, <1>2 DEF StartHandler, DrainGet, DrainPut, LockVotes, EarlyError, AfterDrain, Enter,
                      Goto, cluster, group
  <2>3. leaked => leaked'
    BY <1>2 DEF StartHandler, DrainGet, DrainPut, LockVotes, EarlyError, AfterDrain, Enter
  <2>2. /\ pc'[h] \notin {"clear", "check", "beat", "unvote"}
        /\ pc'[h] = "keep" => NodeOf(h) \notin Master \ launching
    BY <1>0, <1>2 DEF StartHandler, DrainGet, DrainPut, LockVotes, EarlyError, AfterDrain, Enter,
                      Goto
  <2>. QED
    BY <2>1, <2>2, <2>3, UncountedStep
<1>. QED
  BY <1>1, <1>2 DEF Draining

LEMMA KeepingAliveVotes ==
  ASSUME TypeInv, TypeInv', VoteInv, NEW h \in Handler, KeepingAlive(h), ~Restart
  PROVE  VotesCounted' /\ NobodyVotes' /\ VotingKept'
<1>0. pc \in [Handler -> PcType]
  BY DEF TypeInv, TypeOK, PcType
<1>1. /\ UNCHANGED <<msg, launching, votingCount, ctxDone, voting>>
      /\ \A g \in Handler \ {h} : pc'[g] = pc[g]
      /\ pc[h] \in {"keep", "check", "beat"}
  BY <1>0 DEF KeepingAlive, StartCheck, CheckPasses, CheckFails, CheckErrs, BeatRecorded,
              BeatErrs, Panics, Errored, Goto, cluster, group, voters
<1>3. leaked => leaked'
  BY DEF KeepingAlive, StartCheck, CheckPasses, CheckFails, CheckErrs, BeatRecorded,
         BeatErrs, Panics, voters
<1>2. /\ pc'[h] \in {"check", "keep", "beat", "unvote", "undrain", "delete", "send", "failed"}
      /\ pc'[h] \in {"undrain", "delete"} /\ NodeOf(h) \in Master \ launching => leaked'
  BY <1>0 DEF KeepingAlive, StartCheck, CheckPasses, CheckFails, CheckErrs, BeatRecorded,
              BeatErrs, Panics, Errored, Goto
<1>. QED
  BY <1>1, <1>2, <1>3, UncountedStep

LEMMA LeavingVotes ==
  ASSUME TypeInv, TypeInv', VoteInv, NEW h \in Handler, Leaving(h), ~Restart
  PROVE  VotesCounted' /\ NobodyVotes' /\ VotingKept'
<1>0. pc \in [Handler -> PcType] /\ msg \in [Handler -> Message \cup {NoMessage}]
  BY DEF TypeInv, TypeOK, PcType
<1>1. CASE Unvote(h)
  BY <1>1, UnvoteCounts
<1>2. CASE ClearVotes(h)
  BY <1>2, ClearCounts
<1>3. CASE Send(h) \/ DeleteReplaced(h) \/ UndrainGet(h) \/ UndrainPut(h)
  <2>1. /\ UNCHANGED <<msg, launching, votingCount, ctxDone, voting, leaked>>
        /\ \A g \in Handler \ {h} : pc'[g] = pc[g]
    BY <1>0, <1>3 DEF Send, DeleteReplaced, UndrainGet, UndrainPut, Goto, cluster, group, voters
  <2>2. \/ pc[h] \in {"send", "replace"} /\ pc'[h] \in {"replace", "failed"}
        \/ pc[h] \in {"undrain", "unput"} /\ pc'[h] \in {"unput", "delete"}
    BY <1>0, <1>3 DEF Send, DeleteReplaced, UndrainGet, UndrainPut, Goto
  <2>. QED
    BY <2>1, <2>2, UncountedStep
<1>4. CASE DeleteMessage(h) \/ Failed(h)
  <2>1. /\ UNCHANGED <<launching, votingCount, voting, leaked>> /\ pc'[h] = "idle"
        /\ \A g \in Handler \ {h} : pc'[g] = pc[g] /\ msg'[g] = msg[g]
        /\ ctxDone => ctxDone'
    BY <1>0, <1>4 DEF DeleteMessage, Failed, Finish, Goto, cluster, group, voters
  <2>2. pc[h] = "delete" \/ (pc[h] = "failed" /\ ctxDone')
    BY <1>4 DEF DeleteMessage, Failed
  <2>. QED
    BY <2>1, <2>2, UncountedStep
<1>. QED
  BY <1>1, <1>2, <1>3, <1>4 DEF Leaving, Fatal

\* Steps that are not a handler's, or that start its work.
LEMMA QuietVotes ==
  ASSUME TypeInv, TypeInv', VoteInv,
         \/ \E n \in Node : StartAction(n) \/ Expire(n) \/ Vacate(n) \/ Leave(n)
         \/ \E h \in Handler, m \in queue : Dispatch(h, m)
         \/ UNCHANGED vars
  PROVE  VoteInv'
<1>0. /\ UNCHANGED <<launching, voting, votingLock, votingCount, leaked, ctxDone>>
  BY DEF StartAction, Expire, Vacate, Leave, Dispatch, vars, cluster, group, voters
<1>1. \/ UNCHANGED <<pc, msg>>
      \/ \E h \in Handler, m \in queue :
           /\ pc[h] = "idle" /\ pc' = [pc EXCEPT ![h] = "start"]
           /\ msg' = [msg EXCEPT ![h] = m]
  BY DEF StartAction, Expire, Vacate, Leave, Dispatch, Goto, vars, handler
<1>2. ASSUME UNCHANGED <<pc, msg>>
      PROVE  VoteInv'
  <2>1. Voters' = Voters /\ Gone' = Gone
    BY <1>0, <1>2 DEF Voters, Gone, Voted, NodeOf
  <2>. QED
    BY <1>0, <1>2, <2>1 DEF VoteInv, LockHeld, VotersAreMasters, VotesCounted, NobodyVotes,
                           VotingKept, Voted, NodeOf
<1>3. ASSUME NEW h \in Handler, NEW m \in queue, pc[h] = "idle",
             pc' = [pc EXCEPT ![h] = "start"], msg' = [msg EXCEPT ![h] = m]
      PROVE  VoteInv'
  <2>1. /\ \A g \in Handler \ {h} : pc'[g] = pc[g] /\ msg'[g] = msg[g]
        /\ pc'[h] = "start"
    BY <1>3 DEF TypeInv, TypeOK
  <2>2. LockHeld' /\ VotersAreMasters'
    BY <1>0, <2>1 DEF VoteInv, LockHeld, VotersAreMasters, NodeOf
  <2>3. VotesCounted' /\ NobodyVotes' /\ VotingKept'
    BY <1>0, <1>3, <2>1, UncountedStep
  <2>. QED
    BY <2>2, <2>3 DEF VoteInv
<1>. QED
  BY <1>1, <1>2, <1>3

\* The types and the votes, together, are inductive.
LEMMA NextVoteInv ==
  ASSUME ParametersOK, TypeInv, VoteInv, [Next]_vars
  PROVE  TypeInv' /\ VoteInv'
<1>1. TypeInv'
  <2>1. \A h \in Handler : Unvote(h) => votingCount > 0
    BY LastVoter DEF Unvote
  <2>. QED
    BY <2>1, NextTypeInv, StutterTypeInv
<1>2. ASSUME NEW h \in Handler, Draining(h) \/ KeepingAlive(h) \/ Leaving(h)
      PROVE  VoteInv'
  <2>1. CASE Restart
    BY <2>1, NoVotesInv
  <2>2. CASE ~Restart
    <3>1. LockHeld' /\ VotersAreMasters'
      BY <1>1, <1>2, <2>2, PlacesKept DEF VoteInv
    <3>2. VotesCounted' /\ NobodyVotes' /\ VotingKept'
      BY <1>1, <1>2, <2>2, DrainingVotes, KeepingAliveVotes, LeavingVotes
    <3>. QED
      BY <3>1, <3>2 DEF VoteInv
  <2>. QED
    BY <2>1, <2>2
<1>3. ASSUME Exit \/ Crash
      PROVE  VoteInv'
  BY <1>3, NoVotesInv DEF Exit, Crash
<1>4. ASSUME \/ \E n \in Node : StartAction(n) \/ Expire(n) \/ Vacate(n) \/ Leave(n)
             \/ \E h \in Handler, m \in queue : Dispatch(h, m)
             \/ UNCHANGED vars
      PROVE  VoteInv'
  BY <1>1, <1>4, QuietVotes
<1>5. VoteInv'
  BY <1>2, <1>3, <1>4 DEF Next
<1>. QED
  BY <1>1, <1>5

LEMMA VotesInvariant == ParametersOK => (Spec => [](TypeInv /\ VoteInv))
<1>. SUFFICES ASSUME ParametersOK PROVE Spec => [](TypeInv /\ VoteInv)
  OBVIOUS
<1>1. Init => TypeInv /\ VoteInv
  BY InitTypeInv, InitVoteInv
<1>2. TypeInv /\ VoteInv /\ [Next]_vars => (TypeInv /\ VoteInv)'
  BY NextVoteInv
<1>. QED
  BY <1>1, <1>2, PTL DEF Spec

\* The types, for any nodes, handlers and bounds: votingCount never falls below 0
\* (main.go:188-199), and no message or count of heartbeats passes its bound.
THEOREM TypeCorrect == ParametersOK => (Spec => []TypeOK)
<1>. SUFFICES ASSUME ParametersOK PROVE Spec => []TypeOK
  OBVIOUS
<1>1. TypeInv => TypeOK
  BY DEF TypeInv
<1>. QED
  BY <1>1, VotesInvariant, PTL

\* No node loses its exclusion from voting while its handler keeps its action waiting
\* (main.go:182-205), whatever the number of masters handled at once.
THEOREM VotersAreExcluded == ParametersOK => (Spec => []VotingKept)
<1>. SUFFICES ASSUME ParametersOK PROVE Spec => []VotingKept
  OBVIOUS
<1>1. VoteInv => VotingKept
  BY DEF VoteInv
<1>. QED
  BY <1>1, VotesInvariant, PTL

\* The last handler with a vote clears the exclusions (main.go:187-199), unless its
\* process is about to end or has let an action with a vote expire.
THEOREM LastClears == ParametersOK => (Spec => VotingCleared)
<1>. SUFFICES ASSUME ParametersOK PROVE Spec => VotingCleared
  OBVIOUS
<1>. DEFINE P(h) == pc[h] \in {"unvote", "clear"} /\ pc'[h] = "undrain" /\ ~leaked /\ ~ctxDone
            Q(h) == \/ voting' = {}
                    \/ \E g \in Handler \ {h} : Voted(g) \/ pc[g] \in {"send", "replace", "failed"}
<1>1. ASSUME TypeInv, VoteInv, Next, NEW h \in Handler, P(h)
      PROVE  Q(h)
  <2>0. pc \in [Handler -> PcType]
    BY <1>1 DEF TypeInv, TypeOK, PcType
  <2>1. Unvote(h) \/ ClearVotes(h)
    <3>1. ~Restart
      BY <1>1 DEF Restart
    <3>2. \A n \in Node : ~(StartAction(n) \/ Expire(n) \/ Vacate(n) \/ Leave(n))
      BY <1>1 DEF StartAction, Expire, Vacate, Leave, handler
    <3>3. \A g \in Handler, m \in queue : ~Dispatch(g, m)
      BY <1>1, <2>0 DEF Dispatch, Goto
    <3>4. PICK g \in Handler : Draining(g) \/ KeepingAlive(g) \/ Leaving(g)
      BY <1>1, <3>1, <3>2, <3>3 DEF Next, Exit, Crash
    <3>5. ~Draining(g)
      BY <1>1, <2>0 DEF Draining, StartHandler, DrainGet, DrainPut, LockVotes, Vote, EarlyError,
                        AfterDrain, Enter, Goto
    <3>6. ~KeepingAlive(g)
      BY <1>1, <2>0, <3>1 DEF KeepingAlive, StartCheck, CheckPasses, CheckFails, CheckErrs,
                        BeatRecorded, BeatErrs, Panics, Errored, Goto
    <3>7. g = h /\ (Unvote(g) \/ ClearVotes(g))
      BY <1>1, <2>0, <3>1, <3>4, <3>5, <3>6 DEF Leaving, Send, DeleteReplaced, Unvote, ClearVotes,
                        UndrainGet, UndrainPut, Fatal, DeleteMessage, Failed, Finish, Goto
    <3>. QED
      BY <3>7
  <2>2. CASE ClearVotes(h)
    BY <2>2 DEF ClearVotes
  <2>3. CASE Unvote(h)
    <3>1. pc[h] = "unvote" /\ votingCount # 1
      BY <1>1, <2>0, <2>3 DEF Unvote, Goto
    <3>2. PICK g \in (Voters \cup Gone) \ {h} : TRUE
      BY <1>1, <3>1, LastVoter
    <3>. QED
      BY <3>2 DEF Voters, Gone
  <2>. QED
    BY <2>1, <2>2, <2>3
<1>2. ASSUME UNCHANGED vars, NEW h \in Handler
      PROVE  ~P(h)
  BY <1>2 DEF vars, handler
<1>3. ASSUME TypeInv, VoteInv, [Next]_vars
      PROVE  [\A h \in Handler :
                pc[h] \in {"unvote", "clear"} /\ pc'[h] = "undrain" /\ ~leaked /\ ~ctxDone
                  => \/ voting' = {}
                     \/ \E g \in Handler \ {h} :
                          Voted(g) \/ pc[g] \in {"send", "replace", "failed"}]_vars
  BY <1>1, <1>2, <1>3
<1>. QED
  BY <1>3, VotesInvariant, PTL DEF Spec, VotingCleared

-----------------------------------------------------------------------------
(* Why a handler gives a message up.                                       *)

ReasonsOf(h) ==
  /\ pc[h] = "idle" => why[h] = "none"
  /\ why[h] = "left" => NodeOf(h) \notin members
  /\ pc[h] = "check" => count[h] <= beats[NodeOf(h)] \/ action[NodeOf(h)] = "over"
  /\ why[h] = "expired" => \/ action[NodeOf(h)] = "over"
                           \/ msg[h].count < beats[NodeOf(h)]
                           \/ beats[NodeOf(h)] = MaxBeats
  /\ pc[h] = "delete" => why[h] # "none"
  /\ pc[h] \in {"unvote", "clear", "undrain", "unput"} => why[h] = "passed"

Reasons == \A h \in Handler : ReasonsOf(h)

\* The message that replaces another is in the queue until the process ends.
Spare(h) == \E m \in queue : m.node = NodeOf(h) /\ \A g \in Handler : msg[g] # m
Replaced == \A h \in Handler : pc[h] = "replace" => Spare(h)

\* A node leaves for good, heartbeats add up, and what is over stays over.
OnwardOnly ==
  /\ members' \subseteq members
  /\ \A n \in Node : /\ beats[n] <= beats'[n]
                     /\ action[n] = "over" => action'[n] = "over"

LEMMA StepIsOnward ==
  ASSUME ParametersOK, TypeInv, [Next]_vars
  PROVE  OnwardOnly
<1>0. /\ MaxBeats \in Nat /\ beats \in [Node -> 0..MaxBeats]
      /\ action \in [Node -> {"none", "wait", "over"}]
  BY DEF ParametersOK, TypeInv, TypeOK
<1>1. ASSUME UNCHANGED <<members, group>>
      PROVE  OnwardOnly
  BY <1>0, <1>1 DEF OnwardOnly, group
<1>2. ASSUME NEW n \in Node, StartAction(n) \/ Expire(n) \/ Vacate(n) \/ Leave(n)
      PROVE  OnwardOnly
  BY <1>0, <1>2 DEF StartAction, Expire, Vacate, Leave, OnwardOnly, cluster, group
<1>3. ASSUME NEW n \in Node, beats' = Extended(n), UNCHANGED <<members, action>>
      PROVE  OnwardOnly
  BY <1>0, <1>3 DEF Extended, OnwardOnly
<1>4. ASSUME NEW h \in Handler, BeatRecorded(h) \/ BeatErrs(h)
      PROVE  OnwardOnly
  <2>1. NodeOf(h) \in Node
    <3>1. pc[h] # "idle"
      BY <1>4 DEF BeatRecorded, BeatErrs
    <3>. QED
      BY <3>1 DEF TypeInv, MessagesFit, NodeOf, Message
  <2>2. UNCHANGED <<members, action, launching>>
    BY <1>4 DEF BeatRecorded, BeatErrs, cluster
  <2>3. beats' = Extended(NodeOf(h)) \/ beats' = beats
    BY <1>4 DEF BeatRecorded, BeatErrs
  <2>. QED
    BY <1>1, <1>3, <2>1, <2>2, <2>3 DEF group
<1>5. ASSUME NEW h \in Handler, \/ \E m \in queue : Dispatch(h, m)
                                \/ Draining(h) \/ Leaving(h)
      PROVE  OnwardOnly
  <2>1. UNCHANGED <<members, group>>
    BY <1>5 DEF Dispatch, Draining, StartHandler, DrainGet, DrainPut, LockVotes, Vote, EarlyError,
                Leaving, Send, DeleteReplaced, Unvote, ClearVotes, UndrainGet, UndrainPut, Fatal,
                DeleteMessage, Failed, cluster
  <2>. QED
    BY <1>1, <2>1
<1>6. ASSUME NEW h \in Handler, KeepingAlive(h)
      PROVE  OnwardOnly
  <2>1. BeatRecorded(h) \/ BeatErrs(h) \/ UNCHANGED <<members, group>>
    BY <1>6 DEF KeepingAlive, StartCheck, CheckPasses, CheckFails, CheckErrs, Panics, cluster
  <2>. QED
    BY <1>1, <1>4, <2>1
<1>7. ASSUME Exit \/ Crash \/ UNCHANGED vars
      PROVE  OnwardOnly
  <2>1. UNCHANGED <<members, group>>
    BY <1>7 DEF Exit, Crash, vars, cluster
  <2>. QED
    BY <1>1, <2>1
<1>. QED
  BY <1>2, <1>5, <1>6, <1>7 DEF Next

\* What a handler knows stays true while the others, the group and the nodes go on.
LEMMA ReasonsStay ==
  ASSUME ParametersOK, TypeInv, TypeInv', OnwardOnly, NEW h \in Handler, ReasonsOf(h),
         pc'[h] = pc[h], msg'[h] = msg[h], count'[h] = count[h], why'[h] = why[h]
  PROVE  ReasonsOf(h)'
<1>1. CASE pc[h] = "idle"
  BY <1>1 DEF ReasonsOf
<1>2. CASE pc[h] # "idle"
  <2>1. NodeOf(h) \in Node /\ NodeOf(h)' = NodeOf(h) /\ msg[h].count \in Nat
    BY <1>2 DEF TypeInv, MessagesFit, NodeOf, Message
  <2>2. /\ MaxBeats \in Nat /\ count[h] \in Nat
        /\ beats[NodeOf(h)] \in 0..MaxBeats /\ beats'[NodeOf(h)] \in 0..MaxBeats
    BY <2>1 DEF ParametersOK, TypeInv, TypeOK
  <2>3. /\ beats[NodeOf(h)] <= beats'[NodeOf(h)] /\ members' \subseteq members
        /\ action[NodeOf(h)] = "over" => action'[NodeOf(h)] = "over"
    BY <2>1 DEF OnwardOnly
  <2>. QED
    BY <2>1, <2>2, <2>3 DEF ReasonsOf
<1>. QED
  BY <1>1, <1>2

\* KeepAlive calls an action expired when it is over or the count behind.
LEMMA EnterReasons ==
  ASSUME ParametersOK, TypeInv, NEW h \in Handler, ReasonsOf(h), NEW voted, Enter(h, voted),
         pc[h] \in {"start", "get", "put", "post"}, UNCHANGED <<members, group, msg, count>>
  PROVE  ReasonsOf(h)'
<1>1. /\ pc \in [Handler -> PcType]
      /\ why \in [Handler -> {"none", "left", "passed", "expired"}]
      /\ count[h] = msg[h].count /\ NodeOf(h)' = NodeOf(h)
  BY DEF TypeInv, TypeOK, CountsFit, PcType, NodeOf
<1>2. PICK expired \in BOOLEAN :
        /\ expired => count[h] < beats[NodeOf(h)] \/ action[NodeOf(h)] = "over"
        /\ Goto(h, IF expired THEN "delete" ELSE "keep")
        /\ why' = [why EXCEPT ![h] = IF expired THEN "expired" ELSE why[h]]
  BY DEF Enter
<1>3. CASE expired
  <2>1. pc'[h] = "delete" /\ why'[h] = "expired"
    BY <1>1, <1>2, <1>3 DEF Goto
  <2>. QED
    BY <1>1, <1>2, <1>3, <2>1 DEF ReasonsOf, group
<1>4. CASE ~expired
  <2>1. pc'[h] = "keep" /\ why'[h] = why[h]
    BY <1>1, <1>2, <1>4 DEF Goto
  <2>. QED
    BY <1>1, <2>1 DEF ReasonsOf, group
<1>. QED
  BY <1>3, <1>4

LEMMA DrainingReasons ==
  ASSUME ParametersOK, TypeInv, NEW h \in Handler, ReasonsOf(h), Draining(h)
  PROVE  ReasonsOf(h)'
<1>1. /\ pc \in [Handler -> PcType] /\ UNCHANGED <<members, group, msg, count>>
      /\ why \in [Handler -> {"none", "left", "passed", "expired"}] /\ NodeOf(h)' = NodeOf(h)
  <2>1. UNCHANGED <<members, group, msg, count>>
    BY DEF Draining, StartHandler, DrainGet, DrainPut, LockVotes, Vote, EarlyError, cluster
  <2>. QED
    BY <2>1 DEF TypeInv, TypeOK, PcType, NodeOf
<1>2. CASE Enter(h, TRUE) \/ Enter(h, FALSE)
  <2>1. pc[h] \in {"start", "get", "put", "post"}
    BY <1>1, <1>2 DEF Draining, StartHandler, DrainGet, DrainPut, LockVotes, Vote, EarlyError,
                      Enter, Goto
  <2>. QED
    BY <1>1, <1>2, <2>1, EnterReasons
<1>3. CASE ~(Enter(h, TRUE) \/ Enter(h, FALSE))
  <2>1. \/ pc'[h] = "delete" /\ why'[h] = "left" /\ NodeOf(h) \notin members
        \/ pc'[h] \in {"get", "put", "vote", "post", "failed"} /\ why'[h] = why[h]
    BY <1>1, <1>3 DEF Draining, StartHandler, DrainGet, DrainPut, LockVotes, Vote, EarlyError,
                      AfterDrain, Goto
  <2>2. pc[h] # "idle"
    BY DEF Draining, StartHandler, DrainGet, DrainPut, LockVotes, Vote, EarlyError
  <2>. QED
    BY <1>1, <2>1, <2>2 DEF ReasonsOf, group
<1>. QED
  BY <1>2, <1>3

LEMMA KeepingAliveReasons ==
  ASSUME ParametersOK, TypeInv, TypeInv', OnwardOnly, NEW h \in Handler, ReasonsOf(h),
         KeepingAlive(h), ~Restart
  PROVE  ReasonsOf(h)'
<1>1. /\ pc \in [Handler -> PcType] /\ msg' = msg /\ NodeOf(h)' = NodeOf(h)
      /\ why \in [Handler -> {"none", "left", "passed", "expired"}]
  <2>1. msg' = msg
    BY DEF KeepingAlive, StartCheck, CheckPasses, CheckFails, CheckErrs, BeatRecorded, BeatErrs,
           Panics
  <2>. QED
    BY <2>1 DEF TypeInv, TypeOK, PcType, NodeOf
<1>2. NodeOf(h) \in Node /\ msg[h].count \in Nat /\ pc[h] # "idle"
  <2>1. pc[h] # "idle"
    BY DEF KeepingAlive, StartCheck, CheckPasses, CheckFails, CheckErrs, BeatRecorded, BeatErrs,
           Panics
  <2>. QED
    BY <2>1 DEF TypeInv, MessagesFit, NodeOf, Message
<1>3. /\ MaxBeats \in Nat /\ count[h] \in Nat
      /\ beats[NodeOf(h)] \in 0..MaxBeats /\ beats'[NodeOf(h)] \in 0..MaxBeats
      /\ beats[NodeOf(h)] <= beats'[NodeOf(h)] /\ members' \subseteq members
      /\ action[NodeOf(h)] = "over" => action'[NodeOf(h)] = "over"
  BY <1>2 DEF ParametersOK, TypeInv, TypeOK, OnwardOnly
<1>4. CASE StartCheck(h)
  <2>1. /\ pc'[h] = "check" /\ why' = why /\ count' = count /\ UNCHANGED <<action, beats>>
        /\ count[h] <= beats[NodeOf(h)] \/ action[NodeOf(h)] = "over"
    BY <1>1, <1>4 DEF StartCheck, Goto, group
  <2>. QED
    BY <1>1, <1>2, <1>3, <2>1 DEF ReasonsOf
<1>5. CASE CheckPasses(h)
  <2>1. pc'[h] \in {"delete", "unvote", "undrain"} /\ why'[h] = "passed"
    BY <1>1, <1>5 DEF CheckPasses, Goto
  <2>. QED
    BY <2>1 DEF ReasonsOf
<1>6. CASE CheckFails(h)
  <2>1. count[h] <= beats[NodeOf(h)] \/ action[NodeOf(h)] = "over"
    BY <1>6 DEF CheckFails, ReasonsOf
  <2>2. CASE count[h] >= MaxBeats
    <3>1. pc'[h] = "delete" /\ why'[h] = "expired"
      BY <1>1, <1>6, <2>2 DEF CheckFails, Goto
    <3>2. action'[NodeOf(h)] = "over" \/ beats'[NodeOf(h)] = MaxBeats
      BY <1>3, <2>1, <2>2
    <3>. QED
      BY <1>1, <3>1, <3>2 DEF ReasonsOf
  <2>3. CASE ~(count[h] >= MaxBeats)
    <3>1. pc'[h] = "beat" /\ why'[h] = why[h]
      BY <1>1, <1>6, <2>3 DEF CheckFails, Goto
    <3>. QED
      BY <1>1, <1>2, <1>3, <3>1 DEF ReasonsOf
  <2>. QED
    BY <2>2, <2>3
<1>7. CASE CheckErrs(h) \/ BeatRecorded(h) \/ BeatErrs(h)
  <2>1. pc'[h] \in {"send", "failed", "keep"} /\ why' = why
    BY <1>1, <1>7 DEF CheckErrs, BeatRecorded, BeatErrs, Errored, Goto
  <2>. QED
    BY <1>1, <1>2, <1>3, <2>1 DEF ReasonsOf
<1>. QED
  BY <1>4, <1>5, <1>6, <1>7 DEF KeepingAlive, Panics

LEMMA LeavingReasons ==
  ASSUME ParametersOK, TypeInv, NEW h \in Handler, ReasonsOf(h), Leaving(h), ~Restart
  PROVE  ReasonsOf(h)'
<1>1. /\ pc \in [Handler -> PcType]
      /\ why \in [Handler -> {"none", "left", "passed", "expired"}]
      /\ msg \in [Handler -> Message \cup {NoMessage}]
      /\ UNCHANGED <<members, group>>
  <2>1. UNCHANGED <<members, group>>
    BY DEF Leaving, Send, DeleteReplaced, Unvote, ClearVotes, UndrainGet, UndrainPut, Fatal,
           DeleteMessage, Failed, cluster
  <2>. QED
    BY <2>1 DEF TypeInv, TypeOK, PcType
<1>2. CASE DeleteMessage(h) \/ Failed(h)
  <2>1. pc'[h] = "idle" /\ why'[h] = "none"
    BY <1>1, <1>2 DEF DeleteMessage, Failed, Finish, Goto
  <2>. QED
    BY <2>1 DEF ReasonsOf
<1>3. CASE Send(h) \/ DeleteReplaced(h) \/ Unvote(h) \/ ClearVotes(h) \/ UndrainGet(h)
           \/ UndrainPut(h)
  <2>1. /\ UNCHANGED <<msg, why, count>> /\ pc[h] # "idle"
        /\ \/ pc'[h] \in {"replace", "failed"}
           \/ /\ pc[h] \in {"unvote", "clear", "undrain", "unput"}
              /\ pc'[h] \in {"clear", "undrain", "unput", "delete"}
    BY <1>1, <1>3 DEF Send, DeleteReplaced, Unvote, ClearVotes, UndrainGet, UndrainPut, Goto
  <2>2. NodeOf(h)' = NodeOf(h)
    BY <2>1 DEF NodeOf
  <2>. QED
    BY <1>1, <2>1, <2>2 DEF ReasonsOf, group
<1>. QED
  BY <1>2, <1>3 DEF Leaving, Fatal

\* A handler moves no other, unless the process ends.
LEMMA OthersStay ==
  ASSUME TypeInv, NEW h \in Handler, ~Restart,
         \/ \E m \in queue : Dispatch(h, m)
         \/ Draining(h) \/ KeepingAlive(h) \/ Leaving(h)
  PROVE  \A g \in Handler \ {h} :
           pc'[g] = pc[g] /\ msg'[g] = msg[g] /\ count'[g] = count[g] /\ why'[g] = why[g]
<1>0. /\ pc \in [Handler -> PcType] /\ msg \in [Handler -> Message \cup {NoMessage}]
      /\ count \in [Handler -> 0..MaxBeats + 1]
      /\ why \in [Handler -> {"none", "left", "passed", "expired"}]
  BY DEF TypeInv, TypeOK, PcType
<1>1. CASE \E m \in queue : Dispatch(h, m)
  BY <1>0, <1>1 DEF Dispatch, Goto
<1>2. CASE Draining(h)
  BY <1>0, <1>2 DEF Draining, StartHandler, DrainGet, DrainPut, LockVotes, Vote, EarlyError,
                    AfterDrain, Enter, Goto
<1>3. CASE KeepingAlive(h)
  BY <1>0, <1>3 DEF KeepingAlive, StartCheck, CheckPasses, CheckFails, CheckErrs, BeatRecorded,
                    BeatErrs, Panics, Errored, Goto
<1>4. CASE Leaving(h)
  BY <1>0, <1>4 DEF Leaving, Send, DeleteReplaced, Unvote, ClearVotes, UndrainGet, UndrainPut,
                    Fatal, DeleteMessage, Failed, Finish, Goto
<1>. QED
  BY <1>1, <1>2, <1>3, <1>4

LEMMA NextReasons ==
  ASSUME ParametersOK, TypeInv, TypeInv', Reasons, [Next]_vars
  PROVE  Reasons'
<1>0. OnwardOnly
  BY StepIsOnward
<1>1. CASE Restart
  BY <1>1 DEF Restart, Reasons, ReasonsOf
<1>2. ASSUME UNCHANGED <<pc, msg, count, why>>
      PROVE  Reasons'
  <2>1. ASSUME NEW g \in Handler
        PROVE  ReasonsOf(g)'
    <3>1. ReasonsOf(g) /\ pc'[g] = pc[g] /\ msg'[g] = msg[g] /\ count'[g] = count[g]
          /\ why'[g] = why[g]
      BY <1>2 DEF Reasons
    <3>. QED
      BY <1>0, <3>1, ReasonsStay
  <2>. QED
    BY <2>1 DEF Reasons
<1>3. ASSUME ~Restart, NEW h \in Handler, \/ \E m \in queue : Dispatch(h, m)
                                          \/ Draining(h) \/ KeepingAlive(h) \/ Leaving(h)
      PROVE  Reasons'
  <2>1. ReasonsOf(h)'
    <3>1. CASE \E m \in queue : Dispatch(h, m)
      <4>1. pc[h] = "idle" /\ pc'[h] = "start" /\ why'[h] = why[h]
        BY <3>1 DEF Dispatch, Goto, TypeInv, TypeOK
      <4>. QED
        BY <4>1 DEF Reasons, ReasonsOf
    <3>2. ReasonsOf(h)
      BY DEF Reasons
    <3>. QED
      BY <1>0, <1>3, <3>1, <3>2, DrainingReasons, KeepingAliveReasons, LeavingReasons
  <2>2. ASSUME NEW g \in Handler \ {h}
        PROVE  ReasonsOf(g)'
    <3>1. pc'[g] = pc[g] /\ msg'[g] = msg[g] /\ count'[g] = count[g] /\ why'[g] = why[g]
      BY <1>3, OthersStay
    <3>2. ReasonsOf(g)
      BY DEF Reasons
    <3>. QED
      BY <1>0, <3>1, <3>2, ReasonsStay
  <2>. QED
    BY <2>1, <2>2 DEF Reasons
<1>4. ASSUME \/ \E n \in Node : StartAction(n) \/ Expire(n) \/ Vacate(n) \/ Leave(n)
             \/ UNCHANGED vars
      PROVE  UNCHANGED <<pc, msg, count, why>>
  BY <1>4 DEF StartAction, Expire, Vacate, Leave, vars, handler
<1>. QED
  BY <1>1, <1>2, <1>3, <1>4 DEF Next, Exit, Crash

\* A message that no handler has stays in the queue, and a handler gets one about
\* another node, as long as the handler it replaces one of waits to delete the old one.
LEMMA NextReplaced ==
  ASSUME ParametersOK, TypeInv, TypeInv', Replaced, [Next]_vars
  PROVE  Replaced'
<1>0. /\ pc \in [Handler -> PcType] /\ msg \in [Handler -> Message \cup {NoMessage}]
      /\ queue \subseteq Message /\ NoMessage \notin Message
  BY NoMessageIsNone DEF TypeInv, TypeOK, PcType
<1>1. CASE Restart
  BY <1>1 DEF Restart, Replaced
<1>2. ASSUME UNCHANGED <<pc, msg>>, queue \subseteq queue'
      PROVE  Replaced'
  BY <1>2 DEF Replaced, Spare, NodeOf
<1>3. ASSUME ~Restart, NEW h \in Handler, NEW m \in queue, Dispatch(h, m)
      PROVE  Replaced'
  <2>1. /\ queue' = queue /\ pc'[h] = "start" /\ msg'[h] = m
        /\ \A g \in Handler \ {h} : pc'[g] = pc[g] /\ msg'[g] = msg[g]
        /\ \A g \in Handler : pc[g] = "replace" => NodeOf(g) # m.node
    BY <1>0, <1>3 DEF Dispatch, Goto, sqs
  <2>2. ASSUME NEW g \in Handler, pc'[g] = "replace"
        PROVE  Spare(g)'
    <3>1. g # h /\ pc[g] = "replace" /\ NodeOf(g)' = NodeOf(g)
      BY <2>1, <2>2 DEF NodeOf
    <3>2. PICK s \in queue : s.node = NodeOf(g) /\ \A k \in Handler : msg[k] # s
      BY <3>1 DEF Replaced, Spare
    <3>3. s # m
      BY <2>1, <3>1, <3>2
    <3>4. \A k \in Handler : msg'[k] # s
      BY <2>1, <3>2, <3>3
    <3>. QED
      BY <2>1, <3>1, <3>2, <3>4 DEF Spare
  <2>. QED
    BY <2>2 DEF Replaced
<1>4. ASSUME ~Restart, NEW h \in Handler, Draining(h) \/ KeepingAlive(h) \/ Leaving(h)
      PROVE  Replaced'
  <2>1. \A g \in Handler \ {h} : pc'[g] = pc[g] /\ msg'[g] = msg[g]
    BY <1>4, OthersStay
  <2>2. /\ queue \ {msg[h]} \subseteq queue' /\ msg'[h] \in {msg[h], NoMessage}
        /\ pc'[h] = "replace" => Send(h)
    <3>1. CASE Draining(h)
      BY <1>0, <3>1 DEF Draining, StartHandler, DrainGet, DrainPut, LockVotes, Vote, EarlyError,
                        AfterDrain, Enter, Goto, sqs
    <3>2. CASE KeepingAlive(h)
      BY <1>0, <1>4, <3>2 DEF KeepingAlive, StartCheck, CheckPasses, CheckFails, CheckErrs,
                        BeatRecorded, BeatErrs, Panics, Errored, Goto, sqs
    <3>3. CASE Leaving(h)
      BY <1>0, <1>4, <3>3 DEF Leaving, Send, DeleteReplaced, Unvote, ClearVotes, UndrainGet,
                        UndrainPut, Fatal, DeleteMessage, Failed, Finish, Goto, sqs
    <3>. QED
      BY <1>4, <3>1, <3>2, <3>3
  <2>3. ASSUME NEW g \in Handler \ {h}, pc'[g] = "replace"
        PROVE  Spare(g)'
    <3>1. pc[g] = "replace" /\ NodeOf(g)' = NodeOf(g)
      BY <2>1, <2>3 DEF NodeOf
    <3>2. PICK s \in queue : s.node = NodeOf(g) /\ \A k \in Handler : msg[k] # s
      BY <3>1 DEF Replaced, Spare
    <3>3. s \in queue' /\ s # NoMessage
      BY <1>0, <2>2, <3>2
    <3>4. \A k \in Handler : msg'[k] # s
      BY <2>1, <2>2, <3>2, <3>3
    <3>. QED
      BY <3>1, <3>2, <3>3, <3>4 DEF Spare
  <2>4. ASSUME Send(h)
        PROVE  Spare(h)'
    <3>. DEFINE new == [id |-> sent + 1, node |-> NodeOf(h), count |-> count[h]]
    <3>1. new \in queue' /\ new.node = NodeOf(h) /\ NodeOf(h)' = NodeOf(h) /\ msg' = msg
      BY <2>4 DEF Send, NodeOf
    <3>2. \A k \in Handler : msg[k] # new
      <4>1. sent \in Nat /\ new.id = sent + 1
        BY DEF ParametersOK, TypeInv, TypeOK
      <4>2. \A k \in Handler : pc[k] # "idle" => msg[k].id <= sent /\ msg[k].id \in Nat
        BY DEF TypeInv, MessagesFit, Message
      <4>3. \A k \in Handler : pc[k] # "idle" => msg[k].id # sent + 1
        BY <4>1, <4>2
      <4>4. new # NoMessage
        BY <1>0, <3>1 DEF TypeInv, TypeOK
      <4>. QED
        BY <4>1, <4>3, <4>4 DEF TypeInv, MessagesFit
    <3>. QED
      BY <3>1, <3>2 DEF Spare
  <2>. QED
    BY <2>2, <2>3, <2>4 DEF Replaced
<1>5. ASSUME \/ \E n \in Node : StartAction(n) \/ Expire(n) \/ Vacate(n) \/ Leave(n)
             \/ UNCHANGED vars
      PROVE  UNCHANGED <<pc, msg>> /\ queue \subseteq queue'
  BY <1>5 DEF StartAction, Expire, Vacate, Leave, vars, handler, sqs
<1>. QED
  BY <1>1, <1>2, <1>3, <1>4, <1>5 DEF Next, Exit, Crash

\* Everything that is inductive about the lifecycler.
IInv == TypeInv /\ VoteInv /\ Reasons /\ Replaced

LEMMA NextIInv ==
  ASSUME ParametersOK, IInv, [Next]_vars
  PROVE  IInv'
<1>1. TypeInv' /\ VoteInv'
  BY NextVoteInv DEF IInv
<1>. QED
  BY <1>1, NextReasons, NextReplaced DEF IInv

LEMMA Invariance == ParametersOK => (Spec => []IInv)
<1>. SUFFICES ASSUME ParametersOK PROVE Spec => []IInv
  OBVIOUS
<1>1. Init => IInv
  <2>1. Init => Reasons /\ Replaced
    BY DEF Init, ProcessInit, Reasons, ReasonsOf, Replaced
  <2>. QED
    BY <2>1, InitTypeInv, InitVoteInv DEF IInv
<1>2. IInv /\ [Next]_vars => IInv'
  BY NextIInv
<1>. QED
  BY <1>1, <1>2, PTL DEF Spec

\* Which steps of a handler take a message from the queue.
LEMMA WhoDeletes ==
  ASSUME [Next]_vars, NEW m \in queue, m \notin queue'
  PROVE  \E h \in Handler : m = msg[h] /\ (pc[h] = "replace" \/ (pc[h] = "delete" /\ DeleteMessage(h)))
<1>1. ASSUME NEW h \in Handler, Draining(h) \/ KeepingAlive(h)
      PROVE  queue' = queue
  BY <1>1 DEF Draining, StartHandler, DrainGet, DrainPut, LockVotes, Vote, EarlyError, KeepingAlive,
              StartCheck, CheckPasses, CheckFails, CheckErrs, BeatRecorded, BeatErrs, Panics, sqs
<1>2. ASSUME NEW h \in Handler, Leaving(h)
      PROVE  m = msg[h] /\ (pc[h] = "replace" \/ (pc[h] = "delete" /\ DeleteMessage(h)))
  BY <1>2 DEF Leaving, Send, DeleteReplaced, Unvote, ClearVotes, UndrainGet, UndrainPut, Fatal,
              DeleteMessage, Failed, sqs
<1>3. ASSUME \/ \E n \in Node : StartAction(n) \/ Expire(n) \/ Vacate(n) \/ Leave(n)
             \/ \E h \in Handler : \E k \in queue : Dispatch(h, k)
             \/ Exit \/ Crash \/ UNCHANGED vars
      PROVE  queue \subseteq queue'
  BY <1>3 DEF StartAction, Expire, Vacate, Leave, Dispatch, Exit, Crash, vars, sqs
<1>. QED
  BY <1>1, <1>2, <1>3 DEF Next

\* "We want lifecycle to be able to pick up where it left off if restarted" (main.go:221):
\* the last message about an action that waits is deleted only by a handler whose
\* condition passed or that took the action for expired.
THEOREM PicksUpWhereItLeft == ParametersOK => (Spec => NeverForgotten)
<1>. SUFFICES ASSUME ParametersOK PROVE Spec => NeverForgotten
  OBVIOUS
<1>1. ASSUME IInv, [Next]_vars, NEW n \in Node
      PROVE  GivenUpWhenOver(n)
  <2>. SUFFICES ASSUME action[n] = "wait", n \in members, About(n) # {}, About(n)' = {}
                PROVE  \E h \in Handler :
                         /\ pc[h] = "delete" /\ NodeOf(h) = n
                         /\ \/ why[h] = "passed"
                            \/ /\ why[h] = "expired"
                               /\ (msg[h].count < beats[n] \/ beats[n] = MaxBeats)
    BY DEF GivenUpWhenOver
  <2>1. PICK m \in queue : m.node = n /\ m \notin queue'
    BY DEF About
  <2>2. PICK h \in Handler :
          m = msg[h] /\ (pc[h] = "replace" \/ (pc[h] = "delete" /\ DeleteMessage(h)))
    BY <1>1, <2>1, WhoDeletes
  <2>3. NodeOf(h) = n
    BY <2>1, <2>2 DEF NodeOf
  <2>4. pc[h] = "delete"
    <3>. SUFFICES ASSUME pc[h] = "replace" PROVE FALSE
      BY <2>2
    <3>1. PICK s \in queue : s.node = n /\ \A g \in Handler : msg[g] # s
      BY <1>1, <2>3 DEF IInv, Replaced, Spare
    <3>2. s \in queue'
      BY <1>1, <3>1, WhoDeletes
    <3>. QED
      BY <3>1, <3>2 DEF About
  <2>5. why[h] \in {"left", "passed", "expired"}
    BY <1>1, <2>4 DEF IInv, TypeInv, TypeOK, Reasons, ReasonsOf
  <2>. QED
    BY <1>1, <2>3, <2>4, <2>5 DEF IInv, Reasons, ReasonsOf
<1>2. ASSUME IInv, [Next]_vars
      PROVE  [\A n \in Node : GivenUpWhenOver(n)]_vars
  BY <1>1, <1>2
<1>. QED
  BY <1>2, Invariance, PTL DEF Spec, NeverForgotten
=============================================================================
