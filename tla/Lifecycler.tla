---------------------------- MODULE Lifecycler ----------------------------
(***************************************************************************)
(* The lifecycler of the first generation (cmd/lifecycler): one handler    *)
(* for each message of a lifecycle hook, started by the Dispatcher, which  *)
(* drains the node, excludes it from voting, keeps the action waiting      *)
(* (lifecycle.KeepAlive) until the condition holds and then cleans up.     *)
(* Around it: the Elasticsearch cluster, the AutoScaling group and SQS.    *)
(* KeepAlive is reduced to its outcomes; its timers are in KeepAlive.      *)
(***************************************************************************)
EXTENDS Naturals, FiniteSets

CONSTANTS
  Node,         \* names of nodes, which are the ids of their instances
  Launches,     \* the sets of nodes whose event may be that of a launch
  Master,       \* the master-eligible ones
  Handler,      \* goroutines running handlerFn
  Free,         \* votingLock is not locked
  MaxBeats,     \* heartbeats an action can have before its global timeout
  MaxSent,      \* messages in the history of the queue
  MaxFaults     \* at most, requests that fail and crashes

ParametersOK ==
  /\ Launches \subseteq SUBSET Node /\ Master \subseteq Node /\ Free \notin Handler
  /\ MaxBeats \in Nat /\ MaxSent \in Nat /\ MaxFaults \in Nat

VARIABLES
  \* Elasticsearch.
  members, holders, excluded,
  voting,       \* the nodes excluded from voting
  \* The AutoScaling group: actions and the heartbeats recorded for them.  An
  \* action is over when it expired or KeepAlive would find it about to.
  launching,    \* the nodes whose event is that of a launch
  action, beats,
  \* SQS: the messages not deleted, and how many there have been.
  queue, sent,
  \* The process.
  ctxDone, votingLock, votingCount,
  pc,           \* where each handler is
  msg,          \* the message it was given
  count,        \* HeartbeatCount of its Event
  why,          \* what KeepAlive returned, or that the node had left
  fetched,      \* the exclusions it fetched
  leaked,       \* an action with a vote expired in this process (history)
  faults

cluster == <<members, holders, excluded, voting>>
group   == <<launching, action, beats>>
sqs     == <<queue, sent>>
voters  == <<votingLock, votingCount, leaked>>
handler == <<pc, msg, count, why, fetched>>
vars    == <<cluster, group, sqs, ctxDone, voters, handler, faults>>

Message == [id : 1..MaxSent, node : Node, count : 0..MaxBeats + 1]
NoMessage == [id |-> 0]
NodeOf(h) == msg[h].node

TypeOK ==
  /\ members \subseteq Node /\ holders \subseteq members
  /\ excluded \subseteq Node /\ voting \subseteq Node
  /\ launching \subseteq Node
  /\ action \in [Node -> {"none", "wait", "over"}] /\ beats \in [Node -> 0..MaxBeats]
  /\ queue \subseteq Message /\ sent \in 0..MaxSent
  /\ ctxDone \in BOOLEAN /\ leaked \in BOOLEAN /\ faults \in 0..MaxFaults
  /\ votingLock \in Handler \cup {Free} /\ votingCount \in Nat
  /\ pc \in [Handler -> {"idle", "start", "get", "put", "vote", "post", "keep", "check",
                         "beat", "unvote", "clear", "undrain", "unput", "delete",
                         "send", "replace", "failed"}]
  /\ msg \in [Handler -> Message \cup {NoMessage}]
  /\ count \in [Handler -> 0..MaxBeats + 1]
  /\ why \in [Handler -> {"none", "left", "passed", "expired"}]
  /\ fetched \in [Handler -> SUBSET Node]

ProcessInit ==
  /\ ctxDone = FALSE /\ votingLock = Free /\ votingCount = 0 /\ leaked = FALSE
  /\ pc = [h \in Handler |-> "idle"] /\ msg = [h \in Handler |-> NoMessage]
  /\ count = [h \in Handler |-> 0] /\ why = [h \in Handler |-> "none"]
  /\ fetched = [h \in Handler |-> {}]

Init ==
  /\ launching \in Launches
  /\ members = Node /\ holders = Node \ launching /\ excluded = {} /\ voting = {}
  /\ action = [n \in Node |-> "none"] /\ beats = [n \in Node |-> 0]
  /\ queue = {} /\ sent = 0 /\ faults = 0
  /\ ProcessInit

\* The process starts again: the count of votes is 0, whatever is excluded.
Restart ==
  /\ ctxDone' = FALSE /\ votingLock' = Free /\ votingCount' = 0 /\ leaked' = FALSE
  /\ pc' = [h \in Handler |-> "idle"] /\ msg' = [h \in Handler |-> NoMessage]
  /\ count' = [h \in Handler |-> 0] /\ why' = [h \in Handler |-> "none"]
  /\ fetched' = [h \in Handler |-> {}]

\* A request fails.  Cancelled ones fail without being a fault.
Fault == faults < MaxFaults /\ faults' = faults + 1
Fails == Fault \/ (ctxDone /\ UNCHANGED faults)

Goto(h, where) == pc' = [pc EXCEPT ![h] = where]

-----------------------------------------------------------------------------
(* Elasticsearch, the group and the queue.                                 *)

\* The group waits for a hook and publishes the message.
StartAction(n) ==
  /\ action[n] = "none" /\ sent < MaxSent
  /\ action' = [action EXCEPT ![n] = "wait"]
  /\ sent' = sent + 1
  /\ queue' = queue \cup {[id |-> sent + 1, node |-> n, count |-> 0]}
  /\ UNCHANGED <<cluster, launching, beats, ctxDone, voters, handler, faults>>

\* A handler in KeepAlive whose count is right keeps the action from expiring until
\* its first heartbeat is recorded.  A later period may end while the next condition
\* is being checked, or before its heartbeat (KeepAlive).
Kept(n) ==
  /\ beats[n] = 0 /\ MaxBeats > 0
  /\ \E h \in Handler :
       /\ pc[h] \in {"keep", "check", "beat"} /\ NodeOf(h) = n
       /\ count[h] = IF pc[h] = "beat" THEN 1 ELSE 0

Expire(n) ==
  /\ action[n] = "wait" /\ ~Kept(n)
  /\ action' = [action EXCEPT ![n] = "over"]
  /\ UNCHANGED <<cluster, launching, beats, sqs, ctxDone, voters, handler, faults>>

Vacate(n) ==
  /\ n \in holders \cap excluded
  /\ holders' = holders \ {n}
  /\ UNCHANGED <<members, excluded, voting, group, sqs, ctxDone, voters, handler, faults>>

Leave(n) ==
  /\ n \in members /\ action[n] # "none"
  /\ members' = members \ {n} /\ holders' = holders \ {n}
  /\ UNCHANGED <<excluded, voting, group, sqs, ctxDone, voters, handler, faults>>

-----------------------------------------------------------------------------
(* A handler up to KeepAlive.                                              *)

\* The Dispatcher gives a message to one handler at a time.  A message sent back is
\* delayed long enough for the process to end first.
Dispatch(h, m) ==
  /\ ~ctxDone /\ pc[h] = "idle"
  /\ \A g \in Handler : msg[g] # m /\ (pc[g] \in {"replace", "failed"} => NodeOf(g) # m.node)
  /\ Goto(h, "start")
  /\ msg' = [msg EXCEPT ![h] = m]
  /\ count' = [count EXCEPT ![h] = m.count]
  /\ UNCHANGED <<cluster, group, sqs, ctxDone, voters, why, fetched, faults>>

\* KeepAlive is called: it returns ErrExpired at once if the timeout it computes
\* from the count is over, and the handler then returns nil without cleaning up.  A
\* count that is ahead of the heartbeats recorded puts that timeout after the real one.
Enter(h, voted) ==
  LET n == NodeOf(h) IN
  \E expired \in BOOLEAN :
     /\ count[h] < beats[n] \/ (action[n] = "over" /\ count[h] = beats[n]) => expired
     /\ expired => count[h] < beats[n] \/ action[n] = "over"
     /\ Goto(h, IF expired THEN "delete" ELSE "keep")
     /\ why' = [why EXCEPT ![h] = IF expired THEN "expired" ELSE why[h]]
     /\ leaked' = (leaked \/ (expired /\ voted))

\* The hook and the node are described.
StartHandler(h) ==
  /\ pc[h] = "start" /\ ~ctxDone
  /\ IF NodeOf(h) \in launching
       THEN Enter(h, FALSE)
       ELSE IF NodeOf(h) \notin members
         THEN Goto(h, "delete") /\ why' = [why EXCEPT ![h] = "left"] /\ UNCHANGED leaked
         ELSE Goto(h, "get") /\ UNCHANGED <<why, leaked>>
  /\ UNCHANGED <<cluster, group, sqs, ctxDone, votingLock, votingCount,
                 msg, count, fetched, faults>>

\* Drained: what the handler does next.
AfterDrain(h) ==
  IF NodeOf(h) \in Master
    THEN Goto(h, "vote") /\ UNCHANGED <<why, leaked>>
    ELSE Enter(h, FALSE)

\* settingsMu belongs to the command service of this handler alone.
DrainGet(h) ==
  /\ pc[h] = "get" /\ ~ctxDone
  /\ IF NodeOf(h) \in excluded
       THEN AfterDrain(h) /\ UNCHANGED fetched
       ELSE /\ fetched' = [fetched EXCEPT ![h] = excluded]
            /\ Goto(h, "put")
            /\ UNCHANGED <<why, leaked>>
  /\ UNCHANGED <<cluster, group, sqs, ctxDone, votingLock, votingCount, msg, count, faults>>

DrainPut(h) ==
  /\ pc[h] = "put" /\ ~ctxDone
  /\ excluded' = fetched[h] \cup {NodeOf(h)}
  /\ fetched' = [fetched EXCEPT ![h] = {}]
  /\ AfterDrain(h)
  /\ UNCHANGED <<members, holders, voting, group, sqs, ctxDone, votingLock, votingCount,
                 msg, count, faults>>

LockVotes(h) ==
  /\ pc[h] = "vote" /\ votingLock = Free
  /\ votingLock' = h
  /\ Goto(h, "post")
  /\ UNCHANGED <<cluster, group, sqs, ctxDone, votingCount, leaked,
                 msg, count, why, fetched, faults>>

Vote(h) ==
  /\ pc[h] = "post" /\ ~ctxDone
  /\ voting' = voting \cup {NodeOf(h)}
  /\ votingCount' = votingCount + 1
  /\ votingLock' = Free
  /\ Enter(h, TRUE)
  /\ UNCHANGED <<members, holders, excluded, group, sqs, ctxDone, msg, count, fetched, faults>>

\* A request before KeepAlive fails, carried out or not: the handler returns it.
EarlyError(h) ==
  /\ pc[h] \in {"start", "get", "put", "post"} /\ Fails
  /\ excluded' \in {excluded} \cup
       (IF pc[h] = "put" THEN {fetched[h] \cup {NodeOf(h)}} ELSE {})
  /\ voting' \in {voting} \cup (IF pc[h] = "post" THEN {voting \cup {NodeOf(h)}} ELSE {})
  /\ votingLock' = IF pc[h] = "post" THEN Free ELSE votingLock
  /\ fetched' = [fetched EXCEPT ![h] = {}]
  /\ Goto(h, "failed")
  /\ UNCHANGED <<members, holders, group, sqs, ctxDone, votingCount, leaked,
                 msg, count, why>>

-----------------------------------------------------------------------------
(* KeepAlive.                                                              *)

\* The timer fires shortly before the timeout the count tells of, which is after
\* the real one if the count is too high.
StartCheck(h) ==
  /\ pc[h] = "keep" /\ ~ctxDone
  /\ count[h] <= beats[NodeOf(h)] \/ action[NodeOf(h)] = "over"
  /\ Goto(h, "check")
  /\ UNCHANGED <<cluster, group, sqs, ctxDone, voters, msg, count, why, fetched, faults>>

\* KeepAlive returns an error: with a count that changed a new message is sent.
Errored(h, c) ==
  /\ count' = [count EXCEPT ![h] = c]
  /\ Goto(h, IF c # msg[h].count THEN "send" ELSE "failed")

\* The condition holds: the node has no shards, or, for a launch, nothing relocates.
\* It is taken to hold if the list of shards fails and the error is lost (NodesQuery).
\* Clean-up functions run in the reverse order.
CheckPasses(h) ==
  /\ pc[h] = "check" /\ ~ctxDone
  /\ IF NodeOf(h) \in holders THEN Fault ELSE UNCHANGED faults
  /\ NodeOf(h) \in launching \cup members
  /\ why' = [why EXCEPT ![h] = "passed"]
  /\ Goto(h, IF NodeOf(h) \in launching THEN "delete"
             ELSE IF NodeOf(h) \in Master THEN "unvote" ELSE "undrain")
  /\ UNCHANGED <<cluster, group, sqs, ctxDone, voters, msg, count, fetched>>

\* It does not hold (the cluster may be red): the count is raised and a heartbeat
\* sent, unless the global timeout is too near.
CheckFails(h) ==
  /\ pc[h] = "check" /\ ~ctxDone
  /\ NodeOf(h) \in launching \cup members
  /\ count' = [count EXCEPT ![h] = @ + 1]
  /\ LET expired == count[h] >= MaxBeats IN
       /\ Goto(h, IF expired THEN "delete" ELSE "beat")
       /\ why' = [why EXCEPT ![h] = IF expired THEN "expired" ELSE why[h]]
       /\ leaked' = (leaked \/ (expired /\ NodeOf(h) \in Master \ launching))
  /\ UNCHANGED <<cluster, group, sqs, ctxDone, votingLock, votingCount, msg, fetched, faults>>

CheckErrs(h) ==
  /\ pc[h] \in {"keep", "check"}
  /\ IF pc[h] = "keep" THEN ctxDone /\ UNCHANGED faults ELSE Fails
  /\ Errored(h, count[h])
  /\ UNCHANGED <<cluster, group, sqs, ctxDone, voters, msg, why, fetched>>

\* A heartbeat extends the action, up to its global timeout, whichever handler sends it:
\* two messages are about the same action if the process ends between the sending of
\* the new one and the deletion of the old one.
Extended(n) == [beats EXCEPT ![n] = IF @ < MaxBeats THEN @ + 1 ELSE @]

BeatRecorded(h) ==
  /\ pc[h] = "beat" /\ ~ctxDone /\ action[NodeOf(h)] = "wait"
  /\ beats' = Extended(NodeOf(h))
  /\ Goto(h, "keep")
  /\ UNCHANGED <<cluster, launching, action, sqs, ctxDone, voters,
                 msg, count, why, fetched, faults>>

\* The request fails or is cancelled, the heartbeat recorded or not.  After a
\* failure the goroutine takes the count back; after a cancellation KeepAlive
\* does not wait for it and the handler may read the count before or after.
BeatErrs(h) ==
  /\ pc[h] = "beat" /\ Fails
  /\ beats' \in {beats} \cup (IF action[NodeOf(h)] = "wait"
                                THEN {Extended(NodeOf(h))} ELSE {})
  /\ \E c \in {count[h] - 1} \cup (IF ctxDone THEN {count[h]} ELSE {}) : Errored(h, c)
  /\ UNCHANGED <<cluster, launching, action, sqs, ctxDone, voters, msg, why, fetched>>

\* The process panics: the heartbeat is rejected because the action is over, the
\* node left the cluster and the condition dereferences nil, or the requests about
\* the node fail and their errors are lost.
Panics(h) ==
  /\ \/ pc[h] = "beat" /\ ~ctxDone /\ action[NodeOf(h)] = "over" /\ UNCHANGED faults
     \/ pc[h] = "check" /\ ~ctxDone /\ NodeOf(h) \notin launching \cup members /\ UNCHANGED faults
     \/ pc[h] \in {"start", "check"} /\ NodeOf(h) \notin launching /\ Fails
  /\ Restart
  /\ UNCHANGED <<cluster, group, sqs>>

-----------------------------------------------------------------------------
(* The ways out.                                                           *)

\* (mutant) The old message is deleted and no new one sent.
SendNothing(h) ==
  /\ pc[h] = "send"
  /\ queue' = queue \ {msg[h]}
  /\ Goto(h, "replace")
  /\ UNCHANGED <<cluster, group, sent, ctxDone, voters, msg, count, why, fetched, faults>>

\* The message goes back with the count, whatever the context.
Send(h) ==
  /\ pc[h] = "send" /\ sent < MaxSent
  /\ sent' = sent + 1
  /\ queue' = queue \cup {[id |-> sent + 1, node |-> NodeOf(h), count |-> count[h]]}
  /\ Goto(h, "replace")
  /\ UNCHANGED <<cluster, group, ctxDone, voters, msg, count, why, fetched, faults>>

DeleteReplaced(h) ==
  /\ pc[h] = "replace"
  /\ queue' = queue \ {msg[h]}
  /\ Goto(h, "failed")
  /\ UNCHANGED <<cluster, group, sent, ctxDone, voters, msg, count, why, fetched, faults>>

\* (mutant) The lock is not needed to clear the exclusions.
UnvoteUnlocked(h) ==
  /\ pc[h] = "unvote"
  /\ votingCount' = votingCount - 1
  /\ Goto(h, IF votingCount = 1 THEN "clear" ELSE "undrain")
  /\ UNCHANGED <<cluster, group, sqs, ctxDone, votingLock, leaked,
                 msg, count, why, fetched, faults>>

\* (mutant) The count is compared before it is lowered.
UnvoteOffByOne(h) ==
  /\ pc[h] = "unvote" /\ votingLock = Free
  /\ votingCount' = votingCount - 1
  /\ IF votingCount = 0
       THEN votingLock' = h /\ Goto(h, "clear")
       ELSE Goto(h, "undrain") /\ UNCHANGED votingLock
  /\ UNCHANGED <<cluster, group, sqs, ctxDone, leaked, msg, count, why, fetched, faults>>

\* The first clean-up: the last handler with a vote clears the exclusions, all of
\* them, before it unlocks.
Unvote(h) ==
  /\ pc[h] = "unvote" /\ votingLock = Free
  /\ votingCount' = votingCount - 1
  /\ IF votingCount = 1
       THEN votingLock' = h /\ Goto(h, "clear")
       ELSE Goto(h, "undrain") /\ UNCHANGED votingLock
  /\ UNCHANGED <<cluster, group, sqs, ctxDone, leaked, msg, count, why, fetched, faults>>

ClearVotes(h) ==
  /\ pc[h] = "clear" /\ ~ctxDone
  /\ voting' = {}
  /\ votingLock' = Free
  /\ Goto(h, "undrain")
  /\ UNCHANGED <<members, holders, excluded, group, sqs, ctxDone, votingCount, leaked,
                 msg, count, why, fetched, faults>>

UndrainGet(h) ==
  /\ pc[h] = "undrain" /\ ~ctxDone
  /\ IF NodeOf(h) \in excluded
       THEN fetched' = [fetched EXCEPT ![h] = excluded] /\ Goto(h, "unput")
       ELSE Goto(h, "delete") /\ UNCHANGED fetched
  /\ UNCHANGED <<cluster, group, sqs, ctxDone, voters, msg, count, why, faults>>

UndrainPut(h) ==
  /\ pc[h] = "unput" /\ ~ctxDone
  /\ excluded' = fetched[h] \ {NodeOf(h)}
  /\ fetched' = [fetched EXCEPT ![h] = {}]
  /\ Goto(h, "delete")
  /\ UNCHANGED <<members, holders, voting, group, sqs, ctxDone, voters,
                 msg, count, why, faults>>

\* A clean-up fails, carried out or not, or a message cannot be sent or deleted:
\* the process ends at once.
Fatal(h) ==
  /\ \/ pc[h] \in {"clear", "undrain", "unput"} /\ Fails
     \/ pc[h] \in {"send", "replace"} /\ Fault
  /\ excluded' \in {excluded} \cup (IF pc[h] = "unput" THEN {fetched[h] \ {NodeOf(h)}} ELSE {})
  /\ voting' \in {voting} \cup (IF pc[h] = "clear" THEN {{}} ELSE {})
  /\ queue' \in {queue} \cup (IF pc[h] = "replace" THEN {queue \ {msg[h]}} ELSE {})
  /\ Restart
  /\ UNCHANGED <<members, holders, group, sent>>

Finish(h) ==
  /\ Goto(h, "idle")
  /\ msg' = [msg EXCEPT ![h] = NoMessage]
  /\ count' = [count EXCEPT ![h] = 0]
  /\ why' = [why EXCEPT ![h] = "none"]
  /\ fetched' = [fetched EXCEPT ![h] = {}]

\* The handler returns nil and the Dispatcher deletes the message.
DeleteMessage(h) ==
  /\ pc[h] = "delete" /\ ~ctxDone
  /\ queue' = queue \ {msg[h]}
  /\ Finish(h)
  /\ UNCHANGED <<cluster, group, sent, ctxDone, voters, faults>>

\* The deletion fails or is cancelled, or the handler returned an error: Run ends.
Failed(h) ==
  /\ \/ pc[h] = "failed" /\ UNCHANGED faults
     \/ pc[h] = "delete" /\ Fails
  /\ ctxDone' = TRUE
  /\ Finish(h)
  /\ UNCHANGED <<cluster, group, sqs, voters>>

\* Run returned and all handlers did: the process exits and is started again.
Exit ==
  /\ ctxDone /\ \A h \in Handler : pc[h] = "idle"
  /\ Restart
  /\ UNCHANGED <<cluster, group, sqs, faults>>

Crash == Fault /\ Restart /\ UNCHANGED <<cluster, group, sqs>>

Draining(h) ==
  StartHandler(h) \/ DrainGet(h) \/ DrainPut(h) \/ LockVotes(h) \/ Vote(h) \/ EarlyError(h)
KeepingAlive(h) ==
  \/ StartCheck(h) \/ CheckPasses(h) \/ CheckFails(h) \/ CheckErrs(h)
  \/ BeatRecorded(h) \/ BeatErrs(h) \/ Panics(h)
Leaving(h) ==
  \/ Send(h) \/ DeleteReplaced(h) \/ Unvote(h) \/ ClearVotes(h) \/ UndrainGet(h)
  \/ UndrainPut(h) \/ Fatal(h) \/ DeleteMessage(h) \/ Failed(h)

Next ==
  \/ \E n \in Node : StartAction(n) \/ Expire(n) \/ Vacate(n) \/ Leave(n)
  \/ \E h \in Handler :
       \/ \E m \in queue : Dispatch(h, m)
       \/ Draining(h) \/ KeepingAlive(h) \/ Leaving(h)
  \/ Exit \/ Crash

Spec == Init /\ [][Next]_vars

-----------------------------------------------------------------------------

\* Handlers whose node has a vote to clean up.
Voted(h) ==
  /\ msg[h] # NoMessage /\ NodeOf(h) \in Master \ launching
  /\ pc[h] \in {"keep", "check", "beat", "unvote"}

\* The exclusions from voting are cleared all at once, but "only if this is the only
\* lifecycle event currently being handled" (main.go:187-188): no node loses its
\* exclusion while its handler still keeps its action waiting, in any order of
\* requests and across restarts, which forget the count but not the exclusions.
VotingKept == \A h \in Handler : Voted(h) => NodeOf(h) \in voting

\* The handler that is the last to clean up does clear them, unless the process is
\* about to end with an error, or an action of it expired after it was counted: that
\* one returns before it cleans up (main.go:206-211) and the count never comes down
\* to zero again.
VotingCleared ==
  [][\A h \in Handler :
       pc[h] \in {"unvote", "clear"} /\ pc'[h] = "undrain" /\ ~leaked /\ ~ctxDone
         => \/ voting' = {}
            \/ \E g \in Handler \ {h} : Voted(g) \/ pc[g] \in {"send", "replace", "failed"}]_vars

\* "We want lifecycle to be able to pick up where it left off if restarted"
\* (main.go:221): the last message about an action that still waits is given up
\* only when the condition passed, or the code takes the action for expired, at its
\* global timeout or because its count is behind the heartbeats recorded, which a
\* crash or a heartbeat without an answer can bring about (lifecycle.go:197-200).
About(n) == {m \in queue : m.node = n}
GivenUpWhenOver(n) ==
  action[n] = "wait" /\ n \in members /\ About(n) # {} /\ About(n)' = {} =>
    \E h \in Handler :
      /\ pc[h] = "delete" /\ NodeOf(h) = n
      /\ \/ why[h] = "passed"
         \/ why[h] = "expired" /\ (msg[h].count < beats[n] \/ beats[n] = MaxBeats)
NeverForgotten == [][\A n \in Node : GivenUpWhenOver(n)]_vars

=============================================================================
