------------------------------ MODULE Drainer ------------------------------
(***************************************************************************)
(* The drainer (v2/internal/app/drainer): one process whose goroutines are *)
(*   - the main loop, which starts one handler per event;                  *)
(*   - the handlers of instance-termination hooks (TermHandler) and of     *)
(*     batches of spot interruptions (SpotHandler);                        *)
(*   - the listener each termination handler starts;                       *)
(*   - the poller, which reads the Elasticsearch cluster, un-excludes the  *)
(*     nodes that left it and announces empty and removed nodes;           *)
(*   - the emitter, CloudWatchEventEmitter.Run, of which only the end is   *)
(*     modelled here, and the rest in EventFlow.                           *)
(* Around it: the Elasticsearch cluster and the AutoScaling group.         *)
(***************************************************************************)
EXTENDS Naturals, FiniteSets

CONSTANTS
  Node,         \* names of nodes, which are the ids of their instances
  TermHandler,  \* goroutines running handleLifecycleTerminateActionEvent
  SpotHandler,  \* goroutines running handleSpotInterruptionEvent
  MaxBatch,     \* most events in a batch of spot interruptions (20 in the code)
  Poller,       \* the goroutine running updateClusterState
  Free,         \* settingsMu is not locked
  Joining,      \* the nodes that may join the cluster late, or come back to it
  MayAllocate,  \* Elasticsearch may place shards on a node that has none
  CanFail,      \* requests may fail
  CanCrash      \* the process may be killed at any point

Handler == TermHandler \cup SpotHandler

ASSUME GoroutinesAssumption ==
  /\ TermHandler \cap SpotHandler = {}
  /\ Poller \notin Handler
  /\ Free \notin Handler \cup {Poller}

ASSUME BoundsAssumption ==
  /\ MaxBatch \in Nat \ {0}
  /\ Joining \subseteq Node /\ MayAllocate \in BOOLEAN
  /\ CanFail \in BOOLEAN /\ CanCrash \in BOOLEAN

VARIABLES
  \* Elasticsearch and the AutoScaling group.
  members,      \* the nodes of the cluster
  holders,      \* the nodes with at least one shard, relocating ones included
  excluded,     \* transient cluster.routing.allocation.exclude._name
  action,       \* the lifecycle action of each instance
  late,         \* the holders that got their shards after the poll that announces
                \* them as empty had read the shards, and before it did (history)
  \* The process.
  main,         \* where Main is
  ctxDone,      \* the errgroup's context is cancelled
  emitter,      \* the goroutine of CloudWatchEventEmitter.Run
  settingsMu,   \* who holds ElasticsearchFacade.settingsMu
  fetched,      \* the exclusions each goroutine last fetched under the lock
  pc,           \* where each handler is
  names,        \* the node names of the event(s) each handler was given
  sub,          \* the listener of each termination handler
  pollPc,       \* where updateClusterState is
  todo,         \* requests of GetState not answered yet
  seenNodes, seenHolders, seenExcluded,  \* the ClusterState GetState builds
  lastNodes     \* the nodes of app.clusterState

external == <<members, holders, late, excluded, action>>
lock     == <<settingsMu, fetched>>
handlers == <<pc, names, sub>>
poll     == <<pollPc, todo, seenNodes, seenHolders, seenExcluded, lastNodes>>
process  == <<main, ctxDone, emitter>>
vars     == <<external, process, lock, handlers, poll>>

Reads   == {"nodes", "shards", "settings"}
Batches == UNION {[1..k -> Node] : k \in 1..MaxBatch}
NoNames == [i \in 1..0 |-> i]

\* The node a termination handler is about, and the set of nodes of a batch.
NodeOf(h)  == names[h][1]
NamesOf(h) == {names[h][i] : i \in DOMAIN names[h]}

TypeOK ==
  /\ members \subseteq Node /\ holders \subseteq members /\ late \subseteq holders
  /\ excluded \subseteq Node
  /\ action \in [Node -> {"none", "wait", "completed", "expired"}]
  /\ main \in {"boot", "loop", "wait"} /\ ctxDone \in BOOLEAN
  /\ emitter \in {"run", "stuck"}
  /\ settingsMu \in Handler \cup {Poller, Free}
  /\ fetched \in [Handler \cup {Poller} -> SUBSET Node]
  /\ pc \in [Handler -> {"idle", "drain", "put", "describe", "await", "beat", "complete"}]
  /\ names \in [Handler -> Batches \cup {NoNames}]
  /\ sub \in [Handler -> {"none", "start", "half", "listening", "fired", "ended"}]
  /\ pollPc \in {"idle", "read", "undrain", "put", "emit", "stopped"}
  /\ todo \subseteq Reads
  /\ seenNodes \subseteq Node /\ seenHolders \subseteq Node /\ seenExcluded \subseteq Node
  /\ lastNodes \subseteq Node

Init ==
  /\ members = Node /\ holders \in SUBSET Node /\ late = {} /\ excluded = {}
  /\ action = [n \in Node |-> "none"]
  /\ main = "boot" /\ ctxDone = FALSE /\ emitter = "run"
  /\ settingsMu = Free /\ fetched = [p \in Handler \cup {Poller} |-> {}]
  /\ pc = [h \in Handler |-> "idle"]
  /\ names = [h \in Handler |-> NoNames]
  /\ sub = [h \in Handler |-> "none"]
  /\ pollPc = "idle" /\ todo = {}
  /\ seenNodes = {} /\ seenHolders = {} /\ seenExcluded = {} /\ lastNodes = {}

\* The process starts again with empty memory; what it knows of the events it
\* had taken from the queue is gone.
Restart ==
  /\ main' = "boot" /\ ctxDone' = FALSE /\ emitter' = "run"
  /\ settingsMu' = Free /\ fetched' = [p \in Handler \cup {Poller} |-> {}]
  /\ pc' = [h \in Handler |-> "idle"]
  /\ names' = [h \in Handler |-> NoNames]
  /\ sub' = [h \in Handler |-> "none"]
  /\ pollPc' = "idle" /\ todo' = {}
  /\ seenNodes' = {} /\ seenHolders' = {} /\ seenExcluded' = {} /\ lastNodes' = {}

-----------------------------------------------------------------------------
(* Elasticsearch and the AutoScaling group.                                *)

\* The group decides to terminate an instance and waits for its hook.
StartTermination(n) ==
  /\ action[n] = "none"
  /\ action' = [action EXCEPT ![n] = "wait"]
  /\ UNCHANGED <<members, holders, late, excluded, process, lock, handlers, poll>>

\* No heartbeat came in time: the group goes on without the drainer.
Expire(n) ==
  /\ action[n] = "wait"
  /\ action' = [action EXCEPT ![n] = "expired"]
  /\ UNCHANGED <<members, holders, late, excluded, process, lock, handlers, poll>>

Leave(n) ==
  /\ n \in members
  /\ members' = members \ {n}
  /\ holders' = holders \ {n} /\ late' = late \ {n}
  /\ UNCHANGED <<excluded, action, process, lock, handlers, poll>>

\* An Elasticsearch process (re)starts on an instance that is not terminated.
Join(n) ==
  /\ n \in Joining \ members /\ action[n] \in {"none", "wait"}
  /\ members' = members \cup {n}
  /\ UNCHANGED <<holders, late, excluded, action, process, lock, handlers, poll>>

\* The last shard of a node is moved away.
Vacate(n) ==
  /\ n \in holders
  /\ holders' = holders \ {n} /\ late' = late \ {n}
  /\ UNCHANGED <<members, excluded, action, process, lock, handlers, poll>>

\* The poller has read the shards and not emitted its events yet.
ShardsAreRead ==
  pollPc \in {"undrain", "put", "emit"} \/ (pollPc = "read" /\ "shards" \notin todo)

\* A shard is allocated, or starts to relocate, to a node not excluded.
Allocate(n) ==
  /\ MayAllocate
  /\ n \in members \ (excluded \cup holders)
  /\ holders' = holders \cup {n}
  /\ late' = IF ShardsAreRead /\ n \notin seenHolders THEN late \cup {n} ELSE late
  /\ UNCHANGED <<members, excluded, action, process, lock, handlers, poll>>

-----------------------------------------------------------------------------
(* Handlers.  A handler that returns an error cancels the errgroup.        *)

Finish(h) ==
  /\ pc' = [pc EXCEPT ![h] = "idle"]
  /\ names' = [names EXCEPT ![h] = NoNames]
  /\ sub' = [sub EXCEPT ![h] = "none"]

Unlock(p) ==
  /\ settingsMu' = Free
  /\ fetched' = [fetched EXCEPT ![p] = {}]

\* The main loop takes the event of a lifecycle action; SQS delivers at least
\* once, so the same action may be taken again.
DispatchTermination(h, n) ==
  /\ main = "loop" /\ pc[h] = "idle" /\ action[n] # "none"
  /\ pc' = [pc EXCEPT ![h] = "drain"]
  /\ names' = [names EXCEPT ![h] = [i \in 1..1 |-> n]]
  /\ UNCHANGED <<external, process, lock, sub, poll>>

DispatchSpotBatch(h, batch) ==
  /\ main = "loop" /\ pc[h] = "idle"
  /\ pc' = [pc EXCEPT ![h] = "drain"]
  /\ names' = [names EXCEPT ![h] = batch]
  /\ UNCHANGED <<external, process, lock, sub, poll>>

\* DrainNodes returns nil: the spot handler is done, the other starts its
\* listener and asks for the hook's description.
DrainReturns(h) ==
  \/ /\ h \in SpotHandler
     /\ Finish(h)
  \/ /\ h \in TermHandler
     /\ pc' = [pc EXCEPT ![h] = "describe"]
     /\ sub' = [sub EXCEPT ![h] = "start"]
     /\ UNCHANGED names

\* The loop of DrainNodes meets a name that is in the list already: excluded
\* on the server, or inserted by an earlier turn of the loop.
MeetsExcluded(h) ==
  \/ NamesOf(h) \cap excluded # {}
  \/ \E i, j \in DOMAIN names[h] : i # j /\ names[h][i] = names[h][j]

DrainSkip(h) ==
  /\ pc[h] = "drain" /\ settingsMu = Free
  /\ MeetsExcluded(h)
  /\ DrainReturns(h)
  /\ UNCHANGED <<external, process, lock, poll>>

\* (mutant) settingsMu is not locked.
DrainGetUnlocked(h) ==
  /\ pc[h] = "drain"
  /\ ~MeetsExcluded(h)
  /\ settingsMu' = h
  /\ fetched' = [fetched EXCEPT ![h] = excluded]
  /\ pc' = [pc EXCEPT ![h] = "put"]
  /\ UNCHANGED <<external, process, names, sub, poll>>

\* Lock settingsMu and GET the settings.
DrainGet(h) ==
  /\ pc[h] = "drain" /\ settingsMu = Free
  /\ ~MeetsExcluded(h)
  /\ settingsMu' = h
  /\ fetched' = [fetched EXCEPT ![h] = excluded]
  /\ pc' = [pc EXCEPT ![h] = "put"]
  /\ UNCHANGED <<external, process, names, sub, poll>>

\* (mutant) PUT only the new names.
DrainPutForgets(h) ==
  /\ pc[h] = "put"
  /\ excluded' = NamesOf(h)
  /\ Unlock(h)
  /\ DrainReturns(h)
  /\ UNCHANGED <<members, holders, late, action, process, poll>>

\* PUT the whole list and unlock.
DrainPut(h) ==
  /\ pc[h] = "put"
  /\ excluded' = fetched[h] \cup NamesOf(h)
  /\ Unlock(h)
  /\ DrainReturns(h)
  /\ UNCHANGED <<members, holders, late, action, process, poll>>

\* The GET fails, or the PUT does, applied or not.
DrainError(h) ==
  /\ CanFail
  /\ \/ pc[h] = "drain" /\ settingsMu = Free /\ UNCHANGED <<excluded, lock>>
     \/ /\ pc[h] = "put"
        /\ excluded' \in {excluded, fetched[h] \cup NamesOf(h)}
        /\ Unlock(h)
  /\ Finish(h)
  /\ ctxDone' = TRUE
  /\ UNCHANGED <<members, holders, late, action, main, emitter, poll>>

\* The listener registers for the empty event, then for the removed event.
Register(h) ==
  /\ \/ sub[h] = "start" /\ sub' = [sub EXCEPT ![h] = "half"]
     \/ sub[h] = "half" /\ sub' = [sub EXCEPT ![h] = "listening"]
  /\ UNCHANGED <<external, process, lock, pc, names, poll>>

\* It receives an event and cancels postponeCtx.
ListenerCancels(h) ==
  /\ sub[h] = "fired"
  /\ sub' = [sub EXCEPT ![h] = "ended"]
  /\ UNCHANGED <<external, process, lock, pc, names, poll>>

PostponeCtxDone(h) == ctxDone \/ sub[h] = "ended"

\* The hook is described, by the cache or by AWS, and the timers are set.
DescribeHook(h) ==
  /\ pc[h] = "describe"
  /\ pc' = [pc EXCEPT ![h] = "await"]
  /\ UNCHANGED <<external, process, lock, names, sub, poll>>

\* The half-way timer fires and a heartbeat is sent.
SendHeartbeat(h) ==
  /\ pc[h] = "await"
  /\ pc' = [pc EXCEPT ![h] = "beat"]
  /\ UNCHANGED <<external, process, lock, names, sub, poll>>

HeartbeatRecorded(h) ==
  /\ pc[h] = "beat" /\ action[NodeOf(h)] = "wait"
  /\ pc' = [pc EXCEPT ![h] = "await"]
  /\ UNCHANGED <<external, process, lock, names, sub, poll>>

\* ErrLifecycleActionTimeout, because the action is no longer active or the
\* global timeout of the hook is reached: the handler gives up without error.
ActionTimedOut(h) ==
  /\ \/ pc[h] = "beat" /\ action[NodeOf(h)] # "wait"
     \/ pc[h] = "await"
  /\ Finish(h)
  /\ UNCHANGED <<external, process, lock, poll>>

\* A request to AWS fails, or is cancelled with postponeCtx; the error of a
\* cancelled request is not context.Canceled, so the handler returns it.
PostponeError(h) ==
  /\ pc[h] \in {"describe", "beat"}
  /\ CanFail \/ PostponeCtxDone(h)
  /\ Finish(h)
  /\ ctxDone' = TRUE
  /\ UNCHANGED <<external, main, emitter, lock, poll>>

\* Postpone returns context.Canceled.  If ctx itself is done, both cases of the
\* select that follows are ready and either may be taken.
PostponeCancelled(h) ==
  /\ pc[h] = "await" /\ PostponeCtxDone(h)
  /\ \/ ctxDone /\ Finish(h)
     \/ pc' = [pc EXCEPT ![h] = "complete"] /\ UNCHANGED <<names, sub>>
  /\ UNCHANGED <<external, process, lock, poll>>

\* (mutant) The handler answers ABANDON instead of CONTINUE.
CompleteAbandons(h) ==
  /\ pc[h] = "complete"
  /\ action' = [action EXCEPT ![NodeOf(h)] = "abandoned"]
  /\ Finish(h)
  /\ UNCHANGED <<members, holders, late, excluded, process, lock, poll>>

\* CompleteLifecycleAction; when it fails the handler only warns.
Complete(h) ==
  /\ pc[h] = "complete"
  /\ LET n == NodeOf(h) IN
       \/ action[n] = "wait" /\ action' = [action EXCEPT ![n] = "completed"]
       \/ (CanFail \/ action[n] # "wait") /\ UNCHANGED action
  /\ Finish(h)
  /\ UNCHANGED <<members, holders, late, excluded, process, lock, poll>>

-----------------------------------------------------------------------------
(* The poller.                                                             *)

\* updateClusterState starts; GetState locks settingsMu for reading.
PollTick ==
  /\ pollPc = "idle" /\ settingsMu = Free
  /\ pollPc' = "read" /\ settingsMu' = Poller /\ todo' = Reads
  /\ UNCHANGED <<external, process, fetched, handlers,
                 seenNodes, seenHolders, seenExcluded, lastNodes>>

\* (mutant) GetState ignores the context it is given.
PollReadIgnoresCtx(r) ==
  /\ pollPc = "read" /\ r \in todo
  /\ todo' = todo \ {r}
  /\ seenNodes' = IF r = "nodes" THEN members ELSE seenNodes
  /\ seenHolders' = IF r = "shards" THEN holders ELSE seenHolders
  /\ seenExcluded' = IF r = "settings" THEN excluded ELSE seenExcluded
  /\ UNCHANGED <<external, process, lock, handlers, pollPc, lastNodes>>

\* The three requests run concurrently and are answered in any order.
PollRead(r) ==
  /\ pollPc = "read" /\ r \in todo /\ ~ctxDone
  /\ todo' = todo \ {r}
  /\ seenNodes' = IF r = "nodes" THEN members ELSE seenNodes
  /\ seenHolders' = IF r = "shards" THEN holders ELSE seenHolders
  /\ seenExcluded' = IF r = "settings" THEN excluded ELSE seenExcluded
  /\ UNCHANGED <<external, process, lock, handlers, pollPc, lastNodes>>

\* (mutants) Nodes without shards are un-drained; only nodes that left since the
\* previous poll are un-drained.
ToUndrainEmpty == seenExcluded \ seenHolders
ToUndrainDiff  == seenExcluded \cap (lastNodes \ seenNodes)

\* The excluded names that are not names of the nodes read.
ToUndrain == seenExcluded \ seenNodes

PollState ==
  /\ pollPc = "read" /\ todo = {}
  /\ settingsMu' = Free
  /\ pollPc' = IF ToUndrain = {} THEN "emit" ELSE "undrain"
  /\ UNCHANGED <<external, process, fetched, handlers, todo,
                 seenNodes, seenHolders, seenExcluded, lastNodes>>

\* UndrainNodes locks and fetches; it gives up if any name is not in the list.
UndrainGet ==
  /\ pollPc = "undrain" /\ settingsMu = Free
  /\ IF ToUndrain \subseteq excluded
       THEN /\ settingsMu' = Poller
            /\ fetched' = [fetched EXCEPT ![Poller] = excluded]
            /\ pollPc' = "put"
       ELSE pollPc' = "emit" /\ UNCHANGED lock
  /\ UNCHANGED <<external, process, handlers, todo,
                 seenNodes, seenHolders, seenExcluded, lastNodes>>

UndrainPut ==
  /\ pollPc = "put"
  /\ excluded' = fetched[Poller] \ ToUndrain
  /\ Unlock(Poller)
  /\ pollPc' = "emit"
  /\ UNCHANGED <<members, holders, late, action, process, handlers, todo,
                 seenNodes, seenHolders, seenExcluded, lastNodes>>

Removed == (lastNodes \cup seenExcluded) \ seenNodes
Empty   == seenNodes \ seenHolders

\* (mutants) The event's topic does not name the node; a node is announced as
\* empty only in the poll that finds it new.
NotifiedOfAny(h) == sub[h] = "listening" /\ Empty \cup Removed # {}
NotifiedOnce(h) ==
  /\ sub[h] \in {"half", "listening"}
  /\ NodeOf(h) \in (Empty \ lastNodes) \cup Removed

\* The listeners an event of this poll reaches.
Notified(h) ==
  \/ sub[h] = "half" /\ NodeOf(h) \in Empty
  \/ sub[h] = "listening" /\ NodeOf(h) \in Empty \cup Removed

\* Events go to the listeners registered now; the state is the new one; the
\* first poll lets Main enter its loop.
PollEmit ==
  /\ pollPc = "emit"
  /\ sub' = [h \in Handler |-> IF Notified(h) THEN "fired" ELSE sub[h]]
  /\ late' = {n \in late : \E h \in TermHandler :
                              sub'[h] \in {"fired", "ended"} /\ NodeOf(h) = n}
  /\ lastNodes' = seenNodes
  /\ seenNodes' = {} /\ seenHolders' = {} /\ seenExcluded' = {}
  /\ pollPc' = "idle"
  /\ main' = IF main = "boot" THEN "loop" ELSE main
  /\ UNCHANGED <<members, holders, excluded, action, ctxDone, emitter, lock, pc, names,
                 todo>>

\* updateClusterState returns an error, from GetState or from UndrainNodes.
\* The first call is fatal, a later one ends the poller and cancels ctx.
PollError ==
  /\ \/ pollPc = "read" /\ (CanFail \/ ctxDone) /\ UNCHANGED excluded
     \/ pollPc = "undrain" /\ settingsMu = Free /\ CanFail /\ UNCHANGED excluded
     \/ /\ pollPc = "put" /\ CanFail
        /\ excluded' \in {excluded, fetched[Poller] \ ToUndrain}
  /\ \/ main = "boot" /\ Restart
     \/ /\ main # "boot"
        /\ ctxDone' = TRUE
        /\ pollPc' = "stopped" /\ todo' = {}
        /\ IF pollPc = "undrain" THEN UNCHANGED lock ELSE Unlock(Poller)
        /\ seenNodes' = {} /\ seenHolders' = {} /\ seenExcluded' = {}
        /\ UNCHANGED <<main, emitter, handlers, lastNodes>>
  /\ UNCHANGED <<members, holders, late, action>>

-----------------------------------------------------------------------------
(* The process.                                                            *)

\* The main loop notices the cancelled context and waits for the goroutines.
MainStops ==
  /\ main = "loop" /\ ctxDone
  /\ main' = "wait"
  /\ UNCHANGED <<external, ctxDone, emitter, lock, handlers, poll>>

\* Run returns the error of a failed request, once it is started.
EmitterFails ==
  /\ CanFail /\ main = "loop" /\ ~ctxDone
  /\ ctxDone' = TRUE
  /\ UNCHANGED <<external, main, emitter, lock, handlers, poll>>

\* The goroutines that eg.Wait waits for have returned, all but the emitter.
OthersReturned == main = "wait" /\ pollPc = "stopped" /\ \A h \in Handler : pc[h] = "idle"

\* Run waits for room in a channel that only the loop of Main received from: it
\* looks at no context, and Main waits for it.
EmitterBlocks ==
  /\ OthersReturned /\ emitter = "run"
  /\ emitter' = "stuck"
  /\ UNCHANGED <<external, main, ctxDone, lock, handlers, poll>>

\* Run returned too, its context being cancelled: Main exits and the service is
\* started again.
MainExits ==
  /\ OthersReturned /\ emitter = "run"
  /\ Restart
  /\ UNCHANGED external

Crash ==
  /\ CanCrash
  /\ Restart
  /\ UNCHANGED external

Drain(h) == DrainSkip(h) \/ DrainGet(h) \/ DrainPut(h) \/ DrainError(h)

Listen(h) == Register(h) \/ ListenerCancels(h)

\* What a termination handler does once its node is excluded.
Postpone(h) ==
  \/ DescribeHook(h) \/ SendHeartbeat(h) \/ HeartbeatRecorded(h)
  \/ ActionTimedOut(h) \/ PostponeError(h) \/ PostponeCancelled(h) \/ Complete(h)

HandlerNext ==
  \/ \E h \in TermHandler, n \in Node : DispatchTermination(h, n)
  \/ \E h \in SpotHandler, batch \in Batches : DispatchSpotBatch(h, batch)
  \/ \E h \in Handler : Drain(h)
  \/ \E h \in TermHandler : Listen(h) \/ Postpone(h)

PollerNext ==
  \/ PollTick \/ (\E r \in Reads : PollRead(r)) \/ PollState
  \/ UndrainGet \/ UndrainPut \/ PollEmit \/ PollError

EnvironmentNext == \E n \in Node :
  \/ StartTermination(n) \/ Expire(n) \/ Leave(n) \/ Join(n) \/ Vacate(n) \/ Allocate(n)

Next ==
  \/ HandlerNext \/ PollerNext \/ EnvironmentNext
  \/ EmitterFails \/ EmitterBlocks
  \/ MainStops \/ MainExits \/ Crash

Spec == Init /\ [][Next]_vars

\* The goroutines keep running, every request is answered, settingsMu is a
\* sync.RWMutex and starves nobody, a select does not pass over a ready case for
\* ever, and Elasticsearch empties the nodes that are excluded.  Nothing is
\* assumed of the timers of Postpone, nor of what the group does.
Fairness ==
  /\ \A h \in Handler :
       /\ SF_vars(DrainSkip(h) \/ DrainGet(h))
       /\ WF_vars(DrainPut(h))
  /\ \A h \in TermHandler :
       /\ WF_vars(Listen(h))
       /\ WF_vars(DescribeHook(h))
       /\ WF_vars(pc[h] = "beat" /\ Postpone(h))
       /\ SF_vars(PostponeCancelled(h))
       /\ WF_vars(Complete(h))
  /\ SF_vars(PollTick)
  /\ SF_vars(UndrainGet)
  /\ WF_vars(PollerNext)
  /\ WF_vars(MainStops) /\ WF_vars(MainExits)
  /\ \A n \in Node : WF_vars(n \in excluded /\ Vacate(n))

FairSpec == Spec /\ Fairness

-----------------------------------------------------------------------------
(* What the drainer should guarantee.                                      *)

\* A goroutine that fetched the exclusions and has not written them back yet
\* holds settingsMu and its copy is what the server has, so the whole-list PUT
\* of DrainNodes or UndrainNodes undoes nobody's change (settingsMu, facade:27).
Writing(p) == IF p = Poller THEN pollPc = "put" ELSE pc[p] = "put"

SettingsExclusive ==
  \A p \in Handler \cup {Poller} :
    Writing(p) => settingsMu = p /\ fetched[p] = excluded

\* A name leaves the exclusion list only when the poller un-drains a node that
\* the same poll did not find in the cluster: no drain is lost to a concurrent
\* drain, un-drain, failed request or crash.
NoLostExclusion ==
  [][\A n \in Node : n \in excluded /\ n \notin excluded'
       => pollPc = "put" /\ n \notin seenNodes]_vars

\* A termination handler that waits for its node to be empty waits for a node
\* that is being drained, unless the node came back under the same name while
\* the poller was un-draining it.
AwaitedIsExcluded ==
  \A h \in TermHandler :
    pc[h] \in {"describe", "await", "beat", "complete"} /\ NodeOf(h) \in members \ Joining
      => NodeOf(h) \in excluded

\* The nodes that termination handlers wait for.
Awaited ==
  {n \in members \ Joining :
     \E h \in TermHandler :
       pc[h] \in {"describe", "await", "beat", "complete"} /\ NodeOf(h) = n}

\* To Elasticsearch the goroutines, with their lock, their whole lists and their
\* stale reads, are one list that is changed a name or a few at a time and never
\* loses a node that is waited for (elasticsearch_facade.go:82-171).
ExclusionList == INSTANCE Exclusions WITH awaited <- Awaited
ImplementsExclusions == ExclusionList!Spec

\* A handler that goes on because an event came in, to tell the group to terminate
\* the instance, does so for a node that has no shards (app.go:342-343, 424-427).
\* The one way round it: the shards came after the poll had read them and before its
\* event, when the node was not excluded yet; for once it is, it gets none.
ReleasedOnEvidence ==
  \A h \in TermHandler :
    pc[h] = "complete" /\ sub[h] = "ended" /\ NodeOf(h) \in holders \ Joining
      => NodeOf(h) \in late

\* A handler whose node stays in the cluster stops waiting, with no help from the
\* hook's global timeout: the node stays excluded, is emptied, and the event is
\* repeated by every poll until the listener has it (app.go:276-279).
DrainedIsReleased ==
  \A h \in TermHandler :
    pc[h] \in {"await", "beat"} /\ NodeOf(h) \in members
      ~> pc[h] \notin {"await", "beat"} \/ NodeOf(h) \notin members

\* A node that left the cluster for good does not stay excluded (app.go:382-383),
\* unless the process hangs.
ExclusionsCleanedUp ==
  \A n \in Node : n \in excluded /\ n \notin members
                    ~> n \notin excluded \/ n \in members \/ emitter = "stuck"

\* Once one goroutine fails all the others stop and the process exits
\* (app.go:240-243), whatever they were waiting for: a lock, an event, an answer.
\* All but one: the emitter may wait for ever for room in a channel.
ShutdownCompletes == ctxDone ~> ~ctxDone \/ emitter = "stuck"

-----------------------------------------------------------------------------
(* What comments of the code say, and the code does not do.                *)

\* "A drained/removed event came in" whenever the action is completed
\* (app.go:343).
CompletedOnEvent == \A h \in TermHandler : pc[h] = "complete" => sub[h] = "ended"

\* DrainNodes puts nodes into a draining state "by adding their names to the
\* list of nodes excluded" (elasticsearch_facade.go:81-82): when it returns nil,
\* all of them are in the list.
SpotBatchDrained ==
  [][\A h \in SpotHandler :
       pc[h] \in {"drain", "put"} /\ pc'[h] = "idle" /\ ~ctxDone'
         => NamesOf(h) \subseteq excluded']_vars

\* postponeCancel serves "to stop recording the lifecycle action heartbeat once
\* the drained/removed event comes in" (app.go:286-287): only a failed request
\* stops the process.
OnlyFailuresStop == ctxDone => CanFail

=============================================================================
