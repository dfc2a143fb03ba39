--------------------------- MODULE DrainerProofs ---------------------------
(***************************************************************************)
(* Theorems about Drainer, for any sets of nodes and handlers, any batch   *)
(* size, and with failures, crashes and allocation allowed or not.         *)
(***************************************************************************)
EXTENDS Drainer, TLAPS

(* Facts about the names a handler is given.                               *)

LEMMA NoNamesIsEmpty == DOMAIN NoNames = {}
BY DEF NoNames

\* The event of one lifecycle action is a batch of one name.
LEMMA SingleNameIsBatch ==
  ASSUME NEW n \in Node
  PROVE  [i \in 1..1 |-> n] \in Batches
<1>1. 1 \in 1..MaxBatch
  BY BoundsAssumption
<1>2. [i \in 1..1 |-> n] \in [1..1 -> Node]
  OBVIOUS
<1>. QED
  BY <1>1, <1>2 DEF Batches

\* What a handler drains are nodes.
LEMMA NamesAreNodes ==
  ASSUME TypeOK, NEW h \in Handler
  PROVE  NamesOf(h) \subseteq Node
<1>1. CASE names[h] = NoNames
  BY <1>1, NoNamesIsEmpty DEF NamesOf
<1>2. CASE names[h] \in Batches
  <2>1. PICK k \in 1..MaxBatch : names[h] \in [1..k -> Node]
    BY <1>2 DEF Batches
  <2>. QED
    BY <2>1 DEF NamesOf
<1>. QED
  BY <1>1, <1>2 DEF TypeOK

-----------------------------------------------------------------------------
(* Type correctness.                                                       *)

\* Starting again, after an exit or a crash, leaves every variable of the
\* process well typed.
LEMMA RestartTypeOK ==
  ASSUME TypeOK, Restart, members' = members, holders' = holders, late' = late,
         action' = action, excluded' \subseteq Node
  PROVE  TypeOK'
BY DEF TypeOK, Restart, Reads

LEMMA InitTypeOK == Init => TypeOK
BY DEF Init, TypeOK, Reads

LEMMA DrainTypeOK ==
  ASSUME TypeOK, NEW h \in Handler, Drain(h)
  PROVE  TypeOK'
<1>. NamesOf(h) \subseteq Node
  BY NamesAreNodes
<1>. fetched[h] \subseteq Node
  BY DEF TypeOK
<1>1. CASE DrainSkip(h)
  BY <1>1 DEF TypeOK, DrainSkip, DrainReturns, Finish, external, process, lock, poll
<1>2. CASE DrainGet(h)
  BY <1>2 DEF TypeOK, DrainGet, external, process, poll
<1>3. CASE DrainPut(h)
  BY <1>3 DEF TypeOK, DrainPut, DrainReturns, Finish, Unlock, process, poll
<1>4. CASE DrainError(h)
  BY <1>4 DEF TypeOK, DrainError, Finish, Unlock, lock, poll
<1>. QED
  BY <1>1, <1>2, <1>3, <1>4 DEF Drain

LEMMA PostponeTypeOK ==
  ASSUME TypeOK, NEW h \in TermHandler, Listen(h) \/ Postpone(h)
  PROVE  TypeOK'
<1>. USE DEF TypeOK, external, process, lock, poll, Handler
<1>1. CASE Register(h)
  BY <1>1 DEF Register
<1>2. CASE ListenerCancels(h)
  BY <1>2 DEF ListenerCancels
<1>3. CASE DescribeHook(h)
  BY <1>3 DEF DescribeHook
<1>4. CASE SendHeartbeat(h)
  BY <1>4 DEF SendHeartbeat
<1>5. CASE HeartbeatRecorded(h)
  BY <1>5 DEF HeartbeatRecorded
<1>6. CASE ActionTimedOut(h)
  BY <1>6 DEF ActionTimedOut, Finish
<1>7. CASE PostponeError(h)
  BY <1>7 DEF PostponeError, Finish
<1>8. CASE PostponeCancelled(h)
  BY <1>8 DEF PostponeCancelled, Finish
<1>9. CASE Complete(h)
  BY <1>9 DEF Complete, Finish
<1>. QED
  BY <1>1, <1>2, <1>3, <1>4, <1>5, <1>6, <1>7, <1>8, <1>9 DEF Listen, Postpone

LEMMA PollerTypeOK ==
  ASSUME TypeOK, PollerNext
  PROVE  TypeOK'
<1>. fetched[Poller] \subseteq Node
  BY DEF TypeOK
<1>1. CASE PollTick
  BY <1>1 DEF TypeOK, PollTick, external, process, handlers
<1>2. CASE \E r \in Reads : PollRead(r)
  BY <1>2 DEF TypeOK, PollRead, external, process, lock, handlers
<1>3. CASE PollState
  BY <1>3 DEF TypeOK, PollState, external, process, handlers
<1>4. CASE UndrainGet
  BY <1>4 DEF TypeOK, UndrainGet, external, process, lock, handlers
<1>5. CASE UndrainPut
  BY <1>5 DEF TypeOK, UndrainPut, Unlock, process, handlers
<1>6. CASE PollEmit
  BY <1>6 DEF TypeOK, PollEmit, external, lock
<1>7. CASE PollError
  <2>1. excluded' \subseteq Node
    BY <1>7 DEF TypeOK, PollError
  <2>2. CASE main = "boot"
    BY <1>7, <2>1, <2>2, RestartTypeOK DEF PollError
  <2>3. CASE main # "boot"
    BY <1>7, <2>1, <2>3 DEF TypeOK, PollError, Unlock, lock, handlers
  <2>. QED
    BY <2>2, <2>3
<1>. QED
  BY <1>1, <1>2, <1>3, <1>4, <1>5, <1>6, <1>7 DEF PollerNext

LEMMA EnvironmentTypeOK ==
  ASSUME TypeOK, EnvironmentNext
  PROVE  TypeOK'
<1>. PICK n \in Node : \/ StartTermination(n) \/ Expire(n) \/ Leave(n)
                       \/ Join(n) \/ Vacate(n) \/ Allocate(n)
  BY DEF EnvironmentNext
<1>. QED
  BY DEF TypeOK, StartTermination, Expire, Leave, Join, Vacate, Allocate,
         process, lock, handlers, poll

LEMMA NextTypeOK == TypeOK /\ [Next]_vars => TypeOK'
<1>. SUFFICES ASSUME TypeOK, [Next]_vars
              PROVE  TypeOK'
  OBVIOUS
<1>1. CASE HandlerNext
  <2>1. ASSUME NEW h \in TermHandler, NEW n \in Node, DispatchTermination(h, n)
        PROVE  TypeOK'
    BY <2>1, SingleNameIsBatch
    DEF TypeOK, DispatchTermination, external, process, lock, poll
  <2>2. ASSUME NEW h \in SpotHandler, NEW batch \in Batches, DispatchSpotBatch(h, batch)
        PROVE  TypeOK'
    BY <2>2 DEF TypeOK, DispatchSpotBatch, external, process, lock, poll
  <2>. QED
    BY <1>1, <2>1, <2>2, DrainTypeOK, PostponeTypeOK DEF HandlerNext
<1>2. CASE PollerNext
  BY <1>2, PollerTypeOK
<1>3. CASE EnvironmentNext
  BY <1>3, EnvironmentTypeOK
<1>4. CASE MainStops \/ EmitterFails \/ EmitterBlocks
  BY <1>4 DEF TypeOK, MainStops, EmitterFails, EmitterBlocks, external, lock, handlers, poll
<1>5. CASE MainExits \/ Crash
  <2>1. excluded' \subseteq Node
    BY <1>5 DEF MainExits, Crash, external, TypeOK
  <2>. QED
    BY <1>5, <2>1, RestartTypeOK DEF MainExits, Crash, external
<1>6. CASE UNCHANGED vars
  BY <1>6 DEF TypeOK, vars, external, process, lock, handlers, poll
<1>. QED
  BY <1>1, <1>2, <1>3, <1>4, <1>5, <1>6 DEF Next

\* Every variable keeps its type, whatever fails and whenever it crashes.
THEOREM TypeCorrect == Spec => []TypeOK
BY InitTypeOK, NextTypeOK, PTL DEF Spec

-----------------------------------------------------------------------------
(* The exclusion list is written by one goroutine at a time.               *)

\* GetState reads under the lock, so nobody writes the list while it reads.
ReaderHoldsLock == pollPc = "read" => settingsMu = Poller

LockInv == TypeOK /\ SettingsExclusive /\ ReaderHoldsLock

LEMMA InitLockInv == Init => LockInv
BY InitTypeOK DEF Init, LockInv, SettingsExclusive, ReaderHoldsLock, Writing

\* Nothing is half written when the process starts again.
LEMMA RestartLock ==
  ASSUME Restart
  PROVE  SettingsExclusive' /\ ReaderHoldsLock'
BY GoroutinesAssumption DEF Restart, SettingsExclusive, ReaderHoldsLock, Writing

\* A step of a handler that is neither before nor after it writing the list.
LEMMA HandlerStepLock ==
  ASSUME LockInv, NEW h \in Handler,
         \A g \in Handler \ {h} : pc'[g] = pc[g],
         pc[h] # "put", pc'[h] # "put",
         pollPc' = pollPc, settingsMu' = settingsMu, fetched' = fetched, excluded' = excluded
  PROVE  SettingsExclusive' /\ ReaderHoldsLock'
BY GoroutinesAssumption DEF LockInv, SettingsExclusive, ReaderHoldsLock, Writing

\* The end of a write: the lock is released and nobody else is writing.
LEMMA HandlerUnlockLock ==
  ASSUME LockInv, NEW h \in Handler, pc[h] = "put",
         \A g \in Handler \ {h} : pc'[g] = pc[g],
         pc'[h] # "put",
         pollPc' = pollPc, Unlock(h)
  PROVE  SettingsExclusive' /\ ReaderHoldsLock'
<1>1. settingsMu = h /\ h # Poller
  BY GoroutinesAssumption DEF LockInv, SettingsExclusive, Writing
<1>2. pollPc # "put" /\ pollPc # "read"
  BY <1>1 DEF LockInv, SettingsExclusive, ReaderHoldsLock, Writing
<1>3. \A g \in Handler \ {h} : pc[g] # "put"
  BY <1>1, GoroutinesAssumption DEF LockInv, SettingsExclusive, Writing
<1>. QED
  BY <1>2, <1>3 DEF SettingsExclusive, ReaderHoldsLock, Writing

LEMMA DrainLock ==
  ASSUME LockInv, NEW h \in Handler, Drain(h)
  PROVE  SettingsExclusive' /\ ReaderHoldsLock'
<1>. pc \in [Handler -> {"idle", "drain", "put", "describe", "await", "beat", "complete"}]
  BY DEF LockInv, TypeOK
<1>1. CASE DrainSkip(h)
  BY <1>1, HandlerStepLock DEF DrainSkip, DrainReturns, Finish, external, lock, poll
<1>2. CASE DrainGet(h)
  <2>1. \A p \in Handler \cup {Poller} : ~Writing(p)
    BY <1>2, GoroutinesAssumption DEF DrainGet, LockInv, SettingsExclusive
  <2>2. pollPc # "read"
    BY <1>2, GoroutinesAssumption DEF DrainGet, LockInv, ReaderHoldsLock
  <2>. QED
    BY <1>2, <2>1, <2>2, GoroutinesAssumption
    DEF DrainGet, external, poll, LockInv, TypeOK, SettingsExclusive, ReaderHoldsLock, Writing
<1>3. CASE DrainPut(h)
  BY <1>3, HandlerUnlockLock DEF DrainPut, DrainReturns, Finish, poll
<1>4. CASE DrainError(h)
  <2>1. CASE pc[h] = "put"
    BY <1>4, <2>1, HandlerUnlockLock DEF DrainError, Finish, poll
  <2>2. CASE pc[h] # "put"
    BY <1>4, <2>2, HandlerStepLock DEF DrainError, Finish, lock, poll
  <2>. QED
    BY <2>1, <2>2
<1>. QED
  BY <1>1, <1>2, <1>3, <1>4 DEF Drain

LEMMA PostponeLock ==
  ASSUME LockInv, NEW h \in TermHandler, Listen(h) \/ Postpone(h)
  PROVE  SettingsExclusive' /\ ReaderHoldsLock'
<1>. pc \in [Handler -> {"idle", "drain", "put", "describe", "await", "beat", "complete"}]
  BY DEF LockInv, TypeOK
<1>. h \in Handler
  BY DEF Handler
<1>1. CASE Listen(h)
  BY <1>1 DEF Listen, Register, ListenerCancels, LockInv, SettingsExclusive,
              ReaderHoldsLock, Writing, external, lock, poll
<1>2. CASE Postpone(h)
  <2>1. \A g \in Handler \ {h} : pc'[g] = pc[g]
    BY <1>2 DEF Postpone, DescribeHook, SendHeartbeat, HeartbeatRecorded, ActionTimedOut,
                PostponeError, PostponeCancelled, Complete, Finish
  <2>2. pc[h] # "put" /\ pc'[h] # "put"
    BY <1>2 DEF Postpone, DescribeHook, SendHeartbeat, HeartbeatRecorded, ActionTimedOut,
                PostponeError, PostponeCancelled, Complete, Finish
  <2>3. pollPc' = pollPc /\ settingsMu' = settingsMu /\ fetched' = fetched /\ excluded' = excluded
    BY <1>2 DEF Postpone, DescribeHook, SendHeartbeat, HeartbeatRecorded, ActionTimedOut,
                PostponeError, PostponeCancelled, Complete, external, lock, poll
  <2>. QED
    BY <2>1, <2>2, <2>3, HandlerStepLock
<1>. QED
  BY <1>1, <1>2

LEMMA PollerLock ==
  ASSUME LockInv, PollerNext
  PROVE  SettingsExclusive' /\ ReaderHoldsLock'
<1>. Poller \notin Handler /\ Free # Poller /\ Free \notin Handler
  BY GoroutinesAssumption
<1>. USE DEF LockInv, SettingsExclusive, ReaderHoldsLock, Writing
<1>1. CASE PollTick
  BY <1>1 DEF PollTick, external, handlers
<1>2. CASE \E r \in Reads : PollRead(r)
  BY <1>2 DEF PollRead, external, lock, handlers
<1>3. CASE PollState
  BY <1>3 DEF PollState, external, handlers
<1>4. CASE UndrainGet
  BY <1>4 DEF UndrainGet, external, lock, handlers, TypeOK
<1>5. CASE UndrainPut
  BY <1>5 DEF UndrainPut, Unlock, handlers
<1>6. CASE PollEmit
  BY <1>6 DEF PollEmit, external, lock
<1>7. CASE PollError
  <2>1. CASE main = "boot"
    BY <1>7, <2>1, RestartLock DEF PollError
  <2>2. CASE main # "boot" /\ pollPc = "undrain"
    BY <1>7, <2>2 DEF PollError, lock, handlers
  <2>3. CASE main # "boot" /\ pollPc # "undrain"
    <3>1. settingsMu = Poller
      BY <1>7, <2>3 DEF PollError
    <3>. QED
      BY <1>7, <2>3, <3>1 DEF PollError, Unlock, handlers
  <2>. QED
    BY <2>1, <2>2, <2>3
<1>. QED
  BY <1>1, <1>2, <1>3, <1>4, <1>5, <1>6, <1>7 DEF PollerNext

LEMMA NextLockInv == LockInv /\ [Next]_vars => LockInv'
<1>. SUFFICES ASSUME LockInv, [Next]_vars
              PROVE  SettingsExclusive' /\ ReaderHoldsLock'
  BY NextTypeOK DEF LockInv
<1>1. CASE HandlerNext
  <2>1. ASSUME NEW h \in TermHandler, NEW n \in Node, DispatchTermination(h, n)
        PROVE  SettingsExclusive' /\ ReaderHoldsLock'
    BY <2>1, HandlerStepLock
    DEF DispatchTermination, external, lock, poll, Handler, LockInv, TypeOK
  <2>2. ASSUME NEW h \in SpotHandler, NEW batch \in Batches, DispatchSpotBatch(h, batch)
        PROVE  SettingsExclusive' /\ ReaderHoldsLock'
    BY <2>2, HandlerStepLock
    DEF DispatchSpotBatch, external, lock, poll, Handler, LockInv, TypeOK
  <2>. QED
    BY <1>1, <2>1, <2>2, DrainLock, PostponeLock DEF HandlerNext
<1>2. CASE PollerNext
  BY <1>2, PollerLock
<1>3. CASE EnvironmentNext
  BY <1>3 DEF EnvironmentNext, StartTermination, Expire, Leave, Join, Vacate, Allocate,
              lock, handlers, poll, LockInv, SettingsExclusive, ReaderHoldsLock, Writing
<1>4. CASE MainStops \/ EmitterFails \/ EmitterBlocks
  BY <1>4 DEF MainStops, EmitterFails, EmitterBlocks, external, lock, handlers, poll,
              LockInv, SettingsExclusive, ReaderHoldsLock, Writing
<1>5. CASE MainExits \/ Crash
  BY <1>5, RestartLock DEF MainExits, Crash
<1>6. CASE UNCHANGED vars
  BY <1>6 DEF vars, external, lock, handlers, poll,
              LockInv, SettingsExclusive, ReaderHoldsLock, Writing
<1>. QED
  BY <1>1, <1>2, <1>3, <1>4, <1>5, <1>6 DEF Next

LEMMA LockInvariant == Spec => []LockInv
BY InitLockInv, NextLockInv, PTL DEF Spec

\* settingsMu works: between its GET and its PUT a goroutine's copy of the list is
\* what the server has.
THEOREM ExclusiveWrites == Spec => []SettingsExclusive
BY LockInvariant, PTL DEF LockInv

-----------------------------------------------------------------------------
(* Who may take a name off the list.                                       *)

\* A step that takes a name off the list is the poller writing back the list it
\* fetched, without the names it did not find in the cluster.
LEMMA OnlyUndrainShrinks ==
  ASSUME LockInv, [Next]_vars, NEW n \in Node, n \in excluded, n \notin excluded'
  PROVE  pollPc = "put" /\ n \in ToUndrain
<1>1. ASSUME NEW h \in Handler, Drain(h)
      PROVE  n \in excluded'
  <2>1. pc[h] = "put" => fetched[h] = excluded
    BY GoroutinesAssumption DEF LockInv, SettingsExclusive, Writing
  <2>. QED
    BY <1>1, <2>1 DEF Drain, DrainSkip, DrainGet, DrainPut, DrainError, external
<1>2. ASSUME NEW h \in TermHandler, Listen(h) \/ Postpone(h)
      PROVE  n \in excluded'
  BY <1>2 DEF Listen, Register, ListenerCancels, Postpone, DescribeHook, SendHeartbeat,
              HeartbeatRecorded, ActionTimedOut, PostponeError, PostponeCancelled,
              Complete, external
<1>3. CASE HandlerNext
  BY <1>1, <1>2, <1>3 DEF HandlerNext, DispatchTermination, DispatchSpotBatch, external
<1>4. CASE PollerNext
  <2>1. pollPc = "put" => fetched[Poller] = excluded
    BY DEF LockInv, SettingsExclusive, Writing
  <2>. QED
    BY <1>4, <2>1 DEF PollerNext, PollTick, PollRead, PollState, UndrainGet,
                      UndrainPut, PollEmit, PollError, external
<1>5. CASE EnvironmentNext
  BY <1>5 DEF EnvironmentNext, StartTermination, Expire, Leave, Join, Vacate, Allocate
<1>6. CASE MainStops \/ EmitterFails \/ EmitterBlocks \/ MainExits \/ Crash \/ UNCHANGED vars
  BY <1>6 DEF MainStops, EmitterFails, EmitterBlocks, MainExits, Crash, vars, external
<1>. QED
  BY <1>3, <1>4, <1>5, <1>6 DEF Next

\* No drain is ever lost to a concurrent drain, un-drain, failure or crash.
THEOREM NoExclusionIsLost == Spec => NoLostExclusion
<1>1. LockInv /\ [Next]_vars
      => [\A n \in Node : n \in excluded /\ n \notin excluded'
            => pollPc = "put" /\ n \notin seenNodes]_vars
  BY OnlyUndrainShrinks DEF ToUndrain
<1>. QED
  BY <1>1, LockInvariant, PTL DEF Spec, NoLostExclusion

-----------------------------------------------------------------------------
(* A handler waits only for a node that is being drained.                  *)

Waiting(h) == pc[h] \in {"describe", "await", "beat", "complete"}

\* A termination handler is about one node.
OneName == \A h \in TermHandler : pc[h] # "idle" =>
             \E n \in Node : names[h] = [i \in 1..1 |-> n]

\* Once the poller has read the nodes, those that are still there and were never
\* away are among them; it un-drains when all its requests are answered.
SeenCovers ==
  /\ pollPc \in {"undrain", "put"} => todo = {}
  /\ pollPc \in {"read", "undrain", "put"} /\ "nodes" \notin todo
       => members \ Joining \subseteq seenNodes

AwaitInv == OneName /\ SeenCovers /\ AwaitedIsExcluded

LEMMA InitAwaitInv == Init => AwaitInv
BY DEF Init, AwaitInv, OneName, SeenCovers, AwaitedIsExcluded, Handler

LEMMA RestartAwaitInv ==
  ASSUME Restart
  PROVE  AwaitInv'
BY DEF Restart, AwaitInv, OneName, SeenCovers, AwaitedIsExcluded, Handler

\* Only nodes that may join do.
LEMMA MembersShrink ==
  ASSUME [Next]_vars
  PROVE  members' \ Joining \subseteq members
<1>1. CASE HandlerNext
  BY <1>1 DEF HandlerNext, DispatchTermination, DispatchSpotBatch, Drain, DrainSkip, DrainGet,
              DrainPut, DrainError, Listen, Register, ListenerCancels, Postpone, DescribeHook,
              SendHeartbeat, HeartbeatRecorded, ActionTimedOut, PostponeError,
              PostponeCancelled, Complete, external
<1>2. CASE PollerNext
  BY <1>2 DEF PollerNext, PollTick, PollRead, PollState, UndrainGet,
              UndrainPut, PollEmit, PollError, external
<1>3. CASE EnvironmentNext
  BY <1>3 DEF EnvironmentNext, StartTermination, Expire, Leave, Join, Vacate, Allocate
<1>4. CASE MainStops \/ EmitterFails \/ EmitterBlocks \/ MainExits \/ Crash \/ UNCHANGED vars
  BY <1>4 DEF MainStops, EmitterFails, EmitterBlocks, MainExits, Crash, vars, external
<1>. QED
  BY <1>1, <1>2, <1>3, <1>4 DEF Next

\* A node that stays in the cluster stays excluded.
LEMMA StaysExcluded ==
  ASSUME LockInv, SeenCovers, [Next]_vars,
         NEW n \in members \ Joining, n \in excluded
  PROVE  n \in excluded'
<1>. n \in Node
  BY DEF LockInv, TypeOK
<1>. SUFFICES ASSUME n \notin excluded'
              PROVE  FALSE
  OBVIOUS
<1>1. pollPc = "put" /\ n \notin seenNodes
  BY OnlyUndrainShrinks DEF ToUndrain
<1>. QED
  BY <1>1 DEF SeenCovers

\* What remains to be shown of a step: a handler that waits after it waited for
\* the same node before it, or its node is excluded after it.
LEMMA StillExcluded ==
  ASSUME LockInv, AwaitInv, [Next]_vars,
         \A h \in TermHandler : Waiting(h)' =>
           (Waiting(h) /\ names'[h] = names[h]) \/ NodeOf(h)' \in excluded'
  PROVE  AwaitedIsExcluded'
<1>. SUFFICES ASSUME NEW h \in TermHandler, Waiting(h)', NodeOf(h)' \in members' \ Joining
              PROVE  NodeOf(h)' \in excluded'
  BY DEF AwaitedIsExcluded, Waiting
<1>1. CASE Waiting(h) /\ names'[h] = names[h]
  <2>1. NodeOf(h)' = NodeOf(h)
    BY <1>1 DEF NodeOf
  <2>2. NodeOf(h) \in members \ Joining
    BY <2>1, MembersShrink
  <2>3. NodeOf(h) \in excluded
    BY <1>1, <2>2 DEF AwaitInv, AwaitedIsExcluded, Waiting
  <2>. QED
    BY <2>1, <2>2, <2>3, StaysExcluded DEF AwaitInv
<1>. QED
  BY <1>1

\* DrainNodes returns to a termination handler with its node excluded: it was, or
\* it was the name that was written.
LEMMA DrainExcludes ==
  ASSUME LockInv, AwaitInv, NEW h \in TermHandler, DrainSkip(h) \/ DrainPut(h)
  PROVE  names' = names /\ NodeOf(h) \in excluded'
<1>1. PICK n \in Node : names[h] = [i \in 1..1 |-> n]
  BY DEF AwaitInv, OneName, DrainSkip, DrainPut
<1>2. NodeOf(h) = n /\ NamesOf(h) = {n} /\ DOMAIN names[h] = 1..1
  BY <1>1 DEF NodeOf, NamesOf
<1>3. h \notin SpotHandler
  BY GoroutinesAssumption
<1>4. names' = names
  BY <1>3 DEF DrainSkip, DrainPut, DrainReturns
<1>5. CASE DrainSkip(h)
  <2>1. n \in excluded
    BY <1>2, <1>5 DEF DrainSkip, MeetsExcluded
  <2>. QED
    BY <1>2, <1>4, <1>5, <2>1 DEF DrainSkip, external
<1>6. CASE DrainPut(h)
  BY <1>2, <1>4, <1>6 DEF DrainPut
<1>. QED
  BY <1>5, <1>6

LEMMA DrainAwait ==
  ASSUME LockInv, AwaitInv, [Next]_vars, NEW h \in Handler, Drain(h)
  PROVE  AwaitInv'
<1>. pc \in [Handler -> {"idle", "drain", "put", "describe", "await", "beat", "complete"}]
     /\ names \in [Handler -> Batches \cup {NoNames}]
  BY DEF LockInv, TypeOK
<1>1. pc[h] # "idle"
  BY DEF Drain, DrainSkip, DrainGet, DrainPut, DrainError
<1>2. \A g \in TermHandler \ {h} : pc'[g] = pc[g] /\ names'[g] = names[g]
  BY DEF Drain, DrainSkip, DrainGet, DrainPut, DrainError, DrainReturns, Finish, Handler
<1>3. ASSUME h \in TermHandler, pc'[h] # "idle"
      PROVE  names' = names /\ (Waiting(h)' => NodeOf(h) \in excluded')
  <2>1. CASE DrainSkip(h) \/ DrainPut(h)
    BY <1>3, <2>1, DrainExcludes
  <2>2. CASE DrainGet(h)
    BY <2>2 DEF DrainGet, Waiting
  <2>3. CASE DrainError(h)
    BY <1>3, <2>3 DEF DrainError, Finish
  <2>. QED
    BY <2>1, <2>2, <2>3 DEF Drain
<1>4. OneName'
  <2>1. \A g \in TermHandler : pc'[g] # "idle" => pc[g] # "idle" /\ names'[g] = names[g]
    BY <1>1, <1>2, <1>3
  <2>. QED
    BY <2>1 DEF AwaitInv, OneName
<1>5. SeenCovers'
  BY MembersShrink
  DEF AwaitInv, SeenCovers, Drain, DrainSkip, DrainGet, DrainPut, DrainError, external, poll
<1>6. \A g \in TermHandler : Waiting(g)' =>
        (Waiting(g) /\ names'[g] = names[g]) \/ NodeOf(g)' \in excluded'
  BY <1>2, <1>3 DEF Waiting, NodeOf
<1>. QED
  BY <1>4, <1>5, <1>6, StillExcluded DEF AwaitInv

LEMMA PostponeAwait ==
  ASSUME LockInv, AwaitInv, [Next]_vars, NEW h \in TermHandler, Listen(h) \/ Postpone(h)
  PROVE  AwaitInv'
<1>. pc \in [Handler -> {"idle", "drain", "put", "describe", "await", "beat", "complete"}]
     /\ names \in [Handler -> Batches \cup {NoNames}]
  BY DEF LockInv, TypeOK
<1>. USE DEF Listen, Register, ListenerCancels, Postpone, DescribeHook, SendHeartbeat,
             HeartbeatRecorded, ActionTimedOut, PostponeError, PostponeCancelled, Complete, Finish
<1>1. \A g \in TermHandler : pc'[g] # "idle" => names'[g] = names[g] /\ pc[g] # "idle"
  BY DEF Handler
<1>2. OneName'
  BY <1>1 DEF AwaitInv, OneName
<1>3. SeenCovers'
  BY MembersShrink DEF AwaitInv, SeenCovers, external, poll
<1>4. \A g \in TermHandler : Waiting(g)' => Waiting(g) /\ names'[g] = names[g]
  BY <1>1 DEF Waiting, Handler
<1>. QED
  BY <1>2, <1>3, <1>4, StillExcluded DEF AwaitInv

LEMMA PollerAwait ==
  ASSUME LockInv, AwaitInv, [Next]_vars, PollerNext
  PROVE  AwaitInv'
<1>1. CASE PollError /\ main = "boot"
  BY <1>1, RestartAwaitInv DEF PollError
<1>2. CASE ~(PollError /\ main = "boot")
  <2>1. pc' = pc /\ names' = names /\ members' = members
    BY <1>2 DEF PollerNext, PollTick, PollRead, PollState, UndrainGet,
                UndrainPut, PollEmit, PollError, external, handlers
  <2>2. OneName'
    BY <2>1 DEF AwaitInv, OneName
  <2>3. SeenCovers'
    BY <1>2, <2>1
    DEF AwaitInv, SeenCovers, PollerNext, PollTick, PollRead, PollState,
        UndrainGet, UndrainPut, PollEmit, PollError, Reads
  <2>4. \A g \in TermHandler : Waiting(g)' => Waiting(g) /\ names'[g] = names[g]
    BY <2>1 DEF Waiting
  <2>. QED
    BY <2>2, <2>3, <2>4, StillExcluded DEF AwaitInv
<1>. QED
  BY <1>1, <1>2

LEMMA NextAwaitInv == LockInv /\ AwaitInv /\ [Next]_vars => AwaitInv'
<1>. SUFFICES ASSUME LockInv, AwaitInv, [Next]_vars
              PROVE  AwaitInv'
  OBVIOUS
<1>0. pc \in [Handler -> {"idle", "drain", "put", "describe", "await", "beat", "complete"}]
      /\ names \in [Handler -> Batches \cup {NoNames}]
  BY DEF LockInv, TypeOK
<1>1. ASSUME NEW h \in TermHandler, NEW n \in Node, DispatchTermination(h, n)
      PROVE  AwaitInv'
  <2>1. OneName'
    BY <1>0, <1>1 DEF DispatchTermination, AwaitInv, OneName, Handler
  <2>2. SeenCovers'
    BY <1>1 DEF DispatchTermination, AwaitInv, SeenCovers, external, poll
  <2>3. \A g \in TermHandler : Waiting(g)' => Waiting(g) /\ names'[g] = names[g]
    BY <1>0, <1>1 DEF DispatchTermination, Waiting, Handler
  <2>. QED
    BY <2>1, <2>2, <2>3, StillExcluded DEF AwaitInv
<1>2. ASSUME NEW h \in SpotHandler, NEW batch \in Batches, DispatchSpotBatch(h, batch)
      PROVE  AwaitInv'
  <2>1. \A g \in TermHandler : pc'[g] = pc[g] /\ names'[g] = names[g]
    BY <1>0, <1>2, GoroutinesAssumption DEF DispatchSpotBatch, Handler
  <2>2. OneName'
    BY <2>1 DEF AwaitInv, OneName
  <2>3. SeenCovers'
    BY <1>2 DEF DispatchSpotBatch, AwaitInv, SeenCovers, external, poll
  <2>. QED
    BY <2>1, <2>2, <2>3, StillExcluded DEF AwaitInv, Waiting
<1>3. CASE HandlerNext
  BY <1>1, <1>2, <1>3, DrainAwait, PostponeAwait DEF HandlerNext
<1>4. CASE PollerNext
  BY <1>4, PollerAwait
<1>5. CASE EnvironmentNext \/ MainStops \/ EmitterFails \/ EmitterBlocks \/ UNCHANGED vars
  <2>1. pc' = pc /\ names' = names
    BY <1>5 DEF EnvironmentNext, StartTermination, Expire, Leave, Join, Vacate, Allocate,
                MainStops, EmitterFails, EmitterBlocks, vars, handlers
  <2>2. pollPc' = pollPc /\ todo' = todo /\ seenNodes' = seenNodes
    BY <1>5 DEF EnvironmentNext, StartTermination, Expire, Leave, Join, Vacate, Allocate,
                MainStops, EmitterFails, EmitterBlocks, vars, poll
  <2>3. SeenCovers'
    BY <2>2, MembersShrink DEF AwaitInv, SeenCovers
  <2>. QED
    BY <2>1, <2>3, StillExcluded DEF AwaitInv, OneName, Waiting
<1>6. CASE MainExits \/ Crash
  BY <1>6, RestartAwaitInv DEF MainExits, Crash
<1>. QED
  BY <1>3, <1>4, <1>5, <1>6 DEF Next

\* While a handler waits for its node to become empty, the node, if it has been
\* in the cluster all along, is excluded from shard allocation.
THEOREM AwaitedNodesDrain == Spec => []AwaitedIsExcluded
<1>1. AwaitInv => AwaitedIsExcluded
  BY DEF AwaitInv
<1>. QED
  BY <1>1, InitAwaitInv, NextAwaitInv, LockInvariant, PTL DEF Spec

-----------------------------------------------------------------------------
(* The goroutines implement the exclusion list of module Exclusions.       *)

\* No handler runs before Main has entered its loop, so the first poll, whose error
\* is fatal, disturbs nobody.
BootIdle == main = "boot" => \A h \in Handler : pc[h] = "idle"

LEMMA InitBootIdle == Init => BootIdle
BY DEF Init, BootIdle

LEMMA NextBootIdle == TypeOK /\ BootIdle /\ [Next]_vars => BootIdle'
<1>. SUFFICES ASSUME TypeOK, BootIdle, [Next]_vars, main' = "boot"
              PROVE  \A h \in Handler : pc'[h] = "idle"
  BY DEF BootIdle
<1>. pc \in [Handler -> {"idle", "drain", "put", "describe", "await", "beat", "complete"}]
  BY DEF TypeOK
<1>1. CASE HandlerNext
  <2>1. main' = main
    BY <1>1 DEF HandlerNext, DispatchTermination, DispatchSpotBatch, Drain, DrainSkip, DrainGet,
                DrainPut, DrainError, Listen, Register, ListenerCancels, Postpone, DescribeHook,
                SendHeartbeat, HeartbeatRecorded, ActionTimedOut, PostponeError,
                PostponeCancelled, Complete, process
  <2>2. \A h \in Handler : pc[h] = "idle"
    BY <2>1 DEF BootIdle
  <2>3. \E h \in TermHandler : Listen(h)
    BY <1>1, <2>1, <2>2
    DEF HandlerNext, DispatchTermination, DispatchSpotBatch, Drain, DrainSkip, DrainGet,
        DrainPut, DrainError, Postpone, DescribeHook, SendHeartbeat, HeartbeatRecorded,
        ActionTimedOut, PostponeError, PostponeCancelled, Complete, process, Handler
  <2>. QED
    BY <2>2, <2>3 DEF Listen, Register, ListenerCancels
<1>2. CASE PollerNext
  BY <1>2 DEF BootIdle, PollerNext, PollTick, PollRead, PollState, UndrainGet, UndrainPut,
              PollEmit, PollError, Restart, process, handlers
<1>3. CASE EnvironmentNext \/ MainStops \/ EmitterFails \/ EmitterBlocks \/ UNCHANGED vars
  BY <1>3 DEF BootIdle, EnvironmentNext, StartTermination, Expire, Leave, Join, Vacate,
              Allocate, MainStops, EmitterFails, EmitterBlocks, vars, process, handlers
<1>4. CASE MainExits \/ Crash
  BY <1>4 DEF MainExits, Crash, Restart
<1>. QED
  BY <1>1, <1>2, <1>3, <1>4 DEF Next

LEMMA AwaitedAreNodes ==
  ASSUME TypeOK
  PROVE  Awaited \subseteq Node
BY DEF TypeOK, Awaited

\* A step that writes nothing, and after which nobody waits who did not before.
LEMMA ReleaseStep ==
  ASSUME TypeOK, [Next]_vars, excluded' = excluded,
         \A h \in TermHandler : Waiting(h)' => Waiting(h) /\ names'[h] = names[h]
  PROVE  ExclusionList!Next
<1>1. Awaited' \subseteq Awaited
  <2>. SUFFICES ASSUME NEW h \in TermHandler, Waiting(h)', NodeOf(h)' \in members' \ Joining
                PROVE  NodeOf(h)' \in Awaited
    BY DEF Awaited, Waiting
  <2>1. NodeOf(h)' = NodeOf(h)
    BY DEF NodeOf
  <2>2. NodeOf(h) \in members \ Joining
    BY <2>1, MembersShrink
  <2>. QED
    BY <2>1, <2>2 DEF Awaited, Waiting
<1>2. ExclusionList!Release(Awaited \ Awaited')
  BY <1>1 DEF ExclusionList!Release
<1>. QED
  BY <1>2, AwaitedAreNodes DEF ExclusionList!Next

\* A step that adds names, and after which at most one handler more waits, for
\* one of them.
LEMMA AddStep ==
  ASSUME NEW S \in SUBSET Node, excluded' = excluded \cup S,
         Awaited' \in {Awaited} \cup {Awaited \cup {n} : n \in S}
  PROVE  ExclusionList!Next
BY DEF ExclusionList!Next, ExclusionList!Drain

\* DrainNodes adds the names of its event, at once and to the list as it is, and
\* only its own handler then waits, for its own node.
LEMMA DrainRefines ==
  ASSUME LockInv, AwaitInv, [Next]_vars, NEW h \in Handler, Drain(h)
  PROVE  ExclusionList!Next
<1>. pc \in [Handler -> {"idle", "drain", "put", "describe", "await", "beat", "complete"}]
     /\ names \in [Handler -> Batches \cup {NoNames}] /\ TypeOK
  BY DEF LockInv, TypeOK
<1>1. pc[h] \in {"drain", "put"} /\ members' = members /\ NamesOf(h) \in SUBSET Node
  BY NamesAreNodes DEF Drain, DrainSkip, DrainGet, DrainPut, DrainError, external
<1>2. pc[h] = "put" => fetched[h] = excluded
  BY GoroutinesAssumption DEF LockInv, SettingsExclusive, Writing
<1>3. \A g \in TermHandler \ {h} : pc'[g] = pc[g] /\ names'[g] = names[g]
  BY DEF Drain, DrainSkip, DrainGet, DrainPut, DrainError, DrainReturns, Finish, Handler
<1>4. CASE h \in TermHandler /\ Waiting(h)'
  <2>1. DrainSkip(h) \/ DrainPut(h)
    BY <1>4 DEF Drain, DrainGet, DrainError, Finish, Waiting
  <2>2. names' = names /\ NodeOf(h) \in excluded'
    BY <1>4, <2>1, DrainExcludes
  <2>3. PICK n \in Node : NodeOf(h) = n /\ NamesOf(h) = {n}
    <3>1. PICK n \in Node : names[h] = [i \in 1..1 |-> n]
      BY <1>1, <1>4 DEF AwaitInv, OneName
    <3>. QED
      BY <3>1 DEF NodeOf, NamesOf
  <2>4. excluded' = excluded \cup {n}
    <3>1. CASE DrainSkip(h)
      BY <2>2, <2>3, <3>1 DEF DrainSkip, external
    <3>2. CASE DrainPut(h)
      BY <1>2, <2>3, <3>2 DEF DrainPut
    <3>. QED
      BY <2>1, <3>1, <3>2
  <2>5. ~Waiting(h)
    BY <1>1 DEF Waiting
  <2>6. Awaited' = Awaited \/ Awaited' = Awaited \cup {n}
    <3>1. Awaited \subseteq Awaited' /\ Awaited' \subseteq Awaited \cup {n}
      BY <1>1, <1>3, <2>2, <2>3, <2>5 DEF Awaited, Waiting, NodeOf
    <3>2. CASE n \in Awaited'
      BY <3>1, <3>2
    <3>3. CASE n \notin Awaited'
      BY <3>1, <3>3
    <3>. QED
      BY <3>2, <3>3
  <2>7. {n} \in SUBSET Node /\ excluded' = excluded \cup {n}
    BY <2>3, <2>4
  <2>8. Awaited' \in {Awaited} \cup {Awaited \cup {k} : k \in {n}}
    BY <2>6
  <2>. QED
    BY <2>7, <2>8, AddStep
<1>5. CASE h \in SpotHandler \/ ~Waiting(h)'
  <2>1. \A g \in TermHandler : Waiting(g)' => Waiting(g) /\ names'[g] = names[g]
    BY <1>3, <1>5, GoroutinesAssumption DEF Waiting
  <2>2. CASE excluded' = excluded
    BY <2>1, <2>2, ReleaseStep
  <2>3. CASE excluded' = excluded \cup NamesOf(h)
    <3>1. \A g \in TermHandler : Waiting(g) => Waiting(g)' /\ names'[g] = names[g]
      BY <1>1, <1>3 DEF Waiting
    <3>2. Awaited' = Awaited
      BY <1>1, <2>1, <3>1 DEF Awaited, Waiting, NodeOf
    <3>. QED
      BY <1>1, <2>3, <3>2, AddStep
  <2>4. excluded' = excluded \/ excluded' = excluded \cup NamesOf(h)
    BY <1>2 DEF Drain, DrainSkip, DrainGet, DrainPut, DrainError, external
  <2>. QED
    BY <2>2, <2>3, <2>4
<1>. QED
  BY <1>4, <1>5 DEF Handler

\* UndrainNodes removes, at once and from the list as it is, names that nobody
\* waits for: the poll did not find them in the cluster.
LEMMA UndrainRefines ==
  ASSUME LockInv, AwaitInv, BootIdle, pollPc = "put", UndrainPut \/ PollError,
         excluded' = excluded \ ToUndrain
  PROVE  ExclusionList!Next
<1>1. ToUndrain \in SUBSET Node
  BY DEF LockInv, TypeOK, ToUndrain
<1>2. ToUndrain \cap Awaited = {}
  BY DEF AwaitInv, SeenCovers, Awaited, ToUndrain
<1>3. Awaited' = Awaited
  <2>1. CASE main = "boot" /\ PollError
    <3>1. \A h \in TermHandler : pc[h] = "idle" /\ pc'[h] = "idle"
      BY <2>1 DEF PollError, Restart, BootIdle, Handler
    <3>. QED
      BY <3>1 DEF Awaited
  <2>2. CASE ~(main = "boot" /\ PollError)
    <3>1. pc' = pc /\ names' = names /\ members' = members
      BY <2>2 DEF UndrainPut, PollError, handlers
    <3>. QED
      BY <3>1 DEF Awaited, NodeOf
  <2>. QED
    BY <2>1, <2>2
<1>. QED
  BY <1>1, <1>2, <1>3 DEF ExclusionList!Next, ExclusionList!Undrain

LEMMA PollerRefines ==
  ASSUME LockInv, AwaitInv, BootIdle, [Next]_vars, PollerNext
  PROVE  ExclusionList!Next
<1>1. TypeOK /\ (pollPc = "put" => fetched[Poller] = excluded)
  BY DEF LockInv, SettingsExclusive, Writing
<1>2. CASE excluded' = excluded
  <2>1. \A g \in TermHandler : Waiting(g)' => Waiting(g) /\ names'[g] = names[g]
    BY DEF PollerNext, PollTick, PollRead, PollState, UndrainGet, UndrainPut, PollEmit,
           PollError, Restart, handlers, Waiting, Handler
  <2>. QED
    BY <1>1, <1>2, <2>1, ReleaseStep
<1>3. CASE excluded' # excluded
  <2>1. pollPc = "put" /\ (UndrainPut \/ PollError)
    BY <1>3 DEF PollerNext, PollTick, PollRead, PollState, UndrainGet, UndrainPut, PollEmit,
                PollError, external
  <2>2. excluded' = excluded \ ToUndrain
    BY <1>1, <1>3, <2>1 DEF UndrainPut, PollError
  <2>. QED
    BY <2>1, <2>2, UndrainRefines
<1>. QED
  BY <1>2, <1>3

LEMMA NextRefines ==
  LockInv /\ AwaitInv /\ BootIdle /\ [Next]_vars
    => [ExclusionList!Next]_<<excluded, Awaited>>
<1>. SUFFICES ASSUME LockInv, AwaitInv, BootIdle, [Next]_vars
              PROVE  ExclusionList!Next
  OBVIOUS
<1>0. /\ pc \in [Handler -> {"idle", "drain", "put", "describe", "await", "beat", "complete"}]
      /\ names \in [Handler -> Batches \cup {NoNames}] /\ TypeOK
  BY DEF LockInv, TypeOK
<1>1. ASSUME NEW h \in TermHandler, Listen(h) \/ Postpone(h)
      PROVE  ExclusionList!Next
  <2>. USE DEF Listen, Register, ListenerCancels, Postpone, DescribeHook, SendHeartbeat,
               HeartbeatRecorded, ActionTimedOut, PostponeError, PostponeCancelled, Complete,
               Finish
  <2>1. excluded' = excluded
    BY <1>1 DEF external
  <2>2. \A g \in TermHandler : Waiting(g)' => Waiting(g) /\ names'[g] = names[g]
    BY <1>0, <1>1 DEF Waiting, Handler
  <2>. QED
    BY <1>0, <2>1, <2>2, ReleaseStep
<1>2. ASSUME NEW h \in Handler, pc[h] = "idle", pc' = [pc EXCEPT ![h] = "drain"],
             NEW new, names' = [names EXCEPT ![h] = new], excluded' = excluded
      PROVE  ExclusionList!Next
  BY <1>0, <1>2, ReleaseStep DEF Waiting, Handler
<1>3. CASE HandlerNext
  <2>1. ASSUME NEW h \in TermHandler, NEW n \in Node, DispatchTermination(h, n)
        PROVE  ExclusionList!Next
    BY <1>2, <2>1 DEF DispatchTermination, Handler, external
  <2>2. ASSUME NEW h \in SpotHandler, NEW batch \in Batches, DispatchSpotBatch(h, batch)
        PROVE  ExclusionList!Next
    BY <1>2, <2>2 DEF DispatchSpotBatch, Handler, external
  <2>. QED
    BY <1>1, <1>3, <2>1, <2>2, DrainRefines DEF HandlerNext
<1>4. CASE PollerNext
  BY <1>4, PollerRefines
<1>5. CASE EnvironmentNext \/ MainStops \/ EmitterFails \/ EmitterBlocks \/ UNCHANGED vars
  BY <1>0, <1>5, ReleaseStep
  DEF EnvironmentNext, StartTermination, Expire, Leave, Join, Vacate, Allocate, MainStops,
      EmitterFails, EmitterBlocks, vars, external, handlers, Waiting
<1>6. CASE MainExits \/ Crash
  BY <1>0, <1>6, ReleaseStep DEF MainExits, Crash, Restart, external, Waiting, Handler
<1>. QED
  BY <1>3, <1>4, <1>5, <1>6 DEF Next

\* To Elasticsearch the drainer's goroutines, with their lock, whole lists and stale
\* reads, are one list that is changed a name or a few at a time and never loses a
\* node that is waited for.
THEOREM ExclusionsImplemented == Spec => ImplementsExclusions
<1>1. Init => ExclusionList!Init
  BY DEF Init, ExclusionList!Init, Awaited, Handler
<1>2. TypeOK /\ BootIdle /\ [Next]_vars => BootIdle'
  BY NextBootIdle
<1>3. LockInv => TypeOK
  BY DEF LockInv
<1>. QED
  BY <1>1, <1>2, <1>3, InitAwaitInv, NextAwaitInv, LockInvariant, InitBootIdle, NextRefines, PTL
  DEF Spec, ImplementsExclusions, ExclusionList!Spec

-----------------------------------------------------------------------------
(* A termination goes on only on evidence that its node has no shards.     *)

\* A listener lives as long as its handler waits.
NoListener == \A h \in TermHandler : pc[h] \in {"idle", "drain", "put"} => sub[h] = "none"

\* What the poller has read, although it is older, covers the nodes that are still
\* there and were never away, and those with shards but for the late ones.
SeenHolding ==
  /\ pollPc \in {"undrain", "put", "emit"} \/ (pollPc = "read" /\ "nodes" \notin todo)
       => members \ Joining \subseteq seenNodes
  /\ ShardsAreRead => holders \subseteq seenHolders \cup late

\* The event a listener has received is about a node without shards, or with late ones.
FiredOnEvidence ==
  \A h \in TermHandler :
    sub[h] \in {"fired", "ended"} /\ NodeOf(h) \in holders \ Joining => NodeOf(h) \in late

EvidenceInv == NoListener /\ SeenHolding /\ FiredOnEvidence

LEMMA InitEvidence == Init => EvidenceInv
BY DEF Init, EvidenceInv, NoListener, SeenHolding, ShardsAreRead, FiredOnEvidence, Handler

LEMMA RestartEvidence ==
  ASSUME Restart
  PROVE  EvidenceInv'
BY DEF Restart, EvidenceInv, NoListener, SeenHolding, ShardsAreRead, FiredOnEvidence, Handler

\* What has to be shown of a step that moves no shard and adds no node: a listener
\* that has its event had it before.
LEMMA StillOnEvidence ==
  ASSUME EvidenceInv, holders' = holders, late' = late,
         \A h \in TermHandler : sub'[h] \in {"fired", "ended"} =>
           sub[h] \in {"fired", "ended"} /\ names'[h] = names[h]
  PROVE  FiredOnEvidence'
<1>1. \A h \in TermHandler : names'[h] = names[h] => NodeOf(h)' = NodeOf(h)
  BY DEF NodeOf
<1>. QED
  BY <1>1 DEF EvidenceInv, FiredOnEvidence

LEMMA HandlerEvidence ==
  ASSUME TypeOK, EvidenceInv, HandlerNext
  PROVE  EvidenceInv'
<1>. /\ pc \in [Handler -> {"idle", "drain", "put", "describe", "await", "beat", "complete"}]
     /\ names \in [Handler -> Batches \cup {NoNames}]
     /\ sub \in [Handler -> {"none", "start", "half", "listening", "fired", "ended"}]
  BY DEF TypeOK
<1>1. UNCHANGED <<members, holders, late, poll>>
  BY DEF HandlerNext, DispatchTermination, DispatchSpotBatch, Drain, DrainSkip, DrainGet,
         DrainPut, DrainError, Listen, Register, ListenerCancels, Postpone, DescribeHook,
         SendHeartbeat, HeartbeatRecorded, ActionTimedOut, PostponeError,
         PostponeCancelled, Complete, external
<1>2. SeenHolding'
  BY <1>1 DEF EvidenceInv, SeenHolding, ShardsAreRead, poll
<1>. DEFINE Kept == NoListener' /\ \A g \in TermHandler : sub'[g] \in {"fired", "ended"} =>
                      sub[g] \in {"fired", "ended"} /\ names'[g] = names[g]
<1>3. Kept
  <2>1. ASSUME NEW h \in Handler, pc[h] = "idle", pc' = [pc EXCEPT ![h] = "drain"],
               NEW new, names' = [names EXCEPT ![h] = new], sub' = sub
        PROVE  Kept
    BY <2>1 DEF EvidenceInv, NoListener, Handler
  <2>2. ASSUME NEW h \in TermHandler, NEW n \in Node, DispatchTermination(h, n)
        PROVE  Kept
    BY <2>1, <2>2 DEF DispatchTermination, Handler
  <2>3. ASSUME NEW h \in SpotHandler, NEW batch \in Batches, DispatchSpotBatch(h, batch)
        PROVE  Kept
    BY <2>1, <2>3 DEF DispatchSpotBatch, Handler
  <2>4. ASSUME NEW h \in Handler, Drain(h)
        PROVE  Kept
    BY <2>4 DEF Drain, DrainSkip, DrainGet, DrainPut, DrainError, DrainReturns, Finish,
                EvidenceInv, NoListener, Handler
  <2>5. ASSUME NEW h \in TermHandler, Listen(h) \/ Postpone(h)
        PROVE  Kept
    BY <2>5 DEF Listen, Register, ListenerCancels, Postpone, DescribeHook, SendHeartbeat,
                HeartbeatRecorded, ActionTimedOut, PostponeError, PostponeCancelled, Complete,
                Finish, EvidenceInv, NoListener, Handler
  <2>. QED
    BY <2>2, <2>3, <2>4, <2>5 DEF HandlerNext
<1>. QED
  BY <1>1, <1>2, <1>3, StillOnEvidence DEF EvidenceInv

LEMMA PollerEvidence ==
  ASSUME TypeOK, EvidenceInv, PollerNext
  PROVE  EvidenceInv'
<1>. /\ pc \in [Handler -> {"idle", "drain", "put", "describe", "await", "beat", "complete"}]
     /\ sub \in [Handler -> {"none", "start", "half", "listening", "fired", "ended"}]
     /\ holders \subseteq members
  BY DEF TypeOK
<1>0. holders' = holders /\ members' = members
  BY DEF PollerNext, PollTick, PollRead, PollState, UndrainGet, UndrainPut, PollEmit,
         PollError, external
<1>1. CASE PollEmit
  <2>1. pc' = pc /\ names' = names /\ pollPc' = "idle"
    BY <1>1 DEF PollEmit
  <2>2. NoListener'
    BY <1>1, <2>1 DEF PollEmit, EvidenceInv, NoListener, Notified, Handler
  <2>3. SeenHolding'
    BY <2>1 DEF SeenHolding, ShardsAreRead
  <2>4. ASSUME NEW h \in TermHandler, sub'[h] \in {"fired", "ended"},
               NodeOf(h)' \in holders' \ Joining
        PROVE  NodeOf(h)' \in late'
    <3>1. NodeOf(h)' = NodeOf(h) /\ NodeOf(h) \in holders \ Joining
      BY <1>0, <2>1, <2>4 DEF NodeOf
    <3>2. CASE Notified(h)
      <4>1. NodeOf(h) \in Empty
        BY <1>1, <3>1, <3>2 DEF PollEmit, Notified, Removed, EvidenceInv, SeenHolding
      <4>. QED
        BY <1>1, <2>4, <3>1, <4>1 DEF PollEmit, Empty, EvidenceInv, SeenHolding, ShardsAreRead
    <3>3. CASE ~Notified(h)
      <4>1. sub[h] \in {"fired", "ended"}
        BY <1>1, <2>4, <3>3 DEF PollEmit, Handler
      <4>. QED
        BY <1>1, <2>4, <3>1, <4>1 DEF PollEmit, EvidenceInv, FiredOnEvidence
    <3>. QED
      BY <3>2, <3>3
  <2>. QED
    BY <2>2, <2>3, <2>4 DEF EvidenceInv, FiredOnEvidence
<1>2. CASE PollError /\ main = "boot"
  BY <1>2, RestartEvidence DEF PollError
<1>3. CASE ~PollEmit /\ ~(PollError /\ main = "boot")
  <2>1. pc' = pc /\ names' = names /\ sub' = sub /\ late' = late
    BY <1>3 DEF PollerNext, PollTick, PollRead, PollState, UndrainGet,
                UndrainPut, PollError, handlers, external
  <2>2. SeenHolding'
    BY <1>0, <1>3, <2>1
    DEF PollerNext, PollTick, PollRead, PollState, UndrainGet, UndrainPut, PollError,
        EvidenceInv, SeenHolding, ShardsAreRead, TypeOK, Reads
  <2>. QED
    BY <1>0, <2>1, <2>2, StillOnEvidence DEF EvidenceInv, NoListener
<1>. QED
  BY <1>1, <1>2, <1>3

\* No shard comes to a node whose handler waits for it to be empty: it is excluded.
LEMMA EnvironmentEvidence ==
  ASSUME TypeOK, AwaitedIsExcluded, EvidenceInv, [Next]_vars, EnvironmentNext
  PROVE  EvidenceInv'
<1>. /\ pc \in [Handler -> {"idle", "drain", "put", "describe", "await", "beat", "complete"}]
     /\ sub \in [Handler -> {"none", "start", "half", "listening", "fired", "ended"}]
  BY DEF TypeOK
<1>1. UNCHANGED <<handlers, poll>>
  BY DEF EnvironmentNext, StartTermination, Expire, Leave, Join, Vacate, Allocate
<1>2. NoListener'
  BY <1>1 DEF EvidenceInv, NoListener, handlers
<1>3. members' \ Joining \subseteq members
  BY MembersShrink
<1>4. \/ \E n \in Node : Allocate(n)
      \/ \E n \in Node : holders' = holders \ {n} /\ late' = late \ {n}
      \/ holders' = holders /\ late' = late
  BY DEF EnvironmentNext, StartTermination, Expire, Leave, Join, Vacate
<1>5. SeenHolding'
  <2>1. ShardsAreRead' = ShardsAreRead
    BY <1>1 DEF ShardsAreRead, poll
  <2>2. ShardsAreRead => holders' \subseteq seenHolders \cup late'
    BY <1>4 DEF EvidenceInv, SeenHolding, Allocate
  <2>. QED
    BY <1>1, <1>3, <2>1, <2>2 DEF EvidenceInv, SeenHolding, poll
<1>6. ASSUME NEW h \in TermHandler, sub'[h] \in {"fired", "ended"},
             NodeOf(h)' \in holders' \ Joining
      PROVE  NodeOf(h)' \in late'
  <2>1. NodeOf(h)' = NodeOf(h) /\ sub[h] \in {"fired", "ended"}
    BY <1>1, <1>6 DEF NodeOf, handlers
  <2>2. pc[h] \in {"describe", "await", "beat", "complete"}
    BY <2>1 DEF EvidenceInv, NoListener, Handler
  <2>3. ASSUME NEW n \in Node, Allocate(n)
        PROVE  n # NodeOf(h) /\ late \subseteq late'
    BY <1>6, <2>1, <2>2, <2>3 DEF Allocate, AwaitedIsExcluded
  <2>. QED
    BY <1>4, <1>6, <2>1, <2>3 DEF EvidenceInv, FiredOnEvidence, Allocate
<1>. QED
  BY <1>2, <1>5, <1>6 DEF EvidenceInv, FiredOnEvidence

LEMMA NextEvidence ==
  TypeOK /\ AwaitedIsExcluded /\ EvidenceInv /\ [Next]_vars => EvidenceInv'
<1>. SUFFICES ASSUME TypeOK, AwaitedIsExcluded, EvidenceInv, [Next]_vars
              PROVE  EvidenceInv'
  OBVIOUS
<1>1. CASE MainStops \/ EmitterFails \/ EmitterBlocks \/ UNCHANGED vars
  <2>1. UNCHANGED <<members, holders, late, handlers, poll>>
    BY <1>1 DEF MainStops, EmitterFails, EmitterBlocks, vars, external
  <2>2. NoListener' /\ SeenHolding'
    BY <2>1 DEF EvidenceInv, NoListener, SeenHolding, ShardsAreRead, handlers, poll
  <2>. QED
    BY <2>1, <2>2, StillOnEvidence DEF EvidenceInv, handlers
<1>2. CASE MainExits \/ Crash
  BY <1>2, RestartEvidence DEF MainExits, Crash
<1>. QED
  BY <1>1, <1>2, HandlerEvidence, PollerEvidence, EnvironmentEvidence DEF Next

\* Whatever is moved or placed, fails, is repeated or comes late, a handler goes on
\* for an event only if its node has no shards, but for those that were placed on it
\* between the poll's request and its event and before the node was excluded.
THEOREM ReleasesHaveEvidence == Spec => []ReleasedOnEvidence
<1>1. EvidenceInv => ReleasedOnEvidence
  BY DEF EvidenceInv, FiredOnEvidence, ReleasedOnEvidence
<1>. QED
  BY <1>1, InitEvidence, NextEvidence, TypeCorrect, AwaitedNodesDrain, PTL DEF Spec
=============================================================================
