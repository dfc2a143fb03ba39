----------------------------- MODULE Dispatcher -----------------------------
(***************************************************************************)
(* pkg/squeues: Dispatcher.RunWithContext, which receives messages of SQS, *)
(* starts a handler for each, keeps the messages reserved while they are   *)
(* handled and deletes them afterwards.  An event loop takes what its      *)
(* goroutines offer on unbuffered channels.  Time is counted in ticks; a   *)
(* goroutine, the loop or SQS lets at most one tick pass before it does    *)
(* what is ready (late), handlers and the polling for messages excepted.   *)
(***************************************************************************)
EXTENDS Integers, FiniteSets

CONSTANTS
  Message,      \* messages of the queue
  Limit,        \* MaxConcurrent, 0 for no limit
  MaxMessages,  \* most messages of one request (10)
  Initial,      \* InitialVisibilityTimeout
  Longest,      \* MaxVisibilityTimeout
  Buffer,       \* awsCommBuffer
  MaxFaults     \* at most, requests and handlers that fail, and crashes

\* What the constants have to be for a message to stay reserved: results, a
\* notice, a request and an error may each take a tick, and a request is over
\* before the next notice.
CommBufferCovers ==
  /\ Limit \in Nat /\ MaxMessages \in Nat \ {0} /\ MaxFaults \in Nat
  /\ Buffer \in Nat /\ Buffer > 4
  /\ Initial \in Nat /\ Initial > Buffer
  /\ Longest \in Nat /\ Longest >= Initial
  /\ Longest > Buffer + 2 /\ Initial + Initial \div 2 > Buffer + 2

\* A message is received at most twice by one process: the second receipt is
\* there to show that it never needs it.
Receipt == Message \X {1, 2}
MsgOf(r) == r[1]

VARIABLES
  queue,        \* the messages in SQS
  hidden,       \* ticks until each message is visible again
  run,          \* where RunWithContext is
  recv,         \* doReceiveMessages enabled, or the state of the request
  asked,        \* the number of messages asked for
  results,      \* the receipts in receiveMessagesResults
  pending,      \* the keys of the map pending
  stage,        \* the goroutines that handle and delete a message
  notifier,     \* notifyChangeMessageVisibility of each receipt
  timer,        \* ticks until doSendNotice fires
  period,       \* the visibility timeout last requested
  update,       \* the goroutine that changes the visibility
  late,         \* what was ready before the last tick already
  faults        \* failures and crashes so far

sqs     == <<queue, hidden>>
receive == <<recv, asked, results>>
watch   == <<notifier, timer, period>>
vars    == <<sqs, run, receive, pending, stage, watch, update, late, faults>>

TypeOK ==
  /\ queue \subseteq Message /\ hidden \in [Message -> 0..Longest]
  /\ run \in {"loop", "stopping", "panicked"}
  /\ recv \in {"on", "off", "out", "back", "error"}
  /\ asked \in Int /\ results \subseteq Receipt /\ pending \subseteq Receipt
  /\ stage \in [Receipt -> {"none", "run", "done", "delete", "error"}]
  /\ notifier \in [Receipt -> {"none", "sleep", "offer"}]
  /\ timer \in [Receipt -> 0..Longest] /\ period \in [Receipt -> 0..Longest]
  /\ update \in [Receipt -> {"none", "ask", "error"}]
  /\ faults \in 0..MaxFaults

All(x) == [r \in Receipt |-> x]

ProcessInit ==
  /\ run = "loop" /\ recv = "on" /\ asked = 0 /\ results = {} /\ pending = {}
  /\ stage = All("none") /\ notifier = All("none") /\ update = All("none")
  /\ timer = All(0) /\ period = All(0)

Init ==
  /\ queue \in SUBSET Message /\ hidden = [m \in Message |-> 0]
  /\ ProcessInit /\ late = {} /\ faults = 0

Restart ==
  /\ run' = "loop" /\ recv' = "on" /\ asked' = 0 /\ results' = {} /\ pending' = {}
  /\ stage' = All("none") /\ notifier' = All("none") /\ update' = All("none")
  /\ timer' = All(0) /\ period' = All(0)

\* Something fails.
Fault == faults < MaxFaults /\ faults' = faults + 1

Visible == {m \in queue : hidden[m] = 0}

\* Receipts of which nothing is left, the one to use for a message received.
Idle(r) == stage[r] = "none" /\ notifier[r] = "none" /\ update[r] = "none"
Fresh(m) == IF Idle(<<m, 1>>) THEN <<m, 1>> ELSE <<m, 2>>

Hide(S, t) == hidden' = [m \in Message |-> IF m \in S THEN t ELSE hidden[m]]

\* (mutant) The check counts the messages before the last were added.
BelowLimitOrAt(n) == Limit = 0 \/ n <= Limit

BelowLimit(n) == Limit = 0 \/ n < Limit

-----------------------------------------------------------------------------
(* Receiving.                                                              *)

NumToAsk ==
  IF Limit = 0 \/ Limit - Cardinality(pending) > MaxMessages
    THEN MaxMessages ELSE Limit - Cardinality(pending)

StartReceive ==
  /\ run = "loop" /\ recv = "on"
  /\ asked' = NumToAsk
  /\ recv' = "out"
  /\ run' = IF NumToAsk <= 0 THEN "panicked" ELSE run
  /\ UNCHANGED <<sqs, results, pending, stage, watch, update, faults>>

\* SQS answers with any visible messages, or with none when PollTime is over.
AnswerReceive ==
  /\ run = "loop" /\ recv = "out"
  /\ \E S \in SUBSET {m \in Visible : Idle(Fresh(m))} :
       /\ Cardinality(S) <= asked
       /\ results' = {Fresh(m) : m \in S}
       /\ Hide(S, Initial)
  /\ recv' = "back"
  /\ UNCHANGED <<queue, run, asked, pending, stage, watch, update, faults>>

ReceiveFails ==
  /\ Fault /\ run = "loop" /\ recv = "out"
  /\ recv' = "error"
  /\ UNCHANGED <<sqs, run, asked, results, pending, stage, watch, update>>

\* A handler and a notifier start for each message.
TakeResults ==
  /\ run = "loop" /\ recv = "back"
  /\ pending' = pending \cup results
  /\ stage' = [r \in Receipt |-> IF r \in results THEN "run" ELSE stage[r]]
  /\ notifier' = [r \in Receipt |-> IF r \in results THEN "sleep" ELSE notifier[r]]
  /\ timer' = [r \in Receipt |-> IF r \in results THEN Initial - Buffer ELSE timer[r]]
  /\ period' = [r \in Receipt |-> IF r \in results THEN Initial ELSE period[r]]
  /\ results' = {} /\ asked' = 0
  /\ recv' = IF BelowLimit(Cardinality(pending')) THEN "on" ELSE "off"
  /\ UNCHANGED <<sqs, run, update, faults>>

-----------------------------------------------------------------------------
(* Keeping a message reserved.                                             *)

\* The intervals grow by half up to MaxVisibilityTimeout; what the code adds or
\* takes away at random is left out.
NextPeriod(p) == IF p + p \div 2 < Longest THEN p + p \div 2 ELSE Longest

TimerFires(r) ==
  /\ notifier[r] = "sleep" /\ timer[r] = 0
  /\ notifier' = [notifier EXCEPT ![r] = "offer"]
  /\ UNCHANGED <<sqs, run, receive, pending, stage, timer, period, update, faults>>

\* (mutant) The timer is set for the whole of the new timeout.
TakeNoticeLate(r) ==
  /\ run = "loop" /\ notifier[r] = "offer"
  /\ notifier' = [notifier EXCEPT ![r] = "sleep"]
  /\ period' = [period EXCEPT ![r] = NextPeriod(@)]
  /\ timer' = [timer EXCEPT ![r] = NextPeriod(period[r])]
  /\ update' = [update EXCEPT ![r] = "ask"]
  /\ UNCHANGED <<sqs, run, receive, pending, stage, faults>>

TakeNotice(r) ==
  /\ run = "loop" /\ notifier[r] = "offer"
  /\ notifier' = [notifier EXCEPT ![r] = "sleep"]
  /\ period' = [period EXCEPT ![r] = NextPeriod(@)]
  /\ timer' = [timer EXCEPT ![r] = NextPeriod(period[r]) - Buffer]
  /\ update' = [update EXCEPT ![r] = "ask"]
  /\ UNCHANGED <<sqs, run, receive, pending, stage, faults>>

\* SQS rejects a change for a message that is deleted or visible.
AnswerUpdate(r) ==
  /\ run = "loop" /\ update[r] = "ask"
  /\ LET reserved == MsgOf(r) \in queue /\ hidden[MsgOf(r)] > 0 IN
       /\ update' = [update EXCEPT ![r] = IF reserved THEN "none" ELSE "error"]
       /\ Hide(IF reserved THEN {MsgOf(r)} ELSE {}, period[r])
  /\ UNCHANGED <<queue, run, receive, pending, stage, watch, faults>>

UpdateFails(r) ==
  /\ Fault /\ run = "loop" /\ update[r] = "ask"
  /\ update' = [update EXCEPT ![r] = "error"]
  /\ UNCHANGED <<sqs, run, receive, pending, stage, watch>>

-----------------------------------------------------------------------------
(* Handling and deleting.                                                  *)

HandlerReturns(r) ==
  /\ run = "loop" /\ stage[r] = "run"
  /\ \/ stage' = [stage EXCEPT ![r] = "done"] /\ UNCHANGED faults
     \/ stage' = [stage EXCEPT ![r] = "error"] /\ Fault
  /\ UNCHANGED <<sqs, run, receive, pending, watch, update>>

\* The notifier is stopped, unless its timer fires just then: it may then offer one
\* more notice, which the loop takes.
StopNotifier(r) ==
  /\ notifier' = [notifier EXCEPT ![r] = "none"]
  /\ timer' = [timer EXCEPT ![r] = 0]
  /\ \/ UNCHANGED <<period, update>>
     \/ /\ notifier[r] = "sleep" /\ timer[r] = 0
        /\ period' = [period EXCEPT ![r] = NextPeriod(@)]
        /\ update' = [update EXCEPT ![r] = "ask"]

\* (mutant) The next request is not enabled.
TakeDoneOnly(r) ==
  /\ run = "loop" /\ stage[r] = "done"
  /\ run' = IF r \in pending THEN run ELSE "panicked"
  /\ StopNotifier(r)
  /\ pending' = pending \ {r}
  /\ stage' = [stage EXCEPT ![r] = "delete"]
  /\ UNCHANGED <<sqs, receive, faults>>

\* The next request is enabled and the message deleted.
TakeDone(r) ==
  /\ run = "loop" /\ stage[r] = "done"
  /\ run' = IF r \in pending THEN run ELSE "panicked"
  /\ StopNotifier(r)
  /\ pending' = pending \ {r}
  /\ stage' = [stage EXCEPT ![r] = "delete"]
  /\ recv' = IF recv = "off" /\ BelowLimit(Cardinality(pending')) THEN "on" ELSE recv
  /\ UNCHANGED <<sqs, asked, results, faults>>

AnswerDelete(r) ==
  /\ run = "loop" /\ stage[r] = "delete"
  /\ queue' = queue \ {MsgOf(r)}
  /\ Hide({MsgOf(r)}, 0)
  /\ stage' = [stage EXCEPT ![r] = "none"]
  /\ UNCHANGED <<run, receive, pending, watch, update, faults>>

DeleteFails(r) ==
  /\ Fault /\ run = "loop" /\ stage[r] = "delete"
  /\ queue' \in {queue, queue \ {MsgOf(r)}}
  /\ stage' = [stage EXCEPT ![r] = "error"]
  /\ UNCHANGED <<hidden, run, receive, pending, watch, update>>

-----------------------------------------------------------------------------
(* The end of Run.                                                         *)

AtErrc ==
  \/ recv = "error"
  \/ \E r \in Receipt : stage[r] = "error" \/ update[r] = "error"

\* The loop takes an error and returns: the context is cancelled.  SQS may have
\* answered a request that is cancelled.
TakeError ==
  /\ run = "loop" /\ AtErrc
  /\ run' = "stopping"
  /\ \/ Hide({}, 0)
     \/ recv = "out" /\ \E m \in Visible : Hide({m}, Initial)
  /\ recv' = "off" /\ asked' = 0 /\ results' = {}
  /\ UNCHANGED <<queue, pending, stage, watch, update, faults>>

\* (mutant) Done handlers do not look at the context.
HandlerEndsBlocked(r) ==
  /\ run = "stopping" /\ stage[r] \notin {"none", "done"}
  /\ queue' \in {queue} \cup (IF stage[r] = "delete" THEN {queue \ {MsgOf(r)}} ELSE {})
  /\ stage' = [stage EXCEPT ![r] = "none"]
  /\ UNCHANGED <<hidden, run, receive, pending, watch, update, faults>>

\* The goroutines notice the context, whatever they were waiting for; a deletion
\* may be carried out all the same.
HandlerEnds(r) ==
  /\ run = "stopping" /\ stage[r] # "none"
  /\ queue' \in {queue} \cup (IF stage[r] = "delete" THEN {queue \ {MsgOf(r)}} ELSE {})
  /\ stage' = [stage EXCEPT ![r] = "none"]
  /\ UNCHANGED <<hidden, run, receive, pending, watch, update, faults>>

WatchEnds(r) ==
  /\ run = "stopping"
  /\ notifier[r] # "none" \/ update[r] # "none"
  /\ notifier' = [notifier EXCEPT ![r] = "none"]
  /\ update' = [update EXCEPT ![r] = "none"]
  /\ timer' = [timer EXCEPT ![r] = 0]
  /\ UNCHANGED <<sqs, run, receive, pending, stage, period, faults>>

\* wg.Wait is over, the process ends with the error and is started again.
RunReturns ==
  /\ run = "stopping" /\ \A r \in Receipt : Idle(r)
  /\ Restart
  /\ UNCHANGED <<sqs, faults>>

Crash == Fault /\ Restart /\ UNCHANGED sqs

-----------------------------------------------------------------------------
(* Time.                                                                   *)

\* What is ready and not waited for by nature.
Ready ==
  (IF recv \in {"back", "error"} THEN {<<"receive", recv>>} ELSE {})
    \cup {<<"notice", r>> : r \in {s \in Receipt :
             notifier[s] = "offer" \/ (notifier[s] = "sleep" /\ timer[s] = 0)}}
    \cup {<<update[r], r>> : r \in {s \in Receipt : update[s] # "none"}}
    \cup {<<stage[r], r>> : r \in {s \in Receipt : stage[s] \notin {"none", "run"}}}

Less(f) == [x \in DOMAIN f |-> IF f[x] > 0 THEN f[x] - 1 ELSE 0]

Tick ==
  /\ run # "panicked" /\ late = {}
  /\ late' = Ready
  /\ hidden' = Less(hidden) /\ timer' = Less(timer)
  /\ UNCHANGED <<queue, run, receive, pending, stage, notifier, period, update, faults>>

Receiving == StartReceive \/ AnswerReceive \/ ReceiveFails \/ TakeResults
Reserving(r) == TimerFires(r) \/ TakeNotice(r) \/ AnswerUpdate(r) \/ UpdateFails(r)
Deleting(r) == TakeDone(r) \/ AnswerDelete(r) \/ DeleteFails(r)
Ending(r) == HandlerEnds(r) \/ WatchEnds(r)

Step ==
  \/ Receiving
  \/ \E r \in Receipt : Reserving(r) \/ HandlerReturns(r) \/ Deleting(r) \/ Ending(r)
  \/ TakeError \/ RunReturns \/ Crash

Next == Tick \/ (Step /\ late' = late \cap Ready')

Spec == Init /\ [][Next]_vars

\* The loop and its goroutines run, requests are answered, handlers return and
\* time passes.  A message that is visible often enough is received.
Fair(A) == A /\ late' = late \cap Ready'

Fairness ==
  /\ WF_vars(Tick)
  /\ WF_vars(Fair(Receiving))
  /\ \A m \in Message : SF_vars(Fair(AnswerReceive /\ hidden[m] = 0 /\ hidden'[m] > 0))
  /\ \A r \in Receipt : WF_vars(Fair(HandlerReturns(r)))
  /\ WF_vars(Fair(\E r \in Receipt : Reserving(r)))
  /\ WF_vars(Fair(\E r \in Receipt : Deleting(r)))
  /\ WF_vars(Fair(\E r \in Receipt : Ending(r)))
  /\ WF_vars(Fair(TakeError)) /\ WF_vars(Fair(RunReturns))

FairSpec == Spec /\ Fairness

-----------------------------------------------------------------------------

\* The limit of handlers holds whatever the order in which results, deletions and
\* errors reach the loop, and it never asks for less than one message nor meets a
\* deletion that is not pending: the process does not panic (squeues.go:177, 236).
WithinLimit ==
  /\ run # "panicked"
  /\ Limit # 0 => Cardinality(pending) <= Limit

\* "While the Handler is running, the message will periodically have its visibility
\* timeout updated to keep the message reserved" (squeues.go:96-97): no message is
\* handed to a second handler before the first is done and the message is deleted.
OneHandler ==
  \A m \in Message : stage[<<m, 1>>] = "none" \/ stage[<<m, 2>>] = "none"

\* Every message is handled and deleted in the end, through failures, errors of
\* late changes of visibility and restarts, and however few handlers may run.
EveryMessageDone == \A m \in Message : m \in queue ~> m \notin queue

\* Once an error is taken no goroutine keeps wg.Wait from ending (squeues.go:133).
EndsOnError == run = "stopping" ~> run = "loop"
=============================================================================
