------------------------------ MODULE MCLoops ------------------------------
(***************************************************************************)
(* Instances for TLC of the two loops whose liveness matters: the rounds   *)
(* of the throttler and the dispatcher of SQS messages.  They share        *)
(* nothing: the initial state says which one runs, and the other stays as  *)
(* it is.  Each keeps the fairness its own specification states.           *)
(***************************************************************************)
EXTENDS Throttler

CONSTANTS Message, Limit, MaxMessages, Initial, Longest, Buffer, MaxFaults

VARIABLES
  program,
  queue, hidden, run, recv, asked, results, pending, stage,
  notifier, timer, period, update, late, faults

D == INSTANCE Dispatcher

throttler  == <<world, process, counts, touched, wasGood>>
dispatcher == <<queue, hidden, run, recv, asked, results, pending, stage,
                notifier, timer, period, update, late, faults>>
loops      == <<program, throttler, dispatcher>>

ASSUME DispatcherFits == D!CommBufferCovers

\* A part that does not run has one initial state.
LoopsInit ==
  /\ program \in {"throttler", "dispatcher"}
  /\ Init /\ (program = "throttler" \/ (bad = {} /\ suspended = {} /\ ~dryRun))
  /\ D!Init /\ (program = "dispatcher" \/ queue = {})

LoopsNext ==
  \/ program = "throttler" /\ Next /\ UNCHANGED <<program, dispatcher>>
  \/ program = "dispatcher" /\ D!Next /\ UNCHANGED <<program, throttler>>

Throttles(A)  == program = "throttler" /\ A /\ UNCHANGED <<program, dispatcher>>
Dispatches(A) == program = "dispatcher" /\ A /\ UNCHANGED <<program, throttler>>

\* The fairness of Throttler!FairSpec and Dispatcher!FairSpec.
ThrottlerFairness == WF_loops(Throttles(Main))
DispatcherFairness ==
  /\ WF_loops(Dispatches(D!Tick))
  /\ WF_loops(Dispatches(D!Fair(D!Receiving)))
  /\ \A m \in Message :
       SF_loops(Dispatches(D!Fair(D!AnswerReceive /\ hidden[m] = 0 /\ hidden'[m] > 0)))
  /\ \A r \in D!Receipt : WF_loops(Dispatches(D!Fair(D!HandlerReturns(r))))
  /\ WF_loops(Dispatches(D!Fair(\E r \in D!Receipt : D!Reserving(r))))
  /\ WF_loops(Dispatches(D!Fair(\E r \in D!Receipt : D!Deleting(r))))
  /\ WF_loops(Dispatches(D!Fair(\E r \in D!Receipt : D!Ending(r))))
  /\ WF_loops(Dispatches(D!Fair(D!TakeError)))
  /\ WF_loops(Dispatches(D!Fair(D!RunReturns)))

LoopsSpec ==
  LoopsInit /\ [][LoopsNext]_loops /\ ThrottlerFairness /\ DispatcherFairness

-----------------------------------------------------------------------------

\* Every variable of both parts keeps its type.
LoopsTypeOK == TypeOK /\ D!TypeOK

\* Dispatcher: the limit of handlers holds and the loop does not panic.
WithinLimit == D!WithinLimit

\* Dispatcher: no message is handed to a second handler before it is done with.
OneHandler == D!OneHandler

\* Dispatcher: every message is handled and deleted, through failures and restarts.
EveryMessageDone == D!EveryMessageDone

\* Dispatcher: once an error is taken Run comes to its end.
EndsOnError == D!EndsOnError
=============================================================================
