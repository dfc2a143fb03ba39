----------------------------- MODULE EventFlow -----------------------------
(***************************************************************************)
(* How CloudWatch events travel through the drainer: from the SQS queue    *)
(* (CloudWatchEventEmitter.Run), over the event bus and the channels of    *)
(* its listeners, through the batching of spot interruptions, to the loop  *)
(* of Main that starts a handler for each.  What the handlers do is in     *)
(* module Drainer.                                                         *)
(***************************************************************************)
EXTENDS Naturals, Sequences, SequencesExt

CONSTANTS
  Term,        \* messages about instance-termination lifecycle actions
  Spot,        \* messages about spot interruptions
  Junk,        \* messages that cannot be parsed, or are about something else
  ReceiveMax,  \* most messages in an answer of SQS (10 in the code)
  Cap,         \* capacity of a listener's channel (10 in the code)
  BatchMax,    \* most events in a batch of spot interruptions (20 in the code)
  CanFail,     \* requests may fail
  CanCrash     \* the process may be killed at any point

Event   == Term \cup Spot
Message == Event \cup Junk

ASSUME MessagesAssumption ==
  /\ IsFiniteSet(Message)
  /\ Term \cap Spot = {} /\ Event \cap Junk = {}

ASSUME LimitsAssumption ==
  /\ ReceiveMax \in Nat \ {0} /\ Cap \in Nat \ {0} /\ BatchMax \in Nat \ {0}
  /\ CanFail \in BOOLEAN /\ CanCrash \in BOOLEAN

VARIABLES
  queue,      \* the state of each message in SQS
  \* The goroutine running CloudWatchEventEmitter.Run.
  rcv,        \* where it is
  got,        \* the messages of the last answer
  toEmit,     \* those not emitted yet
  pushing,    \* those whose Emit has not yet found room in the listener's channel
  unheard,    \* those emitted when nobody listened
  \* The channels, and the goroutine of batchEvents.
  termChan, spotChan, batches,
  batcher, batch,
  \* The main loop.
  main, ctxDone,
  handled     \* history: the events given to handlers, while it matters

emitting == <<rcv, got, toEmit, pushing, unheard>>
batching == <<batches, batcher, batch>>
vars     == <<queue, emitting, termChan, spotChan, batching, main, handled, ctxDone>>

TypeOK ==
  /\ queue \in [Message -> {"visible", "inflight", "deleted"}]
  /\ rcv \in {"receive", "emit", "delete", "stopped"}
  /\ got \subseteq Message /\ toEmit \subseteq got
  /\ pushing \subseteq got \cap Event /\ unheard \subseteq got
  /\ termChan \in BoundedSeq(Term, Cap) /\ spotChan \in BoundedSeq(Spot, Cap)
  /\ batches \in BoundedSeq(BoundedSeq(Spot, BatchMax), 1)
  /\ batcher \in {"idle", "collect", "send"} /\ batch \in BoundedSeq(Spot, BatchMax)
  /\ main \in {"boot", "spotOn", "loop", "wait"}
  /\ handled \subseteq Event
  /\ ctxDone \in BOOLEAN

Init ==
  /\ queue = [m \in Message |-> "visible"]
  /\ rcv = "receive" /\ got = {} /\ toEmit = {} /\ pushing = {} /\ unheard = {}
  /\ termChan = <<>> /\ spotChan = <<>> /\ batches = <<>>
  /\ batcher = "idle" /\ batch = <<>>
  /\ main = "boot" /\ handled = {} /\ ctxDone = FALSE

\* The process starts again; what was in its memory is gone.
Restart ==
  /\ rcv' = "receive" /\ got' = {} /\ toEmit' = {} /\ pushing' = {} /\ unheard' = {}
  /\ termChan' = <<>> /\ spotChan' = <<>> /\ batches' = <<>>
  /\ batcher' = "idle" /\ batch' = <<>>
  /\ main' = "boot" /\ handled' = {} /\ ctxDone' = FALSE
  /\ UNCHANGED queue

-----------------------------------------------------------------------------
(* SQS and CloudWatchEventEmitter.Run.                                     *)

\* The visibility timeout of a message in flight ends.
Reappear(m) ==
  /\ queue[m] = "inflight"
  /\ queue' = [queue EXCEPT ![m] = "visible"]
  /\ UNCHANGED <<emitting, termChan, spotChan, batching, main, handled, ctxDone>>

\* SQS answers with some messages, or with none after a while.
Receive(msgs) ==
  /\ rcv = "receive" /\ ~ctxDone
  /\ \A m \in msgs : queue[m] = "visible"
  /\ queue' = [m \in Message |-> IF m \in msgs THEN "inflight" ELSE queue[m]]
  /\ rcv' = "emit" /\ got' = msgs /\ toEmit' = msgs /\ unheard' = {}
  /\ UNCHANGED <<pushing, termChan, spotChan, batching, main, handled, ctxDone>>

\* The listeners there are when an event is emitted.
Listening(m) ==
  \/ m \in Spot /\ main # "boot"
  \/ m \in Term /\ main \in {"loop", "wait"}

\* Emit starts a goroutine for the listener; without one there is nothing to do.
Emit(m) ==
  /\ rcv = "emit" /\ m \in toEmit
  /\ toEmit' = toEmit \ {m}
  /\ \/ Listening(m) /\ pushing' = pushing \cup {m} /\ UNCHANGED unheard
     \/ ~Listening(m) /\ unheard' = unheard \cup {m} /\ UNCHANGED pushing
  /\ UNCHANGED <<queue, rcv, got, termChan, spotChan, batching, main, handled, ctxDone>>

\* The goroutines started by Emit push their events in any order.
Push(m) ==
  /\ m \in pushing
  /\ pushing' = pushing \ {m}
  /\ \/ m \in Term /\ Len(termChan) < Cap
        /\ termChan' = Append(termChan, m) /\ UNCHANGED spotChan
     \/ m \in Spot /\ Len(spotChan) < Cap
        /\ spotChan' = Append(spotChan, m) /\ UNCHANGED termChan
  /\ UNCHANGED <<queue, rcv, got, toEmit, unheard, batching, main, handled, ctxDone>>

\* (mutant) Run does not wait for the events to be emitted.
EmittedAtOnce ==
  /\ rcv = "emit" /\ toEmit = {}
  /\ rcv' = "delete"
  /\ UNCHANGED <<queue, got, toEmit, pushing, unheard, termChan, spotChan, batching,
                 main, handled, ctxDone>>

\* toWait.Wait() returns.
Emitted ==
  /\ rcv = "emit" /\ toEmit = {} /\ pushing = {}
  /\ rcv' = "delete"
  /\ UNCHANGED <<queue, got, toEmit, pushing, unheard, termChan, spotChan, batching,
                 main, handled, ctxDone>>

\* The batch of messages is deleted; an answer that lists failures is not read.
Delete ==
  /\ rcv = "delete" /\ (ctxDone => got = {})
  /\ \E gone \in IF CanFail THEN SUBSET got ELSE {got} :
       /\ queue' = [m \in Message |-> IF m \in gone THEN "deleted" ELSE queue[m]]
       /\ handled' = handled \ gone
  /\ rcv' = "receive" /\ got' = {} /\ unheard' = {}
  /\ UNCHANGED <<toEmit, pushing, termChan, spotChan, batching, main, ctxDone>>

\* Run returns: its context is cancelled, or a request fails.
RunReturns ==
  /\ rcv \in {"receive", "delete"} /\ (CanFail \/ ctxDone)
  /\ rcv = "delete" => got # {}
  /\ rcv' = "stopped" /\ got' = {} /\ unheard' = {}
  /\ ctxDone' = TRUE
  /\ UNCHANGED <<queue, toEmit, pushing, termChan, spotChan, batching, main, handled>>

-----------------------------------------------------------------------------
(* batchEvents.                                                            *)

\* (mutant) The event that starts a batch is not put into it.
CollectForgetsFirst ==
  /\ batcher \in {"idle", "collect"} /\ spotChan # <<>>
  /\ batch' = (IF batcher = "idle" THEN <<>> ELSE Append(batch, Head(spotChan)))
  /\ spotChan' = Tail(spotChan)
  /\ batcher' = IF Len(batch') < BatchMax THEN "collect" ELSE "send"
  /\ UNCHANGED <<queue, emitting, termChan, batches, main, handled, ctxDone>>

\* The first event of a batch, or one that comes soon enough after another; the
\* batch is complete when it is full, or when the timer fires.
Collect ==
  /\ batcher \in {"idle", "collect"} /\ spotChan # <<>>
  /\ batch' = Append(batch, Head(spotChan)) /\ spotChan' = Tail(spotChan)
  /\ batcher' = IF Len(batch') < BatchMax THEN "collect" ELSE "send"
  /\ UNCHANGED <<queue, emitting, termChan, batches, main, handled, ctxDone>>

\* (mutant) The timer does not end an incomplete batch once it was reset.
TimerFiresOnce ==
  /\ batcher = "collect" /\ Len(batch) > 1
  /\ batcher' = "send"
  /\ UNCHANGED <<queue, emitting, termChan, spotChan, batches, batch,
                 main, handled, ctxDone>>

TimerFires ==
  /\ batcher = "collect"
  /\ batcher' = "send"
  /\ UNCHANGED <<queue, emitting, termChan, spotChan, batches, batch,
                 main, handled, ctxDone>>

\* The channel of the batches has room for one.
Send ==
  /\ batcher = "send" /\ batches = <<>>
  /\ batches' = <<batch>>
  /\ batcher' = "idle" /\ batch' = <<>>
  /\ UNCHANGED <<queue, emitting, termChan, spotChan, main, handled, ctxDone>>

-----------------------------------------------------------------------------
(* Main.                                                                   *)

\* The listeners are registered one after the other, while Run is at work.
Register ==
  /\ \/ main = "boot" /\ main' = "spotOn"
     \/ main = "spotOn" /\ main' = "loop"
  /\ UNCHANGED <<queue, emitting, termChan, spotChan, batching, handled, ctxDone>>

\* A handler is started.
Take(events) == handled' = {m \in handled : queue[m] # "deleted"} \cup events

TakeBatch ==
  /\ main = "loop" /\ batches # <<>>
  /\ Take(ToSet(Head(batches))) /\ batches' = <<>>
  /\ UNCHANGED <<queue, emitting, termChan, spotChan, batcher, batch, main, ctxDone>>

TakeTerm ==
  /\ main = "loop" /\ termChan # <<>>
  /\ Take({Head(termChan)}) /\ termChan' = Tail(termChan)
  /\ UNCHANGED <<queue, emitting, spotChan, batching, main, ctxDone>>

\* A handler, or the poller, returns an error.
OtherFails ==
  /\ CanFail
  /\ ctxDone' = TRUE
  /\ UNCHANGED <<queue, emitting, termChan, spotChan, batching, main, handled>>

\* The loop notices the cancelled context.
MainStops ==
  /\ main = "loop" /\ ctxDone
  /\ main' = "wait"
  /\ UNCHANGED <<queue, emitting, termChan, spotChan, batching, handled, ctxDone>>

\* eg.Wait returns once Run and the handlers did; the process exits and is started again.
MainExits ==
  /\ main = "wait" /\ rcv = "stopped"
  /\ Restart

Crash == CanCrash /\ Restart

SomeMessages == UNION {kSubset(k, Message) : k \in 0..ReceiveMax}

Run ==
  \/ (\E msgs \in SomeMessages : Receive(msgs)) \/ (\E m \in Message : Emit(m))
  \/ Emitted \/ Delete \/ RunReturns

Batcher == Collect \/ TimerFires \/ Send

Next ==
  \/ Run \/ Batcher
  \/ \E m \in Message : Reappear(m) \/ Push(m)
  \/ Register \/ TakeBatch \/ TakeTerm \/ OtherFails \/ MainStops \/ MainExits \/ Crash

Spec == Init /\ [][Next]_vars

\* Goroutines keep running, requests are answered, a message in flight becomes
\* visible again, a visible one is received at some time, and a select does not pass
\* over a ready case for ever.
Fairness ==
  /\ WF_vars(Run) /\ WF_vars(Batcher) /\ WF_vars(\E m \in Message : Push(m))
  /\ \A m \in Message :
       /\ WF_vars(Reappear(m))
       /\ SF_vars(\E msgs \in SomeMessages : m \in msgs /\ Receive(msgs))
       /\ SF_vars(m \in got /\ Delete /\ queue'[m] = "deleted")
  /\ WF_vars(Register) /\ SF_vars(TakeBatch) /\ SF_vars(TakeTerm) /\ WF_vars(MainStops)

FairSpec == Spec /\ Fairness

-----------------------------------------------------------------------------
(* What the flow of events guarantees.                                     *)

InMemory(m) ==
  \/ m \in toEmit \cup pushing \cup ToSet(termChan) \cup ToSet(spotChan) \cup ToSet(batch)
  \/ batches # <<>> /\ m \in ToSet(Head(batches))

Kept(m) == queue[m] # "deleted" \/ InMemory(m)

\* An event is in the queue or on its way until a handler is started for it: the
\* batching, the deletion and the redelivery of messages lose none
\* while the process lives, except those emitted before Main had registered its
\* listeners (app.go:174-199).
NothingVanishes ==
  [][\A m \in Event : Kept(m) /\ ~Kept(m)'
       => m \in unheard \cup handled \cup handled' \/ main' = "boot"]_vars

\* Run deletes no message whose event is still waiting for room in its listener's
\* channel, so what a killed process loses is bounded by the channels and the
\* batch being collected (cloudwatch_event_emitter.go:68-74).
DeletedIsEmitted == \A m \in pushing : queue[m] # "deleted"

\* Unless the process stops, every message leaves the queue and every event is
\* handed over: backpressure from one listener delays the others, for a while.
EventsFlow ==
  \A m \in Message :
    queue[m] # "deleted" \/ InMemory(m)
      ~> (queue[m] = "deleted" /\ ~InMemory(m)) \/ ctxDone \/ main = "boot"

-----------------------------------------------------------------------------
(* What comments of the code say, and the code does not do.                *)

\* "Run receives and emits CloudWatch events until the context is canceled or
\* an error occurs" (cloudwatch_event_emitter.go:41-42), and eg.Wait counts on it.
RunStops == ctxDone ~> rcv = "stopped" \/ ~ctxDone
=============================================================================
