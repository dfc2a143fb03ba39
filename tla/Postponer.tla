----------------------------- MODULE Postponer -----------------------------
(***************************************************************************)
(* LifecycleActionPostponer.Postpone: the timers that keep one lifecycle   *)
(* action of the AutoScaling group from timing out while its node drains.  *)
(* Time is counted in ticks since the action started (LifecycleAction's    *)
(* Start).  The group starts the hook's timeout anew when it records a     *)
(* heartbeat; the code adds it to the previous deadline, so that its idea  *)
(* of the deadline runs ahead.                                             *)
(***************************************************************************)
EXTENDS Integers

CONSTANTS
  Timeout,      \* HeartbeatTimeout of the hook when it is first described
  Longest,      \* the longest HeartbeatTimeout it is reconfigured to
  Global,       \* GlobalTimeout of the hook
  Delay,        \* at most, from the start of the action to the hook's description
  Lag           \* at most, from the expiry of a timer to the heartbeat's answer

ASSUME TimingAssumption ==
  /\ Timeout \in Nat \ {0} /\ Longest \in Nat /\ Global \in Nat
  /\ Delay \in Nat /\ Lag \in Nat
  /\ Timeout <= Longest /\ Timeout <= Global
  /\ Delay + 2 * Lag < Timeout

VARIABLES
  now,
  \* The AutoScaling group.
  hookTimeout,  \* HeartbeatTimeout of the hook
  status,       \* of the action
  deadline,     \* when the action expires unless a heartbeat comes
  \* The goroutine in Postpone.
  pc,
  timeout,      \* the code's idea of deadline, from the cached HeartbeatTimeout
  due,          \* when halfWayToTimeout fires
  globalDue,    \* when globalTimeout fires
  answer,       \* the group's answer to the heartbeat in flight
  ctxDone, result

aws  == <<hookTimeout, status, deadline>>
vars == <<now, aws, pc, timeout, due, globalDue, answer, ctxDone, result>>

TypeOK ==
  /\ now \in Nat
  /\ hookTimeout \in Timeout..Longest /\ deadline \in Nat
  /\ status \in {"active", "expired", "completed"}
  /\ pc \in {"describe", "await", "beat", "done"}
  /\ timeout \in Nat /\ due \in Nat /\ globalDue \in Nat
  /\ answer \in {"none", "recorded", "rejected"}
  /\ ctxDone \in BOOLEAN
  /\ result \in {"none", "canceled", "timeout", "error"}

Init ==
  /\ now = 0
  /\ hookTimeout = Timeout /\ status = "active" /\ deadline = Timeout
  /\ pc = "describe"
  /\ timeout = 0 /\ due = 0 /\ globalDue = 0
  /\ answer = "none" /\ ctxDone = FALSE /\ result = "none"

-----------------------------------------------------------------------------
(* The AutoScaling group.                                                  *)

\* Nobody extended the action in time.
Expire ==
  /\ status = "active" /\ now >= deadline
  /\ status' = "expired"
  /\ UNCHANGED <<now, hookTimeout, deadline, pc, timeout, due, globalDue,
                 answer, ctxDone, result>>

\* Someone else completes it: the handler of a duplicate of the message.
CompletedElsewhere ==
  /\ status = "active" /\ status' = "completed"
  /\ UNCHANGED <<now, hookTimeout, deadline, pc, timeout, due, globalDue,
                 answer, ctxDone, result>>

\* The hook is given a longer timeout after it was described; neither Postpone nor
\* the cache of the process is told.
Reconfigure ==
  /\ pc # "describe"
  /\ hookTimeout' \in (hookTimeout + 1)..Longest
  /\ UNCHANGED <<now, status, deadline, pc, timeout, due, globalDue,
                 answer, ctxDone, result>>

\* A heartbeat starts the period of an active action anew, up to the global timeout.
AnswerHeartbeat ==
  /\ pc = "beat" /\ answer = "none"
  /\ \/ /\ status = "active"
        /\ answer' = "recorded"
        /\ deadline' = IF now + hookTimeout < Global THEN now + hookTimeout ELSE Global
     \/ /\ status # "active"
        /\ answer' = "rejected"
        /\ UNCHANGED deadline
  /\ UNCHANGED <<now, hookTimeout, status, pc, timeout, due, globalDue,
                 ctxDone, result>>

-----------------------------------------------------------------------------
(* Postpone.                                                               *)

\* When a timer set now to half of what is left until t fires; a timer set to a
\* negative duration fires at once.
HalfWayTo(t) == IF t > now THEN now + (t - now) \div 2 ELSE now

Return(r) ==
  /\ pc' = "done" /\ result' = r
  /\ UNCHANGED <<now, aws, timeout, due, globalDue, answer, ctxDone>>

\* The hook is described and the timers are set.
Describe ==
  /\ pc = "describe"
  /\ pc' = "await"
  /\ timeout' = Timeout
  /\ due' = HalfWayTo(timeout')
  /\ globalDue' = now + Global
  /\ UNCHANGED <<now, aws, answer, ctxDone, result>>

SendHeartbeat ==
  /\ pc = "await" /\ now >= due
  /\ pc' = "beat" /\ answer' = "none"
  /\ UNCHANGED <<now, aws, timeout, due, globalDue, ctxDone, result>>

\* (mutant) The timer is set for half of the deadline, not of what is left until it.
HeartbeatRecordedHalf ==
  /\ pc = "beat" /\ answer = "recorded"
  /\ pc' = "await"
  /\ timeout' = timeout + Timeout
  /\ due' = now + timeout' \div 2
  /\ UNCHANGED <<now, aws, globalDue, answer, ctxDone, result>>

HeartbeatRecorded ==
  /\ pc = "beat" /\ answer = "recorded"
  /\ pc' = "await"
  /\ timeout' = timeout + Timeout
  /\ due' = HalfWayTo(timeout')
  /\ UNCHANGED <<now, aws, globalDue, answer, ctxDone, result>>

\* "No active Lifecycle Action found": ErrLifecycleActionTimeout.
HeartbeatRejected == pc = "beat" /\ answer = "rejected" /\ Return("timeout")

\* (mutant) The global timer gives up early.
GlobalTimeoutEarly == pc = "await" /\ now >= globalDue - Timeout /\ Return("timeout")

GlobalTimeout == pc = "await" /\ now >= globalDue /\ Return("timeout")

\* A request fails, or is cancelled with the context, answered or not.
RequestFails == pc \in {"describe", "beat"} /\ Return("error")

Cancel ==
  /\ ~ctxDone /\ ctxDone' = TRUE
  /\ UNCHANGED <<now, aws, pc, timeout, due, globalDue, answer, result>>

Canceled == pc = "await" /\ ctxDone /\ Return("canceled")

\* Time passes, but not past what happens promptly: the description of the hook
\* within Delay, a heartbeat's answer within Lag of its timer, an expiry at once.
Tick ==
  /\ pc = "describe" => now < Delay
  /\ pc \in {"await", "beat"} => now < due + Lag
  /\ pc = "await" => now < globalDue /\ ~ctxDone
  /\ status = "active" => now < deadline
  /\ pc # "done" \/ status = "active"   \* nothing is left to wait for otherwise
  /\ now' = now + 1
  /\ UNCHANGED <<aws, pc, timeout, due, globalDue, answer, ctxDone, result>>

Next ==
  \/ Expire \/ CompletedElsewhere \/ Reconfigure \/ AnswerHeartbeat
  \/ Describe \/ SendHeartbeat \/ HeartbeatRecorded \/ HeartbeatRejected
  \/ GlobalTimeout \/ RequestFails \/ Cancel \/ Canceled \/ Tick

Spec == Init /\ [][Next]_vars

-----------------------------------------------------------------------------

\* The purpose of the postponer (lifecycle_action_postponer.go:28), as far as it
\* goes: the halved timers are set from a deadline that runs ahead of the group's, yet
\* an action that expires before its global timeout, with Postpone looking after it,
\* does so no earlier than Lag before the next heartbeat is due, or with that heartbeat
\* on its way.  What is left between heartbeat and deadline is never lost by more than
\* one request takes, but it halves with each of them.
ExpiresAtHeartbeat ==
  [][status = "active" /\ status' = "expired" /\ pc # "done" /\ now < Global
       => \/ pc = "await" /\ due - now <= Lag
          \/ pc = "beat" /\ answer = "none"]_vars

\* ErrLifecycleActionTimeout is no false alarm: the handler that gives up on it
\* leaves behind no action that can still be extended (drainer/app.go:347-353).
TimeoutIsReal == result = "timeout" => status # "active" \/ now >= Global
=============================================================================
