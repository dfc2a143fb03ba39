----------------------------- MODULE KeepAlive -----------------------------
(***************************************************************************)
(* lifecycle.KeepAlive of the first generation: it keeps a lifecycle       *)
(* action from expiring as long as a condition does not hold.  The timeout *)
(* is reckoned from the start of the action and a count of heartbeats,     *)
(* which the message of a restarted lifecycler carries on.  The group does *)
(* not reckon so: a heartbeat starts the hook's timeout anew, at the time  *)
(* it is recorded.  Time is in ticks since the action started.             *)
(***************************************************************************)
EXTENDS Integers

CONSTANTS
  HeartbeatTimeout, Global,
  CommBuffer,   \* commBufD
  MaxCount,     \* most heartbeats of a message that is taken up again
  Lag           \* at most, from the timer to the answer of check and heartbeat

\* The buffer is longer than a check and a heartbeat take.
CommBufferCovers ==
  /\ HeartbeatTimeout \in Nat /\ Global \in Nat /\ MaxCount \in Nat
  /\ CommBuffer \in Nat /\ Lag \in Nat /\ Lag < CommBuffer
  /\ CommBuffer < HeartbeatTimeout /\ HeartbeatTimeout <= Global

VARIABLES
  now,
  status, deadline,  \* of the action, as the group has them
  count,        \* HeartbeatCount of the Event
  due,          \* when startCheck fires, or fired
  check,        \* the loop: "wait" for startCheck, "run" until stopCheck, "end"
  beat,         \* stopHeartbeat: "none", or the request "sent" and its answers
  result

vars == <<now, status, deadline, count, due, check, beat, result>>

TypeOK ==
  /\ now \in Nat /\ deadline \in Nat /\ due \in Nat
  /\ count \in Nat
  /\ status \in {"active", "expired"}
  /\ check \in {"enter", "wait", "run", "end"}
  /\ beat \in {"none", "sent", "recorded", "rejected"}
  /\ result \in {"none", "passed", "expired", "rejected", "error"}

AtMostGlobal(t) == IF t < Global THEN t ELSE Global

\* (mutant) The first period is counted twice.
EventTimeoutOfTwo(c) == AtMostGlobal((c + 2) * HeartbeatTimeout)

\* The timeout of an Event with HeartbeatCount c.
EventTimeout(c) == AtMostGlobal((c + 1) * HeartbeatTimeout)

\* When the check of an Event with HeartbeatCount c starts.
CheckAt(c) == EventTimeout(c) - CommBuffer

\* The message comes some time after the last heartbeat it knows of, which the group
\* recorded once a check had failed and before the next one was due.
Init ==
  /\ count \in 0..MaxCount
  /\ now \in 0..Global
  /\ \/ count = 0 /\ deadline = HeartbeatTimeout
     \/ /\ count > 0
        /\ \E last \in CheckAt(count - 1)..(CheckAt(count - 1) + Lag) :
             /\ last <= now /\ last < CheckAt(count)
             /\ deadline = AtMostGlobal(last + HeartbeatTimeout)
  /\ status = "active" /\ now <= deadline
  /\ due = now /\ check = "enter" /\ beat = "none" /\ result = "none"

-----------------------------------------------------------------------------

\* The group: nobody extended the action in time.
Expire ==
  /\ status = "active" /\ now >= deadline
  /\ status' = "expired"
  /\ UNCHANGED <<now, deadline, count, due, check, beat, result>>

End(r) ==
  /\ check' = "end" /\ result' = r
  /\ UNCHANGED due

\* The timer is set, unless it would be due already.
Schedule(c) ==
  IF CheckAt(c) <= now THEN End("expired")
    ELSE check' = "wait" /\ due' = CheckAt(c) /\ UNCHANGED result

Enter ==
  /\ check = "enter"
  /\ Schedule(count)
  /\ UNCHANGED <<now, status, deadline, count, beat>>

StartCheck ==
  /\ check = "wait" /\ now >= due
  /\ check' = "run"
  /\ UNCHANGED <<now, status, deadline, count, due, beat, result>>

CheckPasses ==
  /\ check = "run"
  /\ End("passed")
  /\ UNCHANGED <<now, status, deadline, count, beat>>

\* The next check is scheduled, then the heartbeat recorded.
CheckFails ==
  /\ check = "run"
  /\ count' = count + 1
  /\ Schedule(count + 1)
  /\ beat' = IF check' = "wait" THEN "sent" ELSE beat
  /\ UNCHANGED <<now, status, deadline>>

\* It starts the period of an active action anew, up to the global timeout.
AnswerHeartbeat ==
  /\ beat = "sent"
  /\ IF status = "active"
       THEN beat' = "recorded" /\ deadline' = AtMostGlobal(now + HeartbeatTimeout)
       ELSE beat' = "rejected" /\ UNCHANGED deadline
  /\ UNCHANGED <<now, status, count, due, check, result>>

\* The goroutine of a rejected heartbeat takes the count back.
StopHeartbeat ==
  /\ check # "end" /\ beat \in {"recorded", "rejected"}
  /\ beat' = "none"
  /\ IF beat = "recorded" THEN UNCHANGED <<count, due, check, result>>
       ELSE count' = count - 1 /\ End("rejected")
  /\ UNCHANGED <<now, status, deadline>>

\* A request fails, or the context is cancelled.
Fails ==
  /\ check \in {"wait", "run"}
  /\ End("error")
  /\ UNCHANGED <<now, status, deadline, count, beat>>

\* A check and the heartbeat after it take no longer than Lag.
Tick ==
  /\ check \in {"wait", "run"} /\ now < Global
  /\ status = "active" => now < deadline
  /\ check = "run" => now < due + Lag
  /\ beat # "none" => now < CheckAt(count - 1) + Lag
  /\ check = "wait" => now < due
  /\ now' = now + 1
  /\ UNCHANGED <<status, deadline, count, due, check, beat, result>>

Next ==
  \/ Expire \/ Enter \/ StartCheck \/ CheckPasses \/ CheckFails
  \/ AnswerHeartbeat \/ StopHeartbeat \/ Fails \/ Tick

Spec == Init /\ [][Next]_vars

-----------------------------------------------------------------------------

\* "KeepAlive keeps a lifecycle event in the Transition:Wait state as long as
\* condition c returns false" (lifecycle.go:144), as far as it does: the first period
\* does not end before the heartbeat that extends it is recorded, nor any period after
\* a recorded heartbeat before the next check starts.  Not so during that check: the
\* group's period ends about when it starts, although its timeout is said to be
\* CommBuffer away, and the heartbeat after it may be rejected.
KeptUntilCheck ==
  /\ check = "wait" /\ now < due /\ beat \in {"none", "recorded"} => status = "active"
  /\ check \in {"wait", "run"} /\ count = 0 => status = "active"
  /\ result = "rejected" => count > 0
=============================================================================
