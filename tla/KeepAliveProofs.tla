-------------------------- MODULE KeepAliveProofs --------------------------
(***************************************************************************)
(* How long KeepAlive keeps its action from expiring, for any timeouts,    *)
(* any buffer and any number of heartbeats, as long as the buffer is       *)
(* longer than a check and a heartbeat take (CommBufferCovers).            *)
(***************************************************************************)
EXTENDS KeepAlive, TLAPS

\* A period more moves the check by a period, up to the global timeout.
LEMMA Checks ==
  ASSUME CommBufferCovers, NEW c \in Nat
  PROVE  /\ CheckAt(c) \in Int /\ CheckAt(c) <= Global - CommBuffer
         /\ CheckAt(0) = HeartbeatTimeout - CommBuffer
         /\ \/ CheckAt(c + 1) = CheckAt(c) + HeartbeatTimeout
            \/ CheckAt(c + 1) = Global - CommBuffer
         /\ CheckAt(c + 1) <= CheckAt(c) + HeartbeatTimeout
         /\ CheckAt(c) = Global - CommBuffer => CheckAt(c + 1) = CheckAt(c)
<1>. HeartbeatTimeout \in Nat /\ Global \in Nat /\ CommBuffer \in Nat /\ HeartbeatTimeout <= Global
  BY DEF CommBufferCovers
<1>1. c * HeartbeatTimeout \in Nat /\ (0 + 1) * HeartbeatTimeout = HeartbeatTimeout
  OBVIOUS
<1>2. /\ (c + 1) * HeartbeatTimeout = c * HeartbeatTimeout + HeartbeatTimeout
      /\ (c + 1 + 1) * HeartbeatTimeout = c * HeartbeatTimeout + HeartbeatTimeout + HeartbeatTimeout
  OBVIOUS
<1>. QED
  BY <1>1, <1>2 DEF CheckAt, EventTimeout, AtMostGlobal

-----------------------------------------------------------------------------
(* The inductive invariant.                                                *)

\* The group's period does not end before the next check starts, unless the heartbeat
\* that extends it is under way.
DeadlineCovers ==
  check # "end" /\ beat \in {"none", "recorded"} => deadline >= CheckAt(count)

\* The first period is the whole of the timeout until the first heartbeat is recorded,
\* and nothing is under way before the first check.
FirstPeriod ==
  check # "end" =>
    /\ count = 0 => deadline = HeartbeatTimeout /\ beat = "none"
    /\ count = 1 => beat # "rejected" /\ (beat = "sent" => deadline = HeartbeatTimeout)

\* An action expires only at its deadline, and is not extended then.
ExpiresAtDeadline == status = "expired" => now >= deadline

\* When KeepAlive is called no heartbeat is under way.
Entering == check = "enter" => beat = "none"

\* The timer is set for the check of the count.
CheckInTime ==
  /\ check \in {"wait", "run"} => due = CheckAt(count) /\ now <= due + Lag
  /\ check = "wait" => now <= due
  /\ check = "run" => now >= due

\* The heartbeat under way follows the check before.
BeatInTime ==
  check \in {"wait", "run"} /\ beat # "none"
    => count > 0 /\ CheckAt(count - 1) <= now /\ now <= CheckAt(count - 1) + Lag

\* The first heartbeat is not rejected.
FirstRecorded == result = "rejected" => count > 0

IInv ==
  /\ TypeOK
  /\ DeadlineCovers
  /\ FirstPeriod
  /\ ExpiresAtDeadline
  /\ Entering
  /\ CheckInTime
  /\ BeatInTime
  /\ FirstRecorded

LEMMA InitIInv == CommBufferCovers /\ Init => IInv
<1>. SUFFICES ASSUME CommBufferCovers, Init PROVE IInv
  OBVIOUS
<1>0. /\ count \in Nat /\ now \in Nat /\ HeartbeatTimeout \in Nat /\ Global \in Nat
      /\ CommBuffer \in Nat /\ Lag \in Nat
  BY DEF CommBufferCovers, Init
<1>1. deadline \in Nat /\ deadline >= CheckAt(count)
  <2>1. CASE count = 0
    BY <1>0, <2>1, Checks DEF Init
  <2>2. CASE count > 0
    <3>1. PICK last \in CheckAt(count - 1)..(CheckAt(count - 1) + Lag) :
            last <= now /\ last < CheckAt(count) /\ deadline = AtMostGlobal(last + HeartbeatTimeout)
      BY <2>2 DEF Init
    <3>2. count - 1 \in Nat /\ (count - 1) + 1 = count
      BY <1>0, <2>2
    <3>3. /\ CheckAt(count - 1) \in Int /\ CheckAt(count) \in Int
          /\ CheckAt(count) <= CheckAt(count - 1) + HeartbeatTimeout
          /\ CheckAt(count) <= Global - CommBuffer
      BY <1>0, <3>2, Checks
    <3>4. CheckAt(count - 1) >= 0
      <4>. (count - 1) * HeartbeatTimeout \in Nat
        BY <1>0, <3>2
      <4>. ((count - 1) + 1) * HeartbeatTimeout = (count - 1) * HeartbeatTimeout + HeartbeatTimeout
        BY <1>0, <3>2
      <4>. QED
        BY <1>0 DEF CheckAt, EventTimeout, AtMostGlobal, CommBufferCovers
    <3>. QED
      BY <1>0, <3>1, <3>3, <3>4 DEF AtMostGlobal
  <2>. QED
    BY <1>0, <2>1, <2>2
<1>. QED
  BY <1>0, <1>1 DEF Init, IInv, TypeOK, DeadlineCovers, FirstPeriod, ExpiresAtDeadline, Entering,
                    CheckInTime, BeatInTime, FirstRecorded

\* Setting the timer for c heartbeats, or giving up.
LEMMA ScheduleInTime ==
  ASSUME CommBufferCovers, IInv, NEW c \in Nat, Schedule(c)
  PROVE  \/ check' = "end" /\ result' = "expired" /\ due' = due /\ CheckAt(c) <= now
         \/ /\ check' = "wait" /\ result' = result /\ due' \in Nat
            /\ due' = CheckAt(c) /\ now < due'
<1>1. CheckAt(c) \in Int /\ now \in Nat
  BY Checks DEF IInv, TypeOK
<1>. QED
  BY <1>1 DEF Schedule, End

\* A recorded heartbeat covers the time until the next check.
LEMMA AnswerIInv ==
  ASSUME CommBufferCovers, IInv, AnswerHeartbeat
  PROVE  IInv'
<1>0. /\ HeartbeatTimeout \in Nat /\ Global \in Nat /\ CommBuffer \in Nat /\ Lag \in Nat
      /\ Lag < CommBuffer /\ TypeOK /\ count \in Nat /\ now \in Nat /\ deadline \in Nat
  BY DEF CommBufferCovers, IInv, TypeOK
<1>1. deadline' \in Nat /\ beat' \in {"recorded", "rejected"}
  BY <1>0 DEF AnswerHeartbeat, AtMostGlobal
<1>2. TypeOK'
  BY <1>1 DEF AnswerHeartbeat, IInv, TypeOK
<1>3. check # "enter"
  BY DEF AnswerHeartbeat, IInv, Entering
<1>4. CASE check = "end"
  BY <1>2, <1>4 DEF AnswerHeartbeat, IInv, TypeOK, DeadlineCovers, FirstPeriod,
                    ExpiresAtDeadline, Entering, CheckInTime, BeatInTime, FirstRecorded
<1>5. CASE check \in {"wait", "run"}
  <2>1. count > 0 /\ CheckAt(count - 1) <= now /\ now <= CheckAt(count - 1) + Lag
    BY <1>5 DEF AnswerHeartbeat, IInv, BeatInTime
  <2>2. count - 1 \in Nat /\ (count - 1) + 1 = count
    BY <1>0, <2>1
  <2>3. /\ CheckAt(count - 1) \in Int /\ CheckAt(count) \in Int
        /\ CheckAt(count) <= CheckAt(count - 1) + HeartbeatTimeout
        /\ CheckAt(count) <= Global - CommBuffer
    BY <1>0, <2>2, Checks
  <2>4. beat' = "recorded" => deadline' >= CheckAt(count)
    BY <1>0, <2>1, <2>3 DEF AnswerHeartbeat, AtMostGlobal
  <2>5. count = 1 => beat' = "recorded"
    <3>. SUFFICES ASSUME count = 1 PROVE status = "active"
      BY DEF AnswerHeartbeat
    <3>1. now <= HeartbeatTimeout - CommBuffer + Lag
      BY <1>0, <2>1, Checks
    <3>2. deadline = HeartbeatTimeout
      BY <1>5 DEF AnswerHeartbeat, IInv, FirstPeriod
    <3>. QED
      BY <1>0, <3>1, <3>2 DEF IInv, TypeOK, ExpiresAtDeadline
  <2>6. ExpiresAtDeadline'
    BY DEF AnswerHeartbeat, IInv, ExpiresAtDeadline
  <2>7. DeadlineCovers' /\ FirstPeriod'
    BY <1>0, <1>1, <2>1, <2>4, <2>5 DEF AnswerHeartbeat, DeadlineCovers, FirstPeriod, CheckAt,
                                   EventTimeout, AtMostGlobal
  <2>8. CheckInTime' /\ BeatInTime' /\ Entering' /\ FirstRecorded'
    BY <1>5 DEF AnswerHeartbeat, IInv, Entering, CheckInTime, BeatInTime, FirstRecorded,
                CheckAt, EventTimeout, AtMostGlobal
  <2>. QED
    BY <1>2, <2>6, <2>7, <2>8 DEF IInv
<1>. QED
  BY <1>3, <1>4, <1>5 DEF IInv, TypeOK

\* A check fails: the next one is scheduled and the heartbeat sent, none being under way.
LEMMA CheckFailsIInv ==
  ASSUME CommBufferCovers, IInv, CheckFails
  PROVE  IInv'
<1>0. /\ HeartbeatTimeout \in Nat /\ Global \in Nat /\ CommBuffer \in Nat /\ Lag \in Nat
      /\ Lag < CommBuffer /\ CommBuffer < HeartbeatTimeout
      /\ TypeOK /\ count \in Nat /\ now \in Nat /\ deadline \in Nat
      /\ count + 1 \in Nat /\ (count + 1) - 1 = count
  BY DEF CommBufferCovers, IInv, TypeOK
<1>1. check = "run" /\ count' = count + 1 /\ Schedule(count + 1)
      /\ beat' = (IF check' = "wait" THEN "sent" ELSE beat)
      /\ UNCHANGED <<now, status, deadline>>
  BY DEF CheckFails
<1>2. CASE check' = "end"
  <2>1. result' = "expired" /\ due' = due
    BY <1>0, <1>1, <1>2, ScheduleInTime
  <2>. QED
    BY <1>0, <1>1, <1>2, <2>1 DEF IInv, TypeOK, DeadlineCovers, FirstPeriod, ExpiresAtDeadline,
                                 Entering, CheckInTime, BeatInTime, FirstRecorded
<1>3. CASE check' # "end"
  <2>1. /\ check' = "wait" /\ result' = result /\ due' \in Nat
        /\ due' = CheckAt(count + 1) /\ now < due'
    BY <1>0, <1>1, <1>3, ScheduleInTime
  <2>2. due = CheckAt(count) /\ due <= now /\ now <= due + Lag
    BY <1>1 DEF IInv, CheckInTime
  <2>3. count' = count + 1 /\ beat' = "sent"
    BY <1>1, <2>1
  <2>4. TypeOK'
    BY <1>0, <1>1, <2>1, <2>3 DEF IInv, TypeOK
  <2>5. count = 0 => deadline = HeartbeatTimeout
    BY <1>1 DEF IInv, FirstPeriod
  <2>6. DeadlineCovers' /\ FirstPeriod' /\ ExpiresAtDeadline' /\ Entering' /\ FirstRecorded'
    BY <1>0, <1>1, <2>1, <2>3, <2>5
    DEF IInv, DeadlineCovers, FirstPeriod, ExpiresAtDeadline, Entering, FirstRecorded
  <2>7. CheckAt(count') = CheckAt(count + 1) /\ CheckAt(count' - 1) = CheckAt(count)
    BY <1>0, <2>3 DEF CheckAt
  <2>8. CheckInTime' /\ BeatInTime'
    BY <1>0, <1>1, <2>1, <2>2, <2>3, <2>7 DEF CheckInTime, BeatInTime, CheckAt, EventTimeout,
                                             AtMostGlobal
  <2>. QED
    BY <2>4, <2>6, <2>8 DEF IInv
<1>. QED
  BY <1>2, <1>3

LEMMA NextIInv == CommBufferCovers /\ IInv /\ [Next]_vars => IInv'
<1>. SUFFICES ASSUME CommBufferCovers, IInv, [Next]_vars PROVE IInv'
  OBVIOUS
<1>. USE DEF IInv, TypeOK, DeadlineCovers, FirstPeriod, ExpiresAtDeadline, Entering, CheckInTime,
             BeatInTime, FirstRecorded
<1>0. /\ CommBuffer \in Nat /\ Lag \in Nat /\ Lag < CommBuffer /\ Global \in Nat
      /\ HeartbeatTimeout \in Nat
  BY DEF CommBufferCovers
<1>1. CheckAt(count) \in Int /\ CheckAt(0) = HeartbeatTimeout - CommBuffer
  BY Checks
<1>2. count > 0 => CheckAt(count - 1) \in Int
  BY Checks
<1>. HIDE DEF IInv
<1>. USE DEF CheckAt, EventTimeout, AtMostGlobal
<1>3. CASE Expire
  BY <1>3 DEF Expire, IInv
<1>4. CASE AnswerHeartbeat
  BY <1>4, AnswerIInv
<1>5. CASE CheckFails
  BY <1>5, CheckFailsIInv
<1>6. CASE StopHeartbeat
  BY <1>6 DEF StopHeartbeat, End, IInv
<1>7. CASE Enter
  <2>1. \/ check' = "end" /\ result' = "expired" /\ due' = due
        \/ /\ check' = "wait" /\ result' = result /\ due' \in Nat
           /\ due' = CheckAt(count) /\ now < due'
    BY <1>7, ScheduleInTime DEF Enter, IInv
  <2>. QED
    BY <1>0, <1>1, <1>7, <2>1 DEF Enter, IInv
<1>8. CASE StartCheck
  BY <1>0, <1>1, <1>8 DEF StartCheck, IInv
<1>9. CASE CheckPasses \/ Fails
  BY <1>9 DEF CheckPasses, Fails, End, IInv
<1>10. CASE Tick
  <2>. HIDE DEF CheckAt, EventTimeout, AtMostGlobal
  <2>1. CheckAt(count)' = CheckAt(count) /\ CheckAt(count - 1)' = CheckAt(count - 1)
    BY <1>10 DEF Tick, CheckAt, EventTimeout, AtMostGlobal
  <2>. QED
    BY <1>0, <1>1, <1>2, <1>10, <2>1 DEF Tick, IInv
<1>11. CASE UNCHANGED vars
  BY <1>11 DEF vars, IInv
<1>. QED
  BY <1>3, <1>4, <1>5, <1>6, <1>7, <1>8, <1>9, <1>10, <1>11 DEF Next

LEMMA SpecIInv == CommBufferCovers => (Spec => []IInv)
<1>. SUFFICES ASSUME CommBufferCovers PROVE Spec => []IInv
  OBVIOUS
<1>1. Init => IInv
  BY InitIInv
<1>2. IInv /\ [Next]_vars => IInv'
  BY NextIInv
<1>. QED
  BY <1>1, <1>2, PTL DEF Spec

-----------------------------------------------------------------------------
\* Every variable keeps its type: KeepAlive takes back no heartbeat it never counted.
THEOREM TypeCorrect == CommBufferCovers => (Spec => []TypeOK)
<1>1. IInv => TypeOK
  BY DEF IInv
<1>. QED
  BY <1>1, SpecIInv, PTL

\* An action that is active when the check starts stayed so since its last heartbeat.
LEMMA KeptFromIInv == CommBufferCovers /\ IInv => KeptUntilCheck
<1>. SUFFICES ASSUME CommBufferCovers, IInv PROVE KeptUntilCheck
  OBVIOUS
<1>0. /\ CommBuffer \in Nat /\ Lag \in Nat /\ Lag < CommBuffer /\ HeartbeatTimeout \in Nat
      /\ count \in Nat /\ now \in Nat /\ deadline \in Nat /\ due \in Nat
      /\ status \in {"active", "expired"}
  BY DEF CommBufferCovers, IInv, TypeOK
<1>1. CheckAt(count) \in Int /\ CheckAt(0) = HeartbeatTimeout - CommBuffer
  BY <1>0, Checks
<1>2. check = "wait" /\ now < due /\ beat \in {"none", "recorded"} => status = "active"
  BY <1>0, <1>1 DEF IInv, DeadlineCovers, CheckInTime, ExpiresAtDeadline
<1>3. check \in {"wait", "run"} /\ count = 0 => status = "active"
  BY <1>0, <1>1 DEF IInv, FirstPeriod, CheckInTime, ExpiresAtDeadline
<1>. QED
  BY <1>2, <1>3 DEF IInv, FirstRecorded, KeptUntilCheck

\* Whatever the timeouts and however many heartbeats there are, the action is active
\* from a recorded heartbeat until the next check starts, and for the whole of the
\* first check; the group does not reject the first heartbeat.
THEOREM KeptBetweenChecks == CommBufferCovers => (Spec => []KeptUntilCheck)
<1>. SUFFICES ASSUME CommBufferCovers PROVE Spec => []KeptUntilCheck
  OBVIOUS
<1>1. IInv => KeptUntilCheck
  BY KeptFromIInv
<1>2. Spec => []IInv
  BY SpecIInv
<1>. QED
  BY <1>1, <1>2, PTL
=============================================================================
