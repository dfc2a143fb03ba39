--------------------------- MODULE DispatcherProofs ---------------------------
(***************************************************************************)
(* Theorems about Dispatcher, for any limit of handlers, any timeouts that *)
(* cover the buffer, any finite number of messages and any number of       *)
(* faults: the limit holds, and no message has two handlers.               *)
(***************************************************************************)
EXTENDS Dispatcher, FiniteSetTheorems, TLAPS

DispatcherFits == CommBufferCovers /\ IsFiniteSet(Message)

\* What was ready before the last tick must be done before the next one.
Due(x) == IF x \in late THEN 1 ELSE 0

-----------------------------------------------------------------------------
(* The inductive invariant: one receipt, then the counts.                  *)

\* A message whose visibility is changed, or that is handled, was received once.
FirstOnly(r) == r[2] # 1 => Idle(r) /\ r \notin pending /\ r \notin results

\* Results wait for the loop one tick at most.
Received(r) ==
  r \in results => Idle(r) /\ hidden[MsgOf(r)] >= Initial - Due(<<"receive", "back">>)

\* What goes on for a receipt at each stage.
Staged(r) ==
  /\ stage[r] \in {"run", "done"} => r \in pending /\ notifier[r] # "none"
  /\ stage[r] \in {"none", "delete"} => notifier[r] = "none"
  /\ stage[r] = "none" /\ update[r] # "none" => MsgOf(r) \notin queue

\* The next notice comes before the timeout, and after the request of the last is over.
Timed(r) ==
  /\ notifier[r] = "sleep" => timer[r] <= period[r] - Buffer
  /\ notifier[r] # "none" => period[r] >= Initial
  /\ update[r] = "ask" => period[r] > Buffer + 2
  /\ update[r] # "none" => notifier[r] # "offer"
  /\ update[r] = "ask" /\ notifier[r] = "sleep" => timer[r] >= 3 - Due(<<"ask", r>>)
  /\ update[r] = "error" /\ notifier[r] = "sleep" => timer[r] >= 2 - Due(<<"error", r>>)

\* How long a message stays hidden at least, by what its goroutines wait for.
Margin(r) ==
  /\ update[r] = "error" => hidden[MsgOf(r)] >= Buffer - 3 - Due(<<"error", r>>)
  /\ update[r] = "ask" => hidden[MsgOf(r)] >= Buffer - 2 - Due(<<"ask", r>>)
  /\ update[r] = "none" /\ notifier[r] = "sleep" /\ timer[r] > 0
       => hidden[MsgOf(r)] >= timer[r] + Buffer - 1
  /\ update[r] = "none" /\ notifier[r] = "sleep" /\ timer[r] = 0
       => hidden[MsgOf(r)] >= Buffer - 1 - Due(<<"notice", r>>)
  /\ update[r] = "none" /\ notifier[r] = "offer"
       => hidden[MsgOf(r)] >= Buffer - 1 - Due(<<"notice", r>>)
  /\ update[r] = "none" /\ notifier[r] = "none" /\ stage[r] = "delete"
       => hidden[MsgOf(r)] >= Buffer - 2 - Due(<<"delete", r>>)
  /\ update[r] = "none" /\ notifier[r] = "none" /\ stage[r] = "error"
       => hidden[MsgOf(r)] >= Buffer - 3 - Due(<<"error", r>>)

Reserved(r) == MsgOf(r) \in queue => Margin(r)

OneInv(r) ==
  /\ FirstOnly(r) /\ Received(r)
  /\ run = "loop" => Staged(r) /\ Timed(r) /\ Reserved(r)

ReceiptInv == \A r \in Receipt : OneInv(r)

\* The handlers there are, and those the request under way may add.
Counts ==
  /\ run # "panicked"
  /\ recv # "back" => results = {}
  /\ recv \in {"out", "back"} => asked >= 1
  /\ recv = "back" => Cardinality(results) <= asked
  /\ Limit # 0 =>
       /\ Cardinality(pending) <= Limit
       /\ recv = "on" => Cardinality(pending) < Limit
       /\ recv \in {"out", "back"} => Cardinality(pending) + asked <= Limit

IInv == TypeOK /\ ReceiptInv /\ Counts

-----------------------------------------------------------------------------
(* Facts about the parameters and the operators.                           *)

LEMMA Parameters ==
  ASSUME DispatcherFits
  PROVE  /\ Limit \in Nat /\ MaxMessages \in Nat /\ MaxMessages > 0 /\ MaxFaults \in Nat
         /\ Buffer \in Nat /\ Buffer > 4 /\ Initial \in Nat /\ Initial > Buffer
         /\ Longest \in Nat /\ Longest >= Initial /\ Longest > Buffer + 2
         /\ Initial + Initial \div 2 > Buffer + 2
BY DEF DispatcherFits, CommBufferCovers

LEMMA HalfGrows ==
  ASSUME NEW p \in Nat, NEW q \in Nat, p <= q
  PROVE  p \div 2 \in Nat /\ p \div 2 <= q \div 2
OBVIOUS

\* An interval never shrinks below the first, and leaves time for a request.
LEMMA NextPeriodFits ==
  ASSUME DispatcherFits, NEW p \in 0..Longest
  PROVE  /\ NextPeriod(p) \in 0..Longest
         /\ p >= Initial => NextPeriod(p) >= Initial /\ NextPeriod(p) > Buffer + 2
<1>1. p \in Nat /\ p \div 2 \in Nat
  BY Parameters, HalfGrows
<1>2. NextPeriod(p) \in 0..Longest
  BY <1>1, Parameters DEF NextPeriod
<1>3. ASSUME p >= Initial
      PROVE  NextPeriod(p) >= Initial /\ NextPeriod(p) > Buffer + 2
  <2>1. Initial \div 2 <= p \div 2 /\ Initial \div 2 \in Nat
    BY <1>1, <1>3, Parameters, HalfGrows
  <2>2. p + p \div 2 >= Initial /\ p + p \div 2 > Buffer + 2
    BY <1>1, <1>3, <2>1, Parameters
  <2>. QED
    BY <2>2, Parameters DEF NextPeriod
<1>. QED
  BY <1>2, <1>3

LEMMA ReceiptsAre ==
  ASSUME DispatcherFits
  PROVE  /\ IsFiniteSet(Receipt)
         /\ \A r \in Receipt : MsgOf(r) \in Message /\ r[2] \in {1, 2} /\ r = <<MsgOf(r), r[2]>>
         /\ \A m \in Message : <<m, 1>> \in Receipt /\ <<m, 2>> \in Receipt
<1>1. IsFiniteSet({1, 2})
  <2>1. IsFiniteSet({1}) /\ {1, 2} = {1} \cup {2}
    BY FS_Singleton
  <2>. QED
    BY <2>1, FS_AddElement
<1>. QED
  BY <1>1, FS_Product DEF DispatcherFits, Receipt, MsgOf

\* Two receipts of a message, of which one may be in use.
LEMMA FirstIs ==
  ASSUME DispatcherFits, NEW r \in Receipt, NEW q \in Receipt, r # q, MsgOf(q) = MsgOf(r),
         r[2] = 1
  PROVE  q[2] # 1
BY ReceiptsAre

\* What a tick makes due, and what stays so until it is done.
LEMMA ReadyHas ==
  /\ recv = "back" => <<"receive", "back">> \in Ready
  /\ \A r \in Receipt :
       /\ notifier[r] = "offer" => <<"notice", r>> \in Ready
       /\ notifier[r] = "sleep" /\ timer[r] = 0 => <<"notice", r>> \in Ready
       /\ update[r] = "ask" => <<"ask", r>> \in Ready
       /\ update[r] = "error" => <<"error", r>> \in Ready
       /\ stage[r] = "delete" => <<"delete", r>> \in Ready
       /\ stage[r] = "error" => <<"error", r>> \in Ready
BY DEF Ready

LEMMA ReadyHasNext ==
  /\ recv' = "back" => <<"receive", "back">> \in Ready'
  /\ \A r \in Receipt :
       /\ notifier'[r] = "offer" => <<"notice", r>> \in Ready'
       /\ notifier'[r] = "sleep" /\ timer'[r] = 0 => <<"notice", r>> \in Ready'
       /\ update'[r] = "ask" => <<"ask", r>> \in Ready'
       /\ update'[r] = "error" => <<"error", r>> \in Ready'
       /\ stage'[r] = "delete" => <<"delete", r>> \in Ready'
       /\ stage'[r] = "error" => <<"error", r>> \in Ready'
BY DEF Ready

LEMMA DueStays ==
  ASSUME late' = late \cap Ready'
  PROVE  /\ recv' = "back" => Due(<<"receive", "back">>)' = Due(<<"receive", "back">>)
         /\ \A r \in Receipt :
              /\ notifier'[r] = "offer" => Due(<<"notice", r>>)' = Due(<<"notice", r>>)
              /\ notifier'[r] = "sleep" /\ timer'[r] = 0
                   => Due(<<"notice", r>>)' = Due(<<"notice", r>>)
              /\ update'[r] = "ask" => Due(<<"ask", r>>)' = Due(<<"ask", r>>)
              /\ update'[r] = "error" => Due(<<"error", r>>)' = Due(<<"error", r>>)
              /\ stage'[r] = "delete" => Due(<<"delete", r>>)' = Due(<<"delete", r>>)
              /\ stage'[r] = "error" => Due(<<"error", r>>)' = Due(<<"error", r>>)
BY ReadyHasNext DEF Due

LEMMA DueIs == \A x : Due(x) \in {0, 1}
BY DEF Due

-----------------------------------------------------------------------------
(* Receipts, one at a time.                                                *)

\* Nothing is asked of a receipt of which nothing is left.
LEMMA IdleOne ==
  ASSUME NEW q \in Receipt, Idle(q)', q \notin results', q[2] = 1 \/ q \notin pending'
  PROVE  OneInv(q)'
BY DEF OneInv, FirstOnly, Received, Staged, Timed, Reserved, Margin, Idle

\* A receipt that a step leaves alone keeps what was true of it.
LEMMA OneStays ==
  ASSUME NEW q \in Receipt, OneInv(q), Counts, late' = late \cap Ready',
         stage'[q] = stage[q], notifier'[q] = notifier[q], timer'[q] = timer[q],
         period'[q] = period[q], update'[q] = update[q],
         q \in pending' <=> q \in pending, q \in results' => q \in results /\ recv' = recv,
         run' = "loop" => run = "loop", queue' \subseteq queue,
         hidden'[MsgOf(q)] = hidden[MsgOf(q)]
  PROVE  OneInv(q)'
<1>1. /\ notifier[q] = "offer" => Due(<<"notice", q>>)' = Due(<<"notice", q>>)
      /\ notifier[q] = "sleep" /\ timer[q] = 0 => Due(<<"notice", q>>)' = Due(<<"notice", q>>)
      /\ update[q] = "ask" => Due(<<"ask", q>>)' = Due(<<"ask", q>>)
      /\ update[q] = "error" => Due(<<"error", q>>)' = Due(<<"error", q>>)
      /\ stage[q] = "delete" => Due(<<"delete", q>>)' = Due(<<"delete", q>>)
      /\ stage[q] = "error" => Due(<<"error", q>>)' = Due(<<"error", q>>)
      /\ recv' = "back" => Due(<<"receive", "back">>)' = Due(<<"receive", "back">>)
  BY DueStays
<1>2. MsgOf(q)' = MsgOf(q)
  BY DEF MsgOf
<1>3. FirstOnly(q)'
  BY DEF OneInv, FirstOnly, Idle
<1>4. Received(q)'
  <2>1. q \in results' => recv' = "back" /\ recv = "back"
    BY DEF Counts
  <2>. QED
    BY <1>1, <1>2, <2>1 DEF OneInv, Received, Idle
<1>5. ASSUME run' = "loop"
      PROVE  Staged(q)' /\ Timed(q)' /\ Reserved(q)'
  <2>1. Staged(q) /\ Timed(q) /\ Reserved(q)
    BY <1>5 DEF OneInv
  <2>2. Staged(q)'
    BY <1>2, <2>1 DEF Staged
  <2>3. Timed(q)'
    BY <1>1, <2>1 DEF Timed
  <2>4. Reserved(q)'
    BY <1>1, <1>2, <2>1 DEF Reserved, Margin
  <2>. QED
    BY <2>2, <2>3, <2>4
<1>. QED
  BY <1>3, <1>4, <1>5 DEF OneInv

\* A step about one receipt: its twin is idle and the others are left alone.
LEMMA OneMoves ==
  ASSUME DispatcherFits, ReceiptInv, Counts, NEW r \in Receipt, r[2] = 1,
         late' = late \cap Ready',
         \A q \in Receipt \ {r} :
           /\ stage'[q] = stage[q] /\ notifier'[q] = notifier[q] /\ timer'[q] = timer[q]
           /\ period'[q] = period[q] /\ update'[q] = update[q]
           /\ q \in pending' <=> q \in pending,
         results' = results, results # {} => recv' = recv,
         run' = "loop" => run = "loop", queue' \subseteq queue,
         \A m \in Message \ {MsgOf(r)} : hidden'[m] = hidden[m],
         OneInv(r)'
  PROVE  ReceiptInv'
<1>1. ASSUME NEW q \in Receipt \ {r}
      PROVE  OneInv(q)'
  <2>1. OneInv(q) /\ q \in Receipt
    BY DEF ReceiptInv
  <2>2. CASE MsgOf(q) = MsgOf(r)
    <3>1. q[2] # 1
      BY <2>2, FirstIs
    <3>2. Idle(q) /\ q \notin pending /\ q \notin results
      BY <2>1, <3>1 DEF OneInv, FirstOnly
    <3>3. Idle(q)' /\ q \notin pending' /\ q \notin results'
      BY <3>2 DEF Idle
    <3>. QED
      BY <3>3, IdleOne
  <2>3. CASE MsgOf(q) # MsgOf(r)
    <3>1. hidden'[MsgOf(q)] = hidden[MsgOf(q)]
      BY <2>3, ReceiptsAre
    <3>. QED
      BY <2>1, <3>1, OneStays
  <2>. QED
    BY <2>2, <2>3
<1>. QED
  BY <1>1 DEF ReceiptInv

\* The numbers about a receipt.
LEMMA Numbers ==
  ASSUME DispatcherFits, TypeOK, NEW r \in Receipt
  PROVE  /\ MsgOf(r) \in Message /\ hidden[MsgOf(r)] \in Nat /\ hidden[MsgOf(r)] <= Longest
         /\ timer[r] \in Nat /\ timer[r] <= Longest /\ period[r] \in 0..Longest
         /\ period[r] \in Nat /\ Buffer \in Nat /\ Buffer > 4 /\ Longest \in Nat
         /\ Due(<<"ask", r>>) \in {0, 1} /\ Due(<<"error", r>>) \in {0, 1}
         /\ Due(<<"notice", r>>) \in {0, 1} /\ Due(<<"delete", r>>) \in {0, 1}
         /\ Due(<<"receive", "back">>) \in {0, 1}
<1>1. MsgOf(r) \in Message
  BY ReceiptsAre
<1>2. hidden[MsgOf(r)] \in 0..Longest /\ timer[r] \in 0..Longest /\ period[r] \in 0..Longest
  BY <1>1 DEF TypeOK
<1>. QED
  BY <1>1, <1>2, Parameters, DueIs

\* A message of which a receipt is in use cannot be received: it is hidden for another
\* tick at least, or deleted.
LEMMA InUseIsHidden ==
  ASSUME DispatcherFits, IInv, run = "loop", NEW r \in Receipt, ~Idle(r), MsgOf(r) \in queue
  PROVE  hidden[MsgOf(r)] > 0
<1>1. OneInv(r) /\ Staged(r) /\ Timed(r) /\ Margin(r)
  BY DEF IInv, ReceiptInv, OneInv, Reserved
<1>2. /\ update[r] \in {"none", "ask", "error"} /\ notifier[r] \in {"none", "sleep", "offer"}
      /\ stage[r] \in {"none", "run", "done", "delete", "error"}
  BY DEF IInv, TypeOK
<1>. QED
  BY <1>1, <1>2, Numbers DEF IInv, Idle, Staged, Timed, Margin

\* The receipt that is in use is the first.
LEMMA InUseIsFirst ==
  ASSUME IInv, NEW r \in Receipt, ~Idle(r) \/ r \in pending \/ r \in results
  PROVE  r[2] = 1
BY DEF IInv, ReceiptInv, OneInv, FirstOnly

\* What a step about one receipt leaves to show.
LEMMA ActingOne ==
  ASSUME DispatcherFits, IInv, NEW r \in Receipt, ~Idle(r), results' = results,
         run' = "loop" => Staged(r)' /\ Timed(r)' /\ Reserved(r)'
  PROVE  OneInv(r)'
<1>1. r[2] = 1 /\ r \notin results
  BY InUseIsFirst DEF IInv, ReceiptInv, OneInv, Received
<1>. QED
  BY <1>1 DEF OneInv, FirstOnly, Received

LEMMA TimerFiresOne ==
  ASSUME DispatcherFits, IInv, NEW r \in Receipt, TimerFires(r), late' = late \cap Ready'
  PROVE  OneInv(r)'
<1>1. /\ notifier[r] = "sleep" /\ timer[r] = 0 /\ notifier'[r] = "offer"
      /\ UNCHANGED <<queue, hidden, run, results, pending, stage, timer, period, update>>
  BY DEF TimerFires, IInv, TypeOK, sqs, receive
<1>2. ASSUME run = "loop"
      PROVE  Staged(r)' /\ Timed(r)' /\ Reserved(r)'
  <2>1. Staged(r) /\ Timed(r) /\ Reserved(r)
    BY <1>2 DEF IInv, ReceiptInv, OneInv
  <2>2. update[r] = "none"
    <3>1. update[r] \in {"none", "ask", "error"}
      BY DEF IInv, TypeOK
    <3>2. Due(<<"ask", r>>) \in {0, 1} /\ Due(<<"error", r>>) \in {0, 1}
      BY DueIs
    <3>. QED
      BY <1>1, <2>1, <3>1, <3>2 DEF Timed
  <2>3. Due(<<"notice", r>>)' = Due(<<"notice", r>>) /\ MsgOf(r)' = MsgOf(r)
    BY <1>1, DueStays DEF MsgOf
  <2>. QED
    BY <1>1, <2>1, <2>2, <2>3 DEF Staged, Timed, Reserved, Margin
<1>. QED
  BY <1>1, <1>2, ActingOne DEF Idle

LEMMA TakeNoticeOne ==
  ASSUME DispatcherFits, IInv, NEW r \in Receipt, TakeNotice(r), late' = late \cap Ready'
  PROVE  OneInv(r)'
<1>1. /\ notifier[r] = "offer" /\ notifier'[r] = "sleep" /\ run = "loop"
      /\ period'[r] = NextPeriod(period[r]) /\ timer'[r] = NextPeriod(period[r]) - Buffer
      /\ update'[r] = "ask"
      /\ UNCHANGED <<queue, hidden, run, results, pending, stage>>
  BY DEF TakeNotice, IInv, TypeOK, sqs, receive
<1>2. Staged(r) /\ Timed(r) /\ Reserved(r) /\ update[r] = "none"
  BY <1>1 DEF IInv, ReceiptInv, OneInv, Timed
<1>3. NextPeriod(period[r]) >= Initial /\ NextPeriod(period[r]) > Buffer + 2
      /\ NextPeriod(period[r]) \in 0..Longest
  <2>1. period[r] \in 0..Longest /\ period[r] >= Initial
    BY <1>1, <1>2 DEF IInv, TypeOK, Timed
  <2>. QED
    BY <2>1, NextPeriodFits
<1>4. Due(<<"ask", r>>)' \in {0, 1} /\ MsgOf(r)' = MsgOf(r)
  BY DEF Due, MsgOf
<1>5. Staged(r)' /\ Timed(r)'
  <2>1. Staged(r)'
    BY <1>1, <1>2, <1>4 DEF Staged
  <2>2. timer'[r] >= 3 /\ timer'[r] <= period'[r] - Buffer /\ period'[r] > Buffer + 2
        /\ period'[r] >= Initial /\ timer'[r] \in Int
    BY <1>1, <1>3, Parameters
  <2>3. Timed(r)'
    BY <1>1, <1>4, <2>2 DEF Timed
  <2>. QED
    BY <2>1, <2>3
<1>6. Reserved(r)'
  <2>1. Due(<<"notice", r>>) \in {0, 1} /\ hidden[MsgOf(r)] \in Nat /\ Buffer \in Nat
    BY Numbers DEF IInv
  <2>2. MsgOf(r) \in queue => hidden[MsgOf(r)] >= Buffer - 2
    BY <1>1, <1>2, <2>1 DEF Reserved, Margin
  <2>. QED
    BY <1>1, <1>4, <2>1, <2>2 DEF Reserved, Margin
<1>. QED
  BY <1>1, <1>5, <1>6, ActingOne DEF Idle

LEMMA UpdateOne ==
  ASSUME DispatcherFits, IInv, NEW r \in Receipt, AnswerUpdate(r) \/ UpdateFails(r),
         late' = late \cap Ready'
  PROVE  OneInv(r)'
<1>0. MsgOf(r) \in Message /\ MsgOf(r)' = MsgOf(r)
  BY Numbers DEF IInv, MsgOf
<1>1. /\ update[r] = "ask" /\ run = "loop"
      /\ UNCHANGED <<queue, run, results, pending, stage, notifier, timer, period>>
      /\ \/ update'[r] = "none" /\ hidden'[MsgOf(r)] = period[r]
         \/ update'[r] = "error" /\ hidden' = hidden
         \/ update'[r] = "error" /\ ~(MsgOf(r) \in queue /\ hidden[MsgOf(r)] > 0)
  BY <1>0 DEF AnswerUpdate, UpdateFails, Hide, IInv, TypeOK, sqs, receive, watch
<1>2. Staged(r) /\ Timed(r) /\ Reserved(r)
  BY <1>1 DEF IInv, ReceiptInv, OneInv
<1>3. /\ Due(<<"ask", r>>)' \in {0, 1} /\ Due(<<"error", r>>)' \in {0, 1}
      /\ Due(<<"notice", r>>)' \in {0, 1} /\ Due(<<"delete", r>>)' \in {0, 1}
  BY DEF Due
<1>4. MsgOf(r) \in queue => hidden[MsgOf(r)] > 0
  BY <1>1, InUseIsHidden DEF Idle
<1>5. Staged(r)' /\ Timed(r)'
  BY <1>0, <1>1, <1>2, <1>3, Numbers DEF IInv, Staged, Timed
<1>6. Reserved(r)'
  <2>1. CASE update'[r] = "none" /\ hidden'[MsgOf(r)] = period[r]
    BY <1>0, <1>1, <1>2, <1>3, <2>1, Numbers DEF IInv, Timed, Reserved, Margin
  <2>2. CASE update'[r] = "error" /\ hidden' = hidden
    BY <1>0, <1>1, <1>2, <1>3, <2>2, Numbers DEF IInv, Reserved, Margin
  <2>. QED
    BY <1>0, <1>1, <1>4, <2>1, <2>2 DEF Reserved
<1>. QED
  BY <1>1, <1>5, <1>6, ActingOne DEF Idle

LEMMA HandlerReturnsOne ==
  ASSUME DispatcherFits, IInv, NEW r \in Receipt, HandlerReturns(r), late' = late \cap Ready'
  PROVE  OneInv(r)'
<1>1. /\ stage[r] = "run" /\ stage'[r] \in {"done", "error"} /\ run = "loop"
      /\ UNCHANGED <<queue, hidden, run, results, pending, notifier, timer, period, update>>
  BY DEF HandlerReturns, IInv, TypeOK, sqs, receive, watch
<1>2. Staged(r) /\ Timed(r) /\ Reserved(r) /\ notifier[r] # "none"
  BY <1>1 DEF IInv, ReceiptInv, OneInv, Staged
<1>3. /\ MsgOf(r)' = MsgOf(r)
      /\ notifier[r] = "offer" => Due(<<"notice", r>>)' = Due(<<"notice", r>>)
      /\ notifier[r] = "sleep" /\ timer[r] = 0 => Due(<<"notice", r>>)' = Due(<<"notice", r>>)
      /\ update[r] = "ask" => Due(<<"ask", r>>)' = Due(<<"ask", r>>)
      /\ update[r] = "error" => Due(<<"error", r>>)' = Due(<<"error", r>>)
  BY <1>1, DueStays DEF MsgOf
<1>4. Staged(r)' /\ Timed(r)'
  BY <1>1, <1>2, <1>3 DEF Staged, Timed
<1>5. Reserved(r)'
  BY <1>1, <1>2, <1>3 DEF Reserved, Margin
<1>. QED
  BY <1>1, <1>4, <1>5, ActingOne DEF Idle

LEMMA TakeDoneOne ==
  ASSUME DispatcherFits, IInv, NEW r \in Receipt, TakeDone(r), late' = late \cap Ready'
  PROVE  OneInv(r)'
<1>1. /\ stage[r] = "done" /\ stage'[r] = "delete" /\ notifier'[r] = "none" /\ run = "loop"
      /\ UNCHANGED <<queue, hidden, results>>
      /\ \/ period' = period /\ update' = update
         \/ /\ notifier[r] = "sleep" /\ timer[r] = 0
            /\ period'[r] = NextPeriod(period[r]) /\ update'[r] = "ask"
  BY DEF TakeDone, StopNotifier, IInv, TypeOK, sqs
<1>2. /\ Staged(r) /\ Timed(r) /\ Reserved(r) /\ notifier[r] \in {"sleep", "offer"}
      /\ update[r] \in {"none", "ask", "error"}
  BY <1>1 DEF IInv, TypeOK, ReceiptInv, OneInv, Staged
<1>3. /\ MsgOf(r)' = MsgOf(r) /\ Due(<<"ask", r>>)' \in {0, 1} /\ Due(<<"delete", r>>)' \in {0, 1}
      /\ update'[r] = "ask" => Due(<<"ask", r>>)' = Due(<<"ask", r>>)
      /\ update'[r] = "error" => Due(<<"error", r>>)' = Due(<<"error", r>>)
  BY <1>1, DueStays DEF MsgOf, Due
<1>4. /\ hidden[MsgOf(r)] \in Nat /\ timer[r] \in Nat /\ Buffer \in Nat
      /\ Due(<<"ask", r>>) \in {0, 1} /\ Due(<<"error", r>>) \in {0, 1}
      /\ Due(<<"notice", r>>) \in {0, 1}
  BY Numbers DEF IInv
<1>5. period'[r] = NextPeriod(period[r]) => period'[r] > Buffer + 2
  <2>1. period[r] \in 0..Longest /\ period[r] >= Initial
    BY <1>2 DEF IInv, TypeOK, Timed
  <2>. QED
    BY <2>1, NextPeriodFits
<1>6. MsgOf(r) \in queue /\ update[r] = "none" => hidden[MsgOf(r)] >= Buffer - 2
  <2>1. notifier[r] = "offer" \/ (notifier[r] = "sleep" /\ timer[r] = 0)
          \/ (notifier[r] = "sleep" /\ timer[r] > 0)
    BY <1>2, <1>4
  <2>. QED
    BY <1>2, <1>4, <2>1 DEF Reserved, Margin
<1>7. Staged(r)' /\ Timed(r)'
  BY <1>1, <1>2, <1>5 DEF Staged, Timed
<1>8. Reserved(r)'
  <2>1. CASE update' = update
    BY <1>1, <1>2, <1>3, <1>4, <1>6, <2>1 DEF Reserved, Margin
  <2>2. CASE notifier[r] = "sleep" /\ timer[r] = 0 /\ update'[r] = "ask"
    <3>1. update[r] = "none"
      BY <1>2, <1>4, <2>2 DEF Timed
    <3>. QED
      BY <1>1, <1>3, <1>4, <1>6, <2>2, <3>1 DEF Reserved, Margin
  <2>. QED
    BY <1>1, <2>1, <2>2
<1>. QED
  BY <1>1, <1>7, <1>8, ActingOne DEF Idle

LEMMA DeletionOne ==
  ASSUME DispatcherFits, IInv, NEW r \in Receipt, AnswerDelete(r) \/ DeleteFails(r),
         late' = late \cap Ready'
  PROVE  OneInv(r)'
<1>1. /\ stage[r] = "delete" /\ run = "loop" /\ queue' \subseteq queue
      /\ UNCHANGED <<run, results, pending, notifier, timer, period, update>>
      /\ \/ stage'[r] = "none" /\ MsgOf(r) \notin queue'
         \/ stage'[r] = "error" /\ hidden' = hidden
  BY DEF AnswerDelete, DeleteFails, IInv, TypeOK, receive, watch
<1>2. Staged(r) /\ Timed(r) /\ Reserved(r) /\ notifier[r] = "none"
  BY <1>1 DEF IInv, ReceiptInv, OneInv, Staged
<1>3. /\ MsgOf(r)' = MsgOf(r) /\ Due(<<"error", r>>)' \in {0, 1}
      /\ update[r] = "ask" => Due(<<"ask", r>>)' = Due(<<"ask", r>>)
      /\ update[r] = "error" => Due(<<"error", r>>)' = Due(<<"error", r>>)
  BY <1>1, DueStays DEF MsgOf, Due
<1>4. /\ hidden[MsgOf(r)] \in Nat /\ Buffer \in Nat /\ Due(<<"delete", r>>) \in {0, 1}
  BY Numbers DEF IInv
<1>5. Staged(r)' /\ Timed(r)'
  BY <1>1, <1>2, <1>3 DEF Staged, Timed
<1>6. Reserved(r)'
  BY <1>1, <1>2, <1>3, <1>4 DEF Reserved, Margin
<1>. QED
  BY <1>1, <1>5, <1>6, ActingOne DEF Idle

LEMMA EndingOne ==
  ASSUME DispatcherFits, IInv, NEW r \in Receipt, Ending(r)
  PROVE  OneInv(r)'
<1>1. run = "stopping" /\ UNCHANGED <<run, results>> /\ ~Idle(r)
  BY DEF Ending, HandlerEnds, WatchEnds, Idle, receive
<1>. QED
  BY <1>1, ActingOne

\* A step about one receipt that is in use.
LEMMA ReceiptStep ==
  ASSUME DispatcherFits, IInv, NEW r \in Receipt, late' = late \cap Ready',
         Reserving(r) \/ HandlerReturns(r) \/ Deleting(r) \/ Ending(r)
  PROVE  ReceiptInv'
<1>1. OneInv(r)'
  BY TimerFiresOne, TakeNoticeOne, UpdateOne, HandlerReturnsOne, TakeDoneOne, DeletionOne, EndingOne
  DEF Reserving, Deleting
<1>2. /\ ~Idle(r) /\ results' = results /\ queue' \subseteq queue
      /\ results # {} => recv' = recv
      /\ run' = "loop" => run = "loop"
  BY DEF Reserving, TimerFires, TakeNotice, AnswerUpdate, UpdateFails, HandlerReturns, Deleting,
         TakeDone, AnswerDelete, DeleteFails, Ending, HandlerEnds, WatchEnds, Idle, sqs, receive,
         IInv, Counts
<1>3. r[2] = 1
  BY <1>2, InUseIsFirst
<1>4. \A q \in Receipt \ {r} :
        /\ stage'[q] = stage[q] /\ notifier'[q] = notifier[q] /\ timer'[q] = timer[q]
        /\ period'[q] = period[q] /\ update'[q] = update[q]
        /\ q \in pending' <=> q \in pending
  BY DEF Reserving, TimerFires, TakeNotice, AnswerUpdate, UpdateFails, HandlerReturns, Deleting,
         TakeDone, StopNotifier, AnswerDelete, DeleteFails, Ending, HandlerEnds, WatchEnds,
         receive, watch, IInv, TypeOK
<1>5. \A m \in Message \ {MsgOf(r)} : hidden'[m] = hidden[m]
  BY DEF Reserving, TimerFires, TakeNotice, AnswerUpdate, UpdateFails, HandlerReturns, Deleting,
         TakeDone, AnswerDelete, DeleteFails, Ending, HandlerEnds, WatchEnds, Hide, sqs
<1>. QED
  BY <1>1, <1>2, <1>3, <1>4, <1>5, OneMoves DEF IInv

-----------------------------------------------------------------------------
(* The steps of the loop and of time.                                      *)

\* Nothing is left of the receipts of a message that can be received.
LEMMA VisibleIsIdle ==
  ASSUME DispatcherFits, IInv, run = "loop", NEW m \in Visible
  PROVE  /\ m \in Message /\ \A q \in Receipt : MsgOf(q) = m => Idle(q)
         /\ Fresh(m) = <<m, 1>>
<1>1. m \in queue /\ m \in Message /\ ~(hidden[m] > 0)
  BY DEF Visible, IInv, TypeOK
<1>2. \A q \in Receipt : MsgOf(q) = m => Idle(q)
  BY <1>1, InUseIsHidden
<1>3. <<m, 1>> \in Receipt /\ MsgOf(<<m, 1>>) = m
  BY <1>1, ReceiptsAre DEF MsgOf
<1>. QED
  BY <1>1, <1>2, <1>3 DEF Fresh

LEMMA AnswerReceiveInv ==
  ASSUME DispatcherFits, IInv, AnswerReceive, late' = late \cap Ready'
  PROVE  ReceiptInv'
<1>0. Initial \in Nat
  BY Parameters
<1>1. PICK S \in SUBSET {m \in Visible : Idle(Fresh(m))} :
        /\ results' = {Fresh(m) : m \in S}
        /\ Hide(S, Initial)
  BY DEF AnswerReceive
<1>2. /\ run = "loop" /\ results = {}
      /\ UNCHANGED <<queue, run, pending, stage, notifier, timer, period, update>>
  BY DEF AnswerReceive, IInv, Counts, watch
<1>3. \A m \in S : m \in Message /\ Fresh(m) = <<m, 1>>
                   /\ \A q \in Receipt : MsgOf(q) = m => Idle(q)
  BY <1>1, <1>2, VisibleIsIdle
<1>4. \A q \in Receipt : q \in results' <=> MsgOf(q) \in S /\ q[2] = 1
  BY <1>1, <1>3, ReceiptsAre DEF MsgOf
<1>5. ASSUME NEW q \in Receipt
      PROVE  OneInv(q)'
  <2>1. OneInv(q) /\ MsgOf(q) \in Message /\ MsgOf(q)' = MsgOf(q)
    BY ReceiptsAre DEF IInv, ReceiptInv, MsgOf
  <2>2. CASE q \in results'
    <3>1. Idle(q)' /\ q[2] = 1 /\ hidden'[MsgOf(q)] = Initial
      BY <1>1, <1>2, <1>3, <1>4, <2>1, <2>2 DEF Hide, Idle
    <3>2. Due(<<"receive", "back">>)' \in {0, 1}
      BY DEF Due
    <3>3. FirstOnly(q)' /\ Received(q)'
      BY <1>0, <2>1, <3>1, <3>2 DEF FirstOnly, Received
    <3>. QED
      BY <3>1, <3>3 DEF OneInv, Staged, Timed, Reserved, Margin, Idle
  <2>3. CASE q \notin results' /\ MsgOf(q) \in S
    <3>1. Idle(q)' /\ (q[2] = 1 \/ q \notin pending')
      BY <1>2, <1>3, <2>1, <2>3 DEF OneInv, FirstOnly, Idle
    <3>. QED
      BY <2>3, <3>1, IdleOne
  <2>4. CASE MsgOf(q) \notin S
    <3>1. hidden'[MsgOf(q)] = hidden[MsgOf(q)] /\ q \notin results'
      BY <1>1, <1>4, <2>1, <2>4 DEF Hide
    <3>. QED
      BY <1>2, <2>1, <3>1, OneStays DEF IInv
  <2>. QED
    BY <2>2, <2>3, <2>4
<1>. QED
  BY <1>5 DEF ReceiptInv

LEMMA TakeResultsInv ==
  ASSUME DispatcherFits, IInv, TakeResults, late' = late \cap Ready'
  PROVE  ReceiptInv'
<1>1. /\ run = "loop" /\ results' = {} /\ pending' = pending \cup results
      /\ UNCHANGED <<queue, hidden, run, update>>
  BY DEF TakeResults, sqs
<1>2. \A q \in Receipt :
        /\ stage'[q] = (IF q \in results THEN "run" ELSE stage[q])
        /\ notifier'[q] = (IF q \in results THEN "sleep" ELSE notifier[q])
        /\ timer'[q] = (IF q \in results THEN Initial - Buffer ELSE timer[q])
        /\ period'[q] = (IF q \in results THEN Initial ELSE period[q])
  BY DEF TakeResults
<1>3. ASSUME NEW q \in Receipt
      PROVE  OneInv(q)'
  <2>1. OneInv(q) /\ MsgOf(q) \in Message /\ MsgOf(q)' = MsgOf(q)
    BY ReceiptsAre DEF IInv, ReceiptInv, MsgOf
  <2>2. CASE q \in results
    <3>1. /\ stage'[q] = "run" /\ notifier'[q] = "sleep" /\ timer'[q] = Initial - Buffer
          /\ period'[q] = Initial /\ q \in pending'
      BY <1>1, <1>2, <2>2
    <3>2. /\ q[2] = 1 /\ update'[q] = "none"
          /\ hidden[MsgOf(q)] >= Initial - Due(<<"receive", "back">>)
      BY <1>1, <2>1, <2>2 DEF OneInv, FirstOnly, Received, Idle
    <3>3. /\ Initial \in Nat /\ Buffer \in Nat /\ Initial > Buffer /\ hidden[MsgOf(q)] \in Nat
          /\ Due(<<"receive", "back">>) \in {0, 1}
      BY Parameters, Numbers DEF IInv
    <3>4. FirstOnly(q)' /\ Received(q)' /\ Staged(q)'
      BY <1>1, <3>1, <3>2 DEF FirstOnly, Received, Staged
    <3>5. Timed(q)'
      BY <3>1, <3>2, <3>3 DEF Timed
    <3>6. Margin(q)'
      BY <1>1, <2>1, <3>1, <3>2, <3>3 DEF Margin
    <3>. QED
      BY <3>4, <3>5, <3>6 DEF OneInv, Reserved
  <2>3. CASE q \notin results
    BY <1>1, <1>2, <2>1, <2>3, OneStays DEF IInv
  <2>. QED
    BY <2>2, <2>3
<1>. QED
  BY <1>3 DEF ReceiptInv

\* The other steps of the loop change no receipt.
LEMMA LoopInv ==
  ASSUME DispatcherFits, IInv, StartReceive \/ ReceiveFails \/ TakeError,
         late' = late \cap Ready'
  PROVE  ReceiptInv'
<1>1. UNCHANGED <<queue, pending, stage, notifier, timer, period, update>> /\ results' = {}
  BY DEF StartReceive, ReceiveFails, TakeError, IInv, Counts, sqs, watch
<1>2. CASE StartReceive \/ ReceiveFails
  <2>1. hidden' = hidden /\ (run' = "loop" => run = "loop")
    BY <1>2 DEF StartReceive, ReceiveFails, sqs
  <2>2. ASSUME NEW q \in Receipt
        PROVE  OneInv(q)'
    <3>1. OneInv(q)
      BY DEF IInv, ReceiptInv
    <3>. QED
      BY <1>1, <2>1, <3>1, OneStays DEF IInv
  <2>. QED
    BY <2>2 DEF ReceiptInv
<1>3. CASE TakeError
  <2>1. run' = "stopping"
    BY <1>3 DEF TakeError
  <2>. QED
    BY <1>1, <2>1 DEF IInv, ReceiptInv, OneInv, FirstOnly, Received, Idle
<1>. QED
  BY <1>2, <1>3

LEMMA RestartInv ==
  ASSUME Restart
  PROVE  ReceiptInv'
<1>1. ASSUME NEW q \in Receipt
      PROVE  Idle(q)' /\ q \notin results' /\ q \notin pending'
  BY <1>1 DEF Restart, All, Idle
<1>. QED
  BY <1>1, IdleOne DEF ReceiptInv

LEMMA TickInv ==
  ASSUME DispatcherFits, IInv, Tick
  PROVE  ReceiptInv'
<1>1. /\ late = {} /\ late' = Ready
      /\ UNCHANGED <<queue, run, recv, results, pending, stage, notifier, period, update>>
  BY DEF Tick, receive
<1>2. \A x : Due(x) = 0 /\ Due(x)' = (IF x \in Ready THEN 1 ELSE 0)
  BY <1>1 DEF Due
<1>3. ASSUME NEW q \in Receipt
      PROVE  OneInv(q)'
  <2>1. OneInv(q) /\ MsgOf(q) \in Message /\ MsgOf(q)' = MsgOf(q)
    BY ReceiptsAre DEF IInv, ReceiptInv, MsgOf
  <2>2. /\ hidden'[MsgOf(q)] = (IF hidden[MsgOf(q)] > 0 THEN hidden[MsgOf(q)] - 1 ELSE 0)
        /\ timer'[q] = (IF timer[q] > 0 THEN timer[q] - 1 ELSE 0)
        /\ hidden[MsgOf(q)] \in Nat /\ timer[q] \in Nat
        /\ Buffer \in Nat /\ Buffer > 4 /\ Initial \in Nat /\ Initial > Buffer
    BY <2>1, Numbers, Parameters DEF Tick, Less, IInv, TypeOK
  <2>3. FirstOnly(q)'
    BY <1>1, <2>1 DEF OneInv, FirstOnly, Idle
  <2>4. Received(q)'
    <3>1. q \in results => recv = "back"
      BY DEF IInv, Counts
    <3>2. recv = "back" => Due(<<"receive", "back">>)' = 1
      BY <1>2, ReadyHas
    <3>. QED
      BY <1>1, <1>2, <2>1, <2>2, <3>1, <3>2 DEF OneInv, Received, Idle
  <2>5. ASSUME run' = "loop"
        PROVE  Staged(q)' /\ Timed(q)' /\ Reserved(q)'
    <3>1. Staged(q) /\ Timed(q) /\ Reserved(q)
      BY <1>1, <2>1, <2>5 DEF OneInv
    <3>2. Staged(q)'
      BY <1>1, <2>1, <3>1 DEF Staged
    <3>3. /\ notifier[q] = "offer" => Due(<<"notice", q>>)' = 1
          /\ notifier[q] = "sleep" /\ timer[q] = 0 => Due(<<"notice", q>>)' = 1
          /\ update[q] = "ask" => Due(<<"ask", q>>)' = 1
          /\ update[q] = "error" => Due(<<"error", q>>)' = 1
          /\ stage[q] = "delete" => Due(<<"delete", q>>)' = 1
          /\ stage[q] = "error" => Due(<<"error", q>>)' = 1
      BY <1>2, ReadyHas
    <3>4. Due(<<"notice", q>>)' \in {0, 1}
      BY DEF Due
    <3>5. Timed(q)'
      <4>1. /\ period[q] \in Nat
            /\ Due(<<"ask", q>>) = 0 /\ Due(<<"error", q>>) = 0
        BY <1>2, Numbers DEF IInv
      <4>2. notifier[q] = "sleep" => timer'[q] <= period'[q] - Buffer
        BY <1>1, <2>2, <3>1, <4>1 DEF Timed
      <4>3. update[q] = "ask" /\ notifier[q] = "sleep" => timer'[q] >= 2
        BY <2>2, <3>1, <4>1 DEF Timed
      <4>4. update[q] = "error" /\ notifier[q] = "sleep" => timer'[q] >= 1
        BY <2>2, <3>1, <4>1 DEF Timed
      <4>. QED
        BY <1>1, <3>1, <3>3, <4>2, <4>3, <4>4 DEF Timed
    <3>6. Reserved(q)'
      <4>. SUFFICES ASSUME MsgOf(q) \in queue PROVE Margin(q)'
        BY <1>1, <2>1 DEF Reserved
      <4>1. Margin(q)
        BY <3>1 DEF Reserved
      <4>. QED
        BY <1>1, <1>2, <2>1, <2>2, <3>3, <3>4, <4>1 DEF Margin
    <3>. QED
      BY <3>2, <3>5, <3>6
  <2>. QED
    BY <2>3, <2>4, <2>5 DEF OneInv
<1>. QED
  BY <1>3 DEF ReceiptInv

-----------------------------------------------------------------------------
(* Counts and types.                                                       *)

LEMMA PendingFinite ==
  ASSUME DispatcherFits, TypeOK
  PROVE  /\ IsFiniteSet(pending) /\ IsFiniteSet(results)
         /\ Cardinality(pending) \in Nat /\ Cardinality(results) \in Nat /\ asked \in Int
<1>1. IsFiniteSet(Receipt) /\ pending \subseteq Receipt /\ results \subseteq Receipt
  BY ReceiptsAre DEF TypeOK
<1>2. IsFiniteSet(pending) /\ IsFiniteSet(results)
  BY <1>1, FS_Subset
<1>. QED
  BY <1>2, FS_CardinalityType DEF TypeOK

LEMMA ReceivingCounts ==
  ASSUME DispatcherFits, IInv, Receiving
  PROVE  Counts' /\ asked' \in Int
<1>0. /\ Cardinality(pending) \in Nat /\ Cardinality(results) \in Nat /\ asked \in Int
      /\ IsFiniteSet(pending) /\ IsFiniteSet(results)
      /\ Limit \in Nat /\ MaxMessages \in Nat /\ MaxMessages > 0
  BY PendingFinite, Parameters DEF IInv
<1>1. CASE StartReceive
  <2>1. /\ recv = "on" /\ asked' = NumToAsk /\ recv' = "out"
        /\ results' = results /\ pending' = pending
        /\ run' = (IF NumToAsk <= 0 THEN "panicked" ELSE run)
    BY <1>1 DEF StartReceive
  <2>2. Limit # 0 => Cardinality(pending) < Limit
    BY <2>1 DEF IInv, Counts
  <2>3. /\ NumToAsk \in Int /\ NumToAsk >= 1
        /\ Limit # 0 => Cardinality(pending) + NumToAsk <= Limit
    BY <1>0, <2>2 DEF NumToAsk
  <2>4. run # "panicked" /\ results = {} /\ (Limit # 0 => Cardinality(pending) <= Limit)
    BY <2>1 DEF IInv, Counts
  <2>5. run' = run
    BY <2>1, <2>3
  <2>. QED
    BY <2>1, <2>3, <2>4, <2>5 DEF Counts
<1>2. CASE AnswerReceive
  <2>1. PICK S \in SUBSET {m \in Visible : Idle(Fresh(m))} :
          Cardinality(S) <= asked /\ results' = {Fresh(m) : m \in S}
    BY <1>2 DEF AnswerReceive
  <2>2. IsFiniteSet(S)
    BY FS_Subset DEF Visible, IInv, TypeOK, DispatcherFits
  <2>3. Cardinality(results') <= Cardinality(S) /\ IsFiniteSet(results')
    <3>1. IsFiniteSet(Receipt) /\ results' \subseteq Receipt
      <4>1. \A m \in S : m \in Message
        BY DEF Visible, IInv, TypeOK
      <4>2. \A m \in S : Fresh(m) = <<m, 1>> \/ Fresh(m) = <<m, 2>>
        BY DEF Fresh
      <4>3. IsFiniteSet(Receipt) /\ \A m \in Message : <<m, 1>> \in Receipt /\ <<m, 2>> \in Receipt
        BY ReceiptsAre
      <4>4. \A m \in S : Fresh(m) \in Receipt
        BY <4>1, <4>2, <4>3
      <4>. QED
        BY <2>1, <4>3, <4>4
    <3>2. IsFiniteSet(results')
      BY <3>1, FS_Subset
    <3>3. Cardinality({Fresh(m) : m \in S}) <= Cardinality(S)
      <4>. DEFINE g == [m \in S |-> Fresh(m)]
      <4>1. g \in Surjection(S, results')
        BY <2>1 DEF Surjection
      <4>. HIDE DEF g
      <4>2. Cardinality(results') <= Cardinality(S)
        BY <2>2, <4>1, FS_Surjection
      <4>. QED
        BY <2>1, <4>2
    <3>. QED
      BY <2>1, <3>2, <3>3
  <2>4. Cardinality(results') \in Nat /\ Cardinality(S) \in Nat
    BY <2>2, <2>3, FS_CardinalityType
  <2>5. /\ recv = "out" /\ recv' = "back" /\ UNCHANGED <<run, asked, pending>>
    BY <1>2 DEF AnswerReceive
  <2>6. Cardinality(results') <= asked
    BY <1>0, <2>1, <2>3, <2>4
  <2>. QED
    BY <1>0, <2>5, <2>6 DEF IInv, Counts
<1>3. CASE ReceiveFails
  BY <1>0, <1>3 DEF ReceiveFails, IInv, Counts
<1>4. CASE TakeResults
  <2>1. /\ recv = "back" /\ results' = {} /\ asked' = 0 /\ pending' = pending \cup results
        /\ recv' = (IF BelowLimit(Cardinality(pending')) THEN "on" ELSE "off") /\ run' = run
    BY <1>4 DEF TakeResults
  <2>2. Cardinality(results) <= asked /\ (Limit # 0 => Cardinality(pending) + asked <= Limit)
    BY <2>1 DEF IInv, Counts
  <2>3. Cardinality(pending \cup results) <= Cardinality(pending) + Cardinality(results)
        /\ Cardinality(pending \cup results) \in Nat
    <3>1. /\ IsFiniteSet(pending \cup results) /\ IsFiniteSet(pending \cap results)
          /\ Cardinality(pending \cup results)
               = Cardinality(pending) + Cardinality(results) - Cardinality(pending \cap results)
      BY <1>0, FS_Union, FS_Intersection
    <3>2. Cardinality(pending \cup results) \in Nat /\ Cardinality(pending \cap results) \in Nat
      BY <3>1, FS_CardinalityType
    <3>. QED
      BY <1>0, <3>1, <3>2
  <2>4. Limit # 0 => Cardinality(pending') <= Limit
    BY <1>0, <2>1, <2>2, <2>3
  <2>5. recv' = "on" /\ Limit # 0 => Cardinality(pending') < Limit
    BY <2>1 DEF BelowLimit
  <2>6. run' # "panicked" /\ recv' \in {"on", "off"}
    BY <2>1 DEF IInv, Counts
  <2>. QED
    BY <2>1, <2>4, <2>5, <2>6 DEF Counts
<1>. QED
  BY <1>1, <1>2, <1>3, <1>4 DEF Receiving

LEMMA RestCounts ==
  ASSUME DispatcherFits, IInv,
         \/ \E r \in Receipt : Reserving(r) \/ HandlerReturns(r) \/ Deleting(r) \/ Ending(r)
         \/ TakeError \/ Restart \/ Tick \/ UNCHANGED vars
  PROVE  Counts' /\ asked' \in Int
<1>0. /\ Cardinality(pending) \in Nat /\ asked \in Int /\ IsFiniteSet(pending)
      /\ Limit \in Nat
  BY PendingFinite, Parameters DEF IInv
<1>1. ASSUME NEW r \in Receipt, TakeDone(r)
      PROVE  Counts' /\ asked' \in Int
  <2>1. r \in pending
    BY <1>1 DEF TakeDone, IInv, ReceiptInv, OneInv, Staged
  <2>2. /\ run' = run /\ pending' = pending \ {r} /\ UNCHANGED <<asked, results>>
        /\ recv' = (IF recv = "off" /\ BelowLimit(Cardinality(pending')) THEN "on" ELSE recv)
    BY <1>1, <2>1 DEF TakeDone
  <2>3. Cardinality(pending') \in Nat /\ Cardinality(pending') <= Cardinality(pending)
    <3>1. IsFiniteSet(pending \ {r}) /\ Cardinality(pending \ {r}) = Cardinality(pending) - 1
      BY <1>0, <2>1, FS_RemoveElement
    <3>2. Cardinality(pending \ {r}) \in Nat
      BY <3>1, FS_CardinalityType
    <3>. QED
      BY <1>0, <2>2, <3>1, <3>2
  <2>4. \/ recv' = recv
        \/ recv = "off" /\ recv' = "on" /\ (Limit # 0 => Cardinality(pending') < Limit)
    BY <2>2 DEF BelowLimit
  <2>. QED
    BY <1>0, <2>2, <2>3, <2>4 DEF IInv, Counts
<1>2. ASSUME UNCHANGED <<run, recv, asked, results, pending>>
      PROVE  Counts' /\ asked' \in Int
  BY <1>0, <1>2 DEF IInv, Counts
<1>3. ASSUME NEW r \in Receipt,
             Reserving(r) \/ HandlerReturns(r) \/ Deleting(r) \/ Ending(r), ~TakeDone(r)
      PROVE  UNCHANGED <<run, recv, asked, results, pending>>
  BY <1>3 DEF Reserving, TimerFires, TakeNotice, AnswerUpdate, UpdateFails, HandlerReturns,
              Deleting, AnswerDelete, DeleteFails, Ending, HandlerEnds, WatchEnds, receive
<1>4. ASSUME TakeError \/ Restart
      PROVE  Counts' /\ asked' \in Int
  <2>1. Cardinality({}) = 0
    BY FS_EmptySet
  <2>2. CASE TakeError
    BY <1>0, <2>2 DEF TakeError, IInv, Counts
  <2>3. CASE Restart
    BY <1>0, <2>1, <2>3 DEF Restart, Counts
  <2>. QED
    BY <1>4, <2>2, <2>3
<1>5. ASSUME Tick \/ UNCHANGED vars
      PROVE  UNCHANGED <<run, recv, asked, results, pending>>
  BY <1>5 DEF Tick, vars, receive
<1>. QED
  BY <1>1, <1>2, <1>3, <1>4, <1>5

\* The timeouts the loop asks for are those the type allows.
LEMMA PeriodsFit ==
  ASSUME DispatcherFits, IInv, NEW r \in Receipt, notifier[r] # "none", run = "loop"
  PROVE  NextPeriod(period[r]) \in 0..Longest /\ NextPeriod(period[r]) - Buffer \in 0..Longest
<1>1. period[r] \in 0..Longest /\ period[r] >= Initial
  BY DEF IInv, TypeOK, ReceiptInv, OneInv, Timed
<1>2. NextPeriod(period[r]) \in 0..Longest /\ NextPeriod(period[r]) >= Initial
  BY <1>1, NextPeriodFits
<1>. QED
  BY <1>2, Parameters

LEMMA ReceiptTypes ==
  ASSUME DispatcherFits, IInv, NEW r \in Receipt, asked' \in Int,
         Reserving(r) \/ HandlerReturns(r) \/ Deleting(r) \/ Ending(r)
  PROVE  TypeOK'
<1>0. /\ Longest \in Nat /\ Initial \in 0..Longest /\ Initial - Buffer \in 0..Longest
      /\ MaxFaults \in Nat /\ 0 \in 0..Longest
      /\ MsgOf(r) \in Message /\ period[r] \in 0..Longest
  <2>1. MsgOf(r) \in Message /\ period[r] \in 0..Longest
    BY Numbers DEF IInv
  <2>. QED
    BY <2>1, Parameters
<1>1. Fault \/ UNCHANGED faults => faults' \in 0..MaxFaults
  BY <1>0 DEF Fault, IInv, TypeOK
<1>2. CASE Reserving(r)
  <2>1. CASE TimerFires(r) \/ UpdateFails(r)
    BY <1>1, <2>1 DEF TimerFires, UpdateFails, IInv, TypeOK, sqs, receive, watch
  <2>2. CASE TakeNotice(r)
    <3>1. NextPeriod(period[r]) \in 0..Longest /\ NextPeriod(period[r]) - Buffer \in 0..Longest
      BY <2>2, PeriodsFit DEF TakeNotice
    <3>. QED
      BY <2>2, <3>1 DEF TakeNotice, IInv, TypeOK, sqs, receive
  <2>3. CASE AnswerUpdate(r)
    BY <1>0, <2>3 DEF AnswerUpdate, Hide, IInv, TypeOK, receive, watch
  <2>. QED
    BY <1>2, <2>1, <2>2, <2>3 DEF Reserving
<1>3. CASE HandlerReturns(r)
  BY <1>1, <1>3 DEF HandlerReturns, IInv, TypeOK, sqs, receive, watch
<1>4. CASE TakeDone(r)
  <2>1. notifier[r] # "none" /\ run = "loop"
    BY <1>4 DEF TakeDone, IInv, ReceiptInv, OneInv, Staged
  <2>2. NextPeriod(period[r]) \in 0..Longest
    BY <2>1, PeriodsFit
  <2>3. /\ notifier' \in [Receipt -> {"none", "sleep", "offer"}]
        /\ timer' \in [Receipt -> 0..Longest] /\ period' \in [Receipt -> 0..Longest]
        /\ update' \in [Receipt -> {"none", "ask", "error"}]
    BY <1>0, <1>4, <2>2 DEF TakeDone, StopNotifier, IInv, TypeOK
  <2>. QED
    BY <1>4, <2>3 DEF TakeDone, IInv, TypeOK, sqs
<1>5. CASE AnswerDelete(r) \/ DeleteFails(r)
  BY <1>0, <1>1, <1>5 DEF AnswerDelete, DeleteFails, Hide, IInv, TypeOK, receive, watch
<1>6. CASE Ending(r)
  BY <1>0, <1>6 DEF Ending, HandlerEnds, WatchEnds, IInv, TypeOK, sqs, receive, watch
<1>. QED
  BY <1>2, <1>3, <1>4, <1>5, <1>6 DEF Deleting

LEMMA OtherTypes ==
  ASSUME DispatcherFits, IInv, asked' \in Int,
         Receiving \/ TakeError \/ RunReturns \/ Crash \/ Tick \/ UNCHANGED vars
  PROVE  TypeOK'
<1>0. /\ Longest \in Nat /\ Initial \in 0..Longest /\ Initial - Buffer \in 0..Longest
      /\ MaxFaults \in Nat /\ 0 \in 0..Longest
  BY Parameters
<1>1. Fault \/ UNCHANGED faults => faults' \in 0..MaxFaults
  BY <1>0 DEF Fault, IInv, TypeOK
<1>2. CASE StartReceive \/ ReceiveFails
  BY <1>1, <1>2 DEF StartReceive, ReceiveFails, IInv, TypeOK, sqs, watch
<1>3. CASE AnswerReceive
  <2>1. results' \subseteq Receipt
    <3>1. PICK S \in SUBSET {m \in Visible : Idle(Fresh(m))} : results' = {Fresh(m) : m \in S}
      BY <1>3 DEF AnswerReceive
    <3>2. \A m \in S : m \in Message /\ Fresh(m) \in {<<m, 1>>, <<m, 2>>}
      BY DEF Visible, IInv, TypeOK, Fresh
    <3>3. \A m \in S : Fresh(m) \in Receipt
      BY <3>2, ReceiptsAre
    <3>. QED
      BY <3>1, <3>3
  <2>2. hidden' \in [Message -> 0..Longest]
    BY <1>0, <1>3 DEF AnswerReceive, Hide, IInv, TypeOK
  <2>. QED
    BY <1>3, <2>1, <2>2 DEF AnswerReceive, IInv, TypeOK, watch
<1>4. CASE TakeResults
  <2>1. /\ stage' \in [Receipt -> {"none", "run", "done", "delete", "error"}]
        /\ notifier' \in [Receipt -> {"none", "sleep", "offer"}]
        /\ timer' \in [Receipt -> 0..Longest] /\ period' \in [Receipt -> 0..Longest]
    BY <1>0, <1>4 DEF TakeResults, IInv, TypeOK
  <2>. QED
    BY <1>4, <2>1 DEF TakeResults, IInv, TypeOK, sqs
<1>5. CASE TakeError
  <2>1. hidden' \in [Message -> 0..Longest]
    BY <1>0, <1>5 DEF TakeError, Hide, IInv, TypeOK
  <2>. QED
    BY <1>5, <2>1 DEF TakeError, IInv, TypeOK, watch
<1>6. CASE RunReturns \/ Crash
  <2>1. Restart /\ UNCHANGED sqs /\ faults' \in 0..MaxFaults
    BY <1>1, <1>6 DEF RunReturns, Crash
  <2>. QED
    BY <1>0, <2>1 DEF Restart, All, IInv, TypeOK, sqs
<1>7. CASE Tick
  <2>1. hidden' \in [Message -> 0..Longest] /\ timer' \in [Receipt -> 0..Longest]
    BY <1>0, <1>7 DEF Tick, Less, IInv, TypeOK
  <2>. QED
    BY <1>7, <2>1 DEF Tick, IInv, TypeOK, receive
<1>8. CASE UNCHANGED vars
  BY <1>8 DEF vars, IInv, TypeOK, sqs, receive, watch
<1>. QED
  BY <1>2, <1>3, <1>4, <1>5, <1>6, <1>7, <1>8 DEF Receiving

-----------------------------------------------------------------------------
(* The theorems.                                                           *)

LEMMA InitIInv == DispatcherFits /\ Init => IInv
<1>. SUFFICES ASSUME DispatcherFits, Init PROVE IInv
  OBVIOUS
<1>1. 0 \in 0..Longest /\ 0 \in 0..MaxFaults /\ Limit \in Nat
  BY Parameters
<1>2. TypeOK
  BY <1>1 DEF Init, ProcessInit, All, TypeOK
<1>3. ReceiptInv
  BY DEF Init, ProcessInit, All, ReceiptInv, OneInv, FirstOnly, Received, Staged, Timed, Reserved,
         Margin, Idle
<1>4. Counts
  <2>1. Cardinality(pending) = 0
    BY FS_EmptySet DEF Init, ProcessInit
  <2>. QED
    BY <1>1, <2>1 DEF Init, ProcessInit, Counts
<1>. QED
  BY <1>2, <1>3, <1>4 DEF IInv

LEMMA NextIInv ==
  ASSUME DispatcherFits, IInv, [Next]_vars
  PROVE  IInv'
<1>1. Counts' /\ asked' \in Int
  BY ReceivingCounts, RestCounts DEF Next, Step, RunReturns, Crash
<1>2. TypeOK'
  BY <1>1, ReceiptTypes, OtherTypes DEF Next, Step
<1>3. ReceiptInv'
  <2>1. CASE UNCHANGED vars
    <3>1. UNCHANGED <<queue, hidden, run, results, pending, stage, notifier, timer, period,
                      update, late>>
      BY <2>1 DEF vars, sqs, receive, watch
    <3>2. \A x : Due(x)' = Due(x)
      BY <3>1 DEF Due
    <3>3. ASSUME NEW r \in Receipt PROVE OneInv(r)'
      <4>1. OneInv(r)
        BY DEF IInv, ReceiptInv
      <4>2. FirstOnly(r)' /\ Received(r)'
        BY <3>1, <3>2, <4>1 DEF OneInv, FirstOnly, Received, Idle, MsgOf
      <4>3. Staged(r) => Staged(r)'
        BY <3>1 DEF Staged, MsgOf
      <4>4. Timed(r) => Timed(r)'
        BY <3>1, <3>2 DEF Timed
      <4>5. Reserved(r) => Reserved(r)'
        BY <3>1, <3>2 DEF Reserved, Margin, MsgOf
      <4>. QED
        BY <3>1, <4>1, <4>2, <4>3, <4>4, <4>5 DEF OneInv
    <3>. QED
      BY <3>3 DEF ReceiptInv
  <2>2. CASE Tick
    BY <2>2, TickInv
  <2>3. CASE Step /\ late' = late \cap Ready'
    BY <2>3, ReceiptStep, AnswerReceiveInv, TakeResultsInv, LoopInv, RestartInv
    DEF Step, Receiving, RunReturns, Crash
  <2>. QED
    BY <2>1, <2>2, <2>3 DEF Next
<1>. QED
  BY <1>1, <1>2, <1>3 DEF IInv

LEMMA Invariance == DispatcherFits => (Spec => []IInv)
<1>. SUFFICES ASSUME DispatcherFits PROVE Spec => []IInv
  OBVIOUS
<1>1. Init => IInv
  BY InitIInv
<1>2. IInv /\ [Next]_vars => IInv'
  BY NextIInv
<1>. QED
  BY <1>1, <1>2, PTL DEF Spec

\* The types: no visibility timeout is negative or passes MaxVisibilityTimeout
\* (squeues.go:287-305).
THEOREM TypeCorrect == DispatcherFits => (Spec => []TypeOK)
<1>. SUFFICES ASSUME DispatcherFits PROVE Spec => []TypeOK
  OBVIOUS
<1>1. IInv => TypeOK
  BY DEF IInv
<1>. QED
  BY <1>1, Invariance, PTL

\* No more handlers than MaxConcurrent, and no panic of the loop (squeues.go:177, 236),
\* whatever the limit, the sizes of the answers and the order of what reaches the loop.
THEOREM LimitHolds == DispatcherFits => (Spec => []WithinLimit)
<1>. SUFFICES ASSUME DispatcherFits PROVE Spec => []WithinLimit
  OBVIOUS
<1>1. IInv => WithinLimit
  BY DEF IInv, Counts, WithinLimit
<1>. QED
  BY <1>1, Invariance, PTL

\* "While the Handler is running, the message will periodically have its visibility
\* timeout updated to keep the message reserved" (squeues.go:96-97): for all timeouts
\* that cover the buffer no message is handed to a second handler.
THEOREM StaysReserved == DispatcherFits => (Spec => []OneHandler)
<1>. SUFFICES ASSUME DispatcherFits PROVE Spec => []OneHandler
  OBVIOUS
<1>1. ASSUME IInv
      PROVE  OneHandler
  <2>1. ASSUME NEW m \in Message
        PROVE  stage[<<m, 2>>] = "none"
    <3>1. <<m, 2>> \in Receipt /\ <<m, 2>>[2] # 1
      BY DEF Receipt
    <3>. QED
      BY <1>1, <3>1 DEF IInv, ReceiptInv, OneInv, FirstOnly, Idle
  <2>. QED
    BY <2>1 DEF OneHandler
<1>. QED
  BY <1>1, Invariance, PTL
=============================================================================
