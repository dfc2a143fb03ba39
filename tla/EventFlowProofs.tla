-------------------------- MODULE EventFlowProofs --------------------------
(***************************************************************************)
(* Theorems about EventFlow, for any messages, any capacities of the       *)
(* channels and any batch size, with failures and crashes or without: no   *)
(* event is lost between SQS and the handlers of a process that lives.     *)
(***************************************************************************)
EXTENDS EventFlow, TLAPS

(* Facts about the sequences that channels and batches are.                *)

LEMMA BoundedSeqs ==
  ASSUME NEW S, NEW n \in Nat, NEW s
  PROVE  s \in BoundedSeq(S, n) <=> s \in Seq(S) /\ Len(s) <= n
<1>1. ASSUME s \in BoundedSeq(S, n)
      PROVE  s \in Seq(S) /\ Len(s) <= n
  <2>1. PICK m \in 0..n : s \in [1..m -> S]
    BY <1>1 DEF BoundedSeq, SeqOf
  <2>. QED
    BY <2>1
<1>2. ASSUME s \in Seq(S), Len(s) <= n
      PROVE  s \in BoundedSeq(S, n)
  <2>1. Len(s) \in 0..n /\ s \in [1..Len(s) -> S]
    BY <1>2
  <2>. QED
    BY <2>1 DEF BoundedSeq, SeqOf
<1>. QED
  BY <1>1, <1>2

LEMMA EmptyIsBounded ==
  ASSUME NEW S, NEW n \in Nat
  PROVE  <<>> \in BoundedSeq(S, n) /\ ToSet(<<>>) = {}
<1>1. <<>> \in Seq(S) /\ Len(<<>>) <= n /\ DOMAIN <<>> = {}
  OBVIOUS
<1>2. <<>> \in BoundedSeq(S, n)
  BY <1>1, BoundedSeqs, Zenon
<1>3. ToSet(<<>>) = {}
  BY <1>1, Zenon DEF ToSet
<1>. QED
  BY <1>2, <1>3

\* Putting an element into a channel.
LEMMA AppendElements ==
  ASSUME NEW S, NEW s \in Seq(S), NEW e \in S
  PROVE  /\ Append(s, e) \in Seq(S) /\ Len(Append(s, e)) = Len(s) + 1
         /\ ToSet(Append(s, e)) = ToSet(s) \cup {e}
<1>1. DOMAIN Append(s, e) = 1..Len(s) + 1 /\ DOMAIN s = 1..Len(s) /\ Len(s) \in Nat
  OBVIOUS
<1>2. \A i \in 1..Len(s) + 1 : Append(s, e)[i] = IF i = Len(s) + 1 THEN e ELSE s[i]
  OBVIOUS
<1>3. \A i \in 1..Len(s) : i \in 1..Len(s) + 1 /\ i # Len(s) + 1
  BY <1>1
<1>4. Len(s) + 1 \in 1..Len(s) + 1
  BY <1>1
<1>5. \A i \in 1..Len(s) + 1 : i # Len(s) + 1 => i \in 1..Len(s)
  BY <1>1
<1>. QED
  BY <1>1, <1>2, <1>3, <1>4, <1>5 DEF ToSet

\* Taking the first element out of a channel.
LEMMA TakeElements ==
  ASSUME NEW S, NEW s \in Seq(S), s # <<>>
  PROVE  /\ Head(s) \in S /\ Tail(s) \in Seq(S) /\ Len(Tail(s)) = Len(s) - 1
         /\ ToSet(s) = ToSet(Tail(s)) \cup {Head(s)}
<1>1. Len(s) \in Nat \ {0} /\ DOMAIN s = 1..Len(s) /\ DOMAIN Tail(s) = 1..Len(s) - 1
  OBVIOUS
<1>2. Head(s) = s[1] /\ \A i \in 1..Len(s) - 1 : Tail(s)[i] = s[i + 1]
  OBVIOUS
<1>3. \A i \in 1..Len(s) : i = 1 \/ \E j \in 1..Len(s) - 1 : i = j + 1
  <2>1. \A i \in 1..Len(s) : i = 1 \/ (i - 1 \in 1..Len(s) - 1 /\ i = (i - 1) + 1)
    BY <1>1
  <2>. QED
    BY <2>1
<1>4. \A i \in 1..Len(s) - 1 : i + 1 \in 1..Len(s)
  BY <1>1
<1>5. ToSet(s) \subseteq ToSet(Tail(s)) \cup {Head(s)}
  <2>. SUFFICES ASSUME NEW i \in 1..Len(s)
                PROVE  s[i] = Head(s) \/ \E j \in DOMAIN Tail(s) : s[i] = Tail(s)[j]
    BY <1>1 DEF ToSet
  <2>. QED
    BY <1>1, <1>2, <1>3
<1>6. ToSet(Tail(s)) \cup {Head(s)} \subseteq ToSet(s)
  BY <1>1, <1>2, <1>4 DEF ToSet
<1>. QED
  BY <1>1, <1>5, <1>6

LEMMA OneElement ==
  ASSUME NEW S, NEW e \in S
  PROVE  <<e>> \in BoundedSeq(S, 1) /\ Head(<<e>>) = e /\ <<e>> # <<>>
<1>1. <<e>> \in Seq(S) /\ Len(<<e>>) <= 1 /\ 1 \in Nat
  OBVIOUS
<1>2. <<e>> \in BoundedSeq(S, 1)
  BY <1>1, BoundedSeqs, Zenon
<1>3. Head(<<e>>) = e /\ <<e>> # <<>>
  BY <1>1
<1>. QED
  BY <1>2, <1>3
-----------------------------------------------------------------------------
(* The inductive invariant.                                                *)

\* Run goes on only when all events of an answer have been pushed.
AllPushed == rcv # "emit" => toEmit = {} /\ pushing = {}

\* The messages of the last answer are still in the queue.
GotUndeleted == \A m \in got : queue[m] # "deleted"

\* A batch is begun empty, and complete as soon as it is full.
BatchHasRoom ==
  /\ batcher = "idle" => batch = <<>>
  /\ batcher = "collect" => Len(batch) < BatchMax

\* Until Run is done with the messages of an answer it is known what became of each.
Accounted == \A m \in got \cap Event : InMemory(m) \/ m \in unheard \cup handled

IInv == TypeOK /\ AllPushed /\ GotUndeleted /\ BatchHasRoom /\ Accounted

LEMMA InitIInv == Init => IInv
<1>. SUFFICES ASSUME Init PROVE IInv
  OBVIOUS
<1>1. <<>> \in BoundedSeq(Term, Cap) /\ <<>> \in BoundedSeq(Spot, Cap)
      /\ <<>> \in BoundedSeq(Spot, BatchMax)
  BY EmptyIsBounded, LimitsAssumption
<1>2. <<>> \in BoundedSeq(BoundedSeq(Spot, BatchMax), 1)
  BY EmptyIsBounded
<1>. QED
  BY <1>1, <1>2 DEF Init, IInv, TypeOK, AllPushed, GotUndeleted, BatchHasRoom, Accounted

LEMMA RestartIInv == IInv /\ Restart => IInv'
<1>. SUFFICES ASSUME IInv, Restart PROVE IInv'
  OBVIOUS
<1>1. <<>> \in BoundedSeq(Term, Cap) /\ <<>> \in BoundedSeq(Spot, Cap)
      /\ <<>> \in BoundedSeq(Spot, BatchMax)
  BY EmptyIsBounded, LimitsAssumption
<1>2. <<>> \in BoundedSeq(BoundedSeq(Spot, BatchMax), 1)
  BY EmptyIsBounded
<1>. QED
  BY <1>1, <1>2 DEF Restart, IInv, TypeOK, AllPushed, GotUndeleted, BatchHasRoom, Accounted

\* The steps of CloudWatchEventEmitter.Run, but for the pushing.
LEMMA RunIInv ==
  ASSUME IInv, Run
  PROVE  IInv'
<1>. USE DEF IInv
<1>1. ASSUME NEW msgs \in SomeMessages, Receive(msgs)
      PROVE  IInv'
  <2>1. msgs \subseteq Message
    BY DEF SomeMessages, kSubset
  <2>2. TypeOK'
    BY <1>1, <2>1 DEF Receive, TypeOK, AllPushed, batching
  <2>3. AllPushed' /\ GotUndeleted' /\ BatchHasRoom'
    BY <1>1, <2>1 DEF Receive, AllPushed, GotUndeleted, BatchHasRoom, batching
  <2>4. Accounted'
    BY <1>1 DEF Receive, Accounted, InMemory
  <2>. QED
    BY <2>2, <2>3, <2>4
<1>2. ASSUME NEW m \in Message, Emit(m)
      PROVE  IInv'
  <2>1. Listening(m) => m \in Event
    BY DEF Listening, Event
  <2>2. TypeOK'
    BY <1>2, <2>1 DEF Emit, TypeOK, batching
  <2>3. AllPushed' /\ GotUndeleted' /\ BatchHasRoom'
    BY <1>2 DEF Emit, AllPushed, GotUndeleted, BatchHasRoom, batching
  <2>4. Accounted'
    BY <1>2 DEF Emit, Accounted, InMemory, batching
  <2>. QED
    BY <2>2, <2>3, <2>4
<1>3. CASE Emitted
  BY <1>3 DEF Emitted, TypeOK, AllPushed, GotUndeleted, BatchHasRoom, Accounted, InMemory, batching
<1>4. CASE Delete
  BY <1>4 DEF Delete, TypeOK, AllPushed, GotUndeleted, BatchHasRoom, Accounted, batching
<1>5. CASE RunReturns
  BY <1>5 DEF RunReturns, TypeOK, AllPushed, GotUndeleted, BatchHasRoom, Accounted, batching
<1>. QED
  BY <1>1, <1>2, <1>3, <1>4, <1>5 DEF Run
-----------------------------------------------------------------------------
(* What the channels, the batching and Main pass on.                       *)

\* The types of the channels, as facts about sequences.
LEMMA ChannelTypes ==
  ASSUME TypeOK
  PROVE  /\ termChan \in Seq(Term) /\ Len(termChan) <= Cap
         /\ spotChan \in Seq(Spot) /\ Len(spotChan) <= Cap
         /\ batch \in Seq(Spot) /\ Len(batch) <= BatchMax
         /\ batches # <<>> => ToSet(Head(batches)) \subseteq Spot
<1>1. Cap \in Nat /\ BatchMax \in Nat /\ 1 \in Nat
  BY LimitsAssumption
<1>2. ASSUME batches # <<>>
      PROVE  ToSet(Head(batches)) \subseteq Spot
  <2>1. batches \in Seq(BoundedSeq(Spot, BatchMax))
    BY <1>1, BoundedSeqs DEF TypeOK
  <2>2. Head(batches) \in BoundedSeq(Spot, BatchMax)
    BY <1>2, <2>1, TakeElements
  <2>3. Head(batches) \in Seq(Spot)
    BY <1>1, <2>2, BoundedSeqs
  <2>. QED
    BY <2>3 DEF ToSet
<1>. QED
  BY <1>1, <1>2, BoundedSeqs DEF TypeOK

LEMMA PushPassesOn ==
  ASSUME TypeOK, NEW m \in Message, Push(m)
  PROVE  /\ TypeOK'
         /\ \A x \in Event : InMemory(x) => InMemory(x)'
<1>1. Cap \in Nat /\ termChan \in Seq(Term) /\ spotChan \in Seq(Spot)
  BY ChannelTypes, LimitsAssumption
<1>2. CASE m \in Term /\ termChan' = Append(termChan, m) /\ UNCHANGED spotChan
  <2>1. termChan' \in Seq(Term) /\ Len(termChan') = Len(termChan) + 1
        /\ ToSet(termChan') = ToSet(termChan) \cup {m}
    BY <1>1, <1>2, AppendElements
  <2>2. Len(termChan) < Cap
    BY <1>2, MessagesAssumption DEF Push
  <2>3. termChan' \in BoundedSeq(Term, Cap)
    <3>1. Len(termChan') <= Cap
      BY <1>1, <2>1, <2>2
    <3>. QED
      BY <1>1, <2>1, <3>1, BoundedSeqs
  <2>. QED
    BY <1>2, <2>1, <2>3 DEF Push, TypeOK, InMemory, batching
<1>3. CASE m \in Spot /\ spotChan' = Append(spotChan, m) /\ UNCHANGED termChan
  <2>1. spotChan' \in Seq(Spot) /\ Len(spotChan') = Len(spotChan) + 1
        /\ ToSet(spotChan') = ToSet(spotChan) \cup {m}
    BY <1>1, <1>3, AppendElements
  <2>2. Len(spotChan) < Cap
    BY <1>3, MessagesAssumption DEF Push
  <2>3. spotChan' \in BoundedSeq(Spot, Cap)
    <3>1. Len(spotChan') <= Cap
      BY <1>1, <2>1, <2>2
    <3>. QED
      BY <1>1, <2>1, <3>1, BoundedSeqs
  <2>. QED
    BY <1>3, <2>1, <2>3 DEF Push, TypeOK, InMemory, batching
<1>. QED
  BY <1>2, <1>3 DEF Push

LEMMA CollectPassesOn ==
  ASSUME TypeOK, BatchHasRoom, Collect
  PROVE  /\ TypeOK' /\ BatchHasRoom'
         /\ \A x \in Event : InMemory(x) => InMemory(x)'
<1>1. /\ Cap \in Nat /\ BatchMax \in Nat \ {0} /\ spotChan \in Seq(Spot) /\ batch \in Seq(Spot)
      /\ Len(spotChan) <= Cap /\ spotChan # <<>>
  BY ChannelTypes, LimitsAssumption DEF Collect
<1>2. /\ Head(spotChan) \in Spot /\ spotChan' \in Seq(Spot) /\ Len(spotChan') = Len(spotChan) - 1
      /\ ToSet(spotChan) = ToSet(spotChan') \cup {Head(spotChan)}
  BY <1>1, TakeElements DEF Collect
<1>3. /\ batch' \in Seq(Spot) /\ Len(batch') = Len(batch) + 1
      /\ ToSet(batch') = ToSet(batch) \cup {Head(spotChan)}
  BY <1>1, <1>2, AppendElements DEF Collect
<1>4. Len(batch) < BatchMax
  BY <1>1 DEF Collect, BatchHasRoom
<1>5. spotChan' \in BoundedSeq(Spot, Cap) /\ batch' \in BoundedSeq(Spot, BatchMax)
  <2>1. Len(spotChan') <= Cap /\ Len(batch') <= BatchMax
    BY <1>1, <1>2, <1>3, <1>4
  <2>. QED
    BY <1>1, <1>2, <1>3, <2>1, BoundedSeqs
<1>6. TypeOK'
  BY <1>5 DEF Collect, TypeOK, emitting
<1>7. BatchHasRoom'
  BY DEF Collect, BatchHasRoom
<1>8. \A x \in Event : InMemory(x) => InMemory(x)'
  BY <1>2, <1>3 DEF Collect, InMemory, emitting
<1>. QED
  BY <1>6, <1>7, <1>8

LEMMA SendPassesOn ==
  ASSUME TypeOK, Send
  PROVE  /\ TypeOK' /\ BatchHasRoom'
         /\ \A x \in Event : InMemory(x) => InMemory(x)'
<1>1. batch \in BoundedSeq(Spot, BatchMax) /\ BatchMax \in Nat
  BY LimitsAssumption DEF TypeOK
<1>2. batches' \in BoundedSeq(BoundedSeq(Spot, BatchMax), 1) /\ batches' # <<>>
      /\ Head(batches') = batch
  BY <1>1, OneElement DEF Send
<1>3. <<>> \in BoundedSeq(Spot, BatchMax) /\ ToSet(<<>>) = {}
  BY <1>1, EmptyIsBounded
<1>4. TypeOK'
  BY <1>2, <1>3 DEF Send, TypeOK, emitting
<1>5. BatchHasRoom'
  BY DEF Send, BatchHasRoom
<1>6. \A x \in Event : InMemory(x) => InMemory(x)'
  BY <1>2 DEF Send, InMemory, emitting
<1>. QED
  BY <1>4, <1>5, <1>6
\* Main gives what it takes to a handler.
LEMMA TakePassesOn ==
  ASSUME TypeOK, TakeBatch \/ TakeTerm
  PROVE  /\ TypeOK'
         /\ \A x \in Event : InMemory(x) => InMemory(x)' \/ x \in handled'
         /\ \A x \in handled : queue[x] # "deleted" => x \in handled'
<1>1. \A x \in handled : queue[x] # "deleted" => x \in handled'
  BY DEF TakeBatch, TakeTerm, Take
<1>2. CASE TakeBatch
  <2>1. ToSet(Head(batches)) \subseteq Spot
    BY <1>2, ChannelTypes DEF TakeBatch
  <2>2. <<>> \in BoundedSeq(BoundedSeq(Spot, BatchMax), 1)
    BY EmptyIsBounded
  <2>3. handled' = {m \in handled : queue[m] # "deleted"} \cup ToSet(Head(batches))
    BY <1>2 DEF TakeBatch, Take
  <2>4. TypeOK'
    BY <1>2, <2>1, <2>2, <2>3 DEF TakeBatch, TypeOK, emitting, Event
  <2>5. \A x \in Event : InMemory(x) => InMemory(x)' \/ x \in handled'
    BY <1>2, <2>3 DEF TakeBatch, InMemory, emitting
  <2>. QED
    BY <1>1, <2>4, <2>5
<1>3. CASE TakeTerm
  <2>1. termChan \in Seq(Term) /\ termChan # <<>> /\ Cap \in Nat /\ Len(termChan) <= Cap
    BY <1>3, ChannelTypes, LimitsAssumption DEF TakeTerm
  <2>2. /\ Head(termChan) \in Term /\ termChan' \in Seq(Term)
        /\ Len(termChan') = Len(termChan) - 1
        /\ ToSet(termChan) = ToSet(termChan') \cup {Head(termChan)}
    BY <1>3, <2>1, TakeElements DEF TakeTerm
  <2>3. termChan' \in BoundedSeq(Term, Cap)
    <3>1. Len(termChan') <= Cap
      BY <2>1, <2>2
    <3>. QED
      BY <2>1, <2>2, <3>1, BoundedSeqs
  <2>4. handled' = {m \in handled : queue[m] # "deleted"} \cup {Head(termChan)}
    BY <1>3 DEF TakeTerm, Take
  <2>5. TypeOK'
    BY <1>3, <2>2, <2>3, <2>4 DEF TakeTerm, TypeOK, emitting, batching, Event
  <2>6. \A x \in Event : InMemory(x) => InMemory(x)' \/ x \in handled'
    BY <1>3, <2>2, <2>4 DEF TakeTerm, InMemory, emitting, batching
  <2>. QED
    BY <1>1, <2>5, <2>6
<1>. QED
  BY <1>2, <1>3

\* A step that passes on what is in memory, of the messages of the last answer too.
LEMMA StillAccounted ==
  ASSUME GotUndeleted, Accounted, UNCHANGED <<queue, got, unheard>>,
         \A x \in Event : InMemory(x) => InMemory(x)' \/ x \in handled',
         \A x \in handled : queue[x] # "deleted" => x \in handled'
  PROVE  GotUndeleted' /\ Accounted'
BY DEF GotUndeleted, Accounted

LEMMA NextIInv == IInv /\ [Next]_vars => IInv'
<1>. SUFFICES ASSUME IInv, [Next]_vars PROVE IInv'
  OBVIOUS
<1>. TypeOK /\ AllPushed /\ GotUndeleted /\ BatchHasRoom /\ Accounted
  BY DEF IInv
<1>1. CASE Run
  BY <1>1, RunIInv
<1>2. CASE Batcher
  <2>1. CASE Collect
    <3>1. AllPushed' /\ UNCHANGED <<queue, got, unheard, handled>>
      BY <2>1 DEF Collect, AllPushed, emitting
    <3>. QED
      BY <2>1, <3>1, CollectPassesOn, StillAccounted DEF IInv
  <2>2. CASE TimerFires
    BY <2>2 DEF TimerFires, IInv, TypeOK, AllPushed, GotUndeleted, BatchHasRoom, Accounted,
                InMemory, emitting
  <2>3. CASE Send
    <3>1. AllPushed' /\ UNCHANGED <<queue, got, unheard, handled>>
      BY <2>3 DEF Send, AllPushed, emitting
    <3>. QED
      BY <2>3, <3>1, SendPassesOn, StillAccounted DEF IInv
  <2>. QED
    BY <1>2, <2>1, <2>2, <2>3 DEF Batcher
<1>3. ASSUME NEW m \in Message, Push(m)
      PROVE  IInv'
  <2>1. AllPushed' /\ BatchHasRoom' /\ UNCHANGED <<queue, got, unheard, handled>>
    BY <1>3 DEF Push, AllPushed, BatchHasRoom, batching
  <2>. QED
    BY <1>3, <2>1, PushPassesOn, StillAccounted DEF IInv
<1>4. ASSUME NEW m \in Message, Reappear(m)
      PROVE  IInv'
  <2>1. TypeOK' /\ GotUndeleted'
    BY <1>4 DEF Reappear, TypeOK, GotUndeleted, emitting, batching
  <2>. QED
    BY <1>4, <2>1
    DEF Reappear, IInv, AllPushed, BatchHasRoom, Accounted, InMemory, emitting, batching
<1>5. CASE TakeBatch \/ TakeTerm
  <2>1. AllPushed' /\ BatchHasRoom' /\ UNCHANGED <<queue, got, unheard>>
    BY <1>5 DEF TakeBatch, TakeTerm, AllPushed, BatchHasRoom, emitting, batching
  <2>. QED
    BY <1>5, <2>1, TakePassesOn, StillAccounted DEF IInv
<1>6. CASE Register \/ OtherFails \/ MainStops \/ UNCHANGED vars
  BY <1>6 DEF Register, OtherFails, MainStops, vars, IInv, TypeOK, AllPushed, GotUndeleted,
              BatchHasRoom, Accounted, InMemory, emitting, batching
<1>7. CASE MainExits \/ Crash
  BY <1>7, RestartIInv DEF MainExits, Crash
<1>. QED
  BY <1>1, <1>2, <1>3, <1>4, <1>5, <1>6, <1>7 DEF Next

LEMMA SpecIInv == Spec => []IInv
BY InitIInv, NextIInv, PTL DEF Spec

-----------------------------------------------------------------------------
\* Every variable keeps its type; in particular no channel and no batch outgrows
\* its capacity, and only events are pushed.
THEOREM TypeCorrect == Spec => []TypeOK
<1>1. IInv => TypeOK
  BY DEF IInv
<1>. QED
  BY <1>1, SpecIInv, PTL

\* No message is deleted while its event still waits for room in a channel.
THEOREM DeletedAfterEmitted == Spec => []DeletedIsEmitted
<1>1. IInv => DeletedIsEmitted
  BY DEF IInv, TypeOK, GotUndeleted, DeletedIsEmitted
<1>. QED
  BY <1>1, SpecIInv, PTL

\* While the process lives no event is lost on its way from the queue to a handler,
\* but for those emitted before Main had registered its listeners.
THEOREM NoEventVanishes == Spec => NothingVanishes
<1>1. ASSUME IInv, [Next]_vars
      PROVE  [\A m \in Event : Kept(m) /\ ~Kept(m)'
                => m \in unheard \cup handled \cup handled' \/ main' = "boot"]_vars
  <2>. SUFFICES ASSUME NEW m \in Event, Kept(m), ~Kept(m)', main' # "boot"
                PROVE  m \in unheard \cup handled \cup handled'
    OBVIOUS
  <2>. TypeOK /\ AllPushed /\ GotUndeleted /\ BatchHasRoom /\ Accounted /\ m \in Message
    BY <1>1 DEF IInv, Message
  <2>1. CASE Run
    <3>1. CASE \E msgs \in SomeMessages : Receive(msgs)
      BY <3>1 DEF Receive, Kept, InMemory, batching, AllPushed
    <3>2. CASE \E x \in Message : Emit(x)
      BY <3>2 DEF Emit, Kept, InMemory, batching, TypeOK, GotUndeleted
    <3>3. CASE Delete
      BY <3>3 DEF Delete, Kept, InMemory, batching, Accounted
    <3>4. CASE Emitted \/ RunReturns
      BY <3>4 DEF Emitted, RunReturns, Kept, InMemory, batching
    <3>. QED
      BY <2>1, <3>1, <3>2, <3>3, <3>4 DEF Run
  <2>2. CASE Batcher \/ \E x \in Message : Push(x)
    <3>1. InMemory(m) => InMemory(m)'
      BY <2>2, CollectPassesOn, SendPassesOn, PushPassesOn
      DEF Batcher, TimerFires, InMemory, emitting
    <3>. QED
      BY <2>2, <3>1 DEF Batcher, Collect, Send, TimerFires, Push, Kept
  <2>3. CASE TakeBatch \/ TakeTerm
    <3>1. InMemory(m) => InMemory(m)' \/ m \in handled'
      BY <2>3, TakePassesOn
    <3>. QED
      BY <2>3, <3>1 DEF TakeBatch, TakeTerm, Kept
  <2>4. CASE \E x \in Message : Reappear(x)
    BY <2>4 DEF Reappear, Kept, InMemory, TypeOK, emitting, batching
  <2>5. CASE Register \/ OtherFails \/ MainStops \/ UNCHANGED vars
    BY <2>5 DEF Register, OtherFails, MainStops, vars, Kept, InMemory, emitting, batching
  <2>6. CASE MainExits \/ Crash
    BY <2>6 DEF MainExits, Crash, Restart
  <2>. QED
    BY <1>1, <2>1, <2>2, <2>3, <2>4, <2>5, <2>6 DEF Next
<1>. QED
  BY <1>1, SpecIInv, PTL DEF Spec, NothingVanishes
=============================================================================
