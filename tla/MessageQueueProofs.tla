------------------------- MODULE MessageQueueProofs -------------------------
(***************************************************************************)
(* The hand-over of MessageQueue is safe for any number of producers and   *)
(* messages: the queue is accessed by one thread at a time, nothing is     *)
(* lost, duplicated or overtaken, a draining taker leaves an empty queue,  *)
(* and the hand-over implements the abstract FifoChannel.                  *)
(***************************************************************************)
EXTENDS MessageQueue, SequenceTheorems, TLAPS

\* A producer that is about to push is below its bound: it tested before.
RoomToPush == \A p \in Producers : ppc[p] = "push" => puts[p] < MaxPuts

\* The messages of a producer are numbered in the order they were accepted,
\* and none is numbered beyond what the producer has put.
AcceptedOrder ==
  /\ \A i \in 1 .. Len(accepted) : accepted[i][2] <= puts[accepted[i][1]]
  /\ \A i, j \in 1 .. Len(accepted) :
       i < j /\ accepted[i][1] = accepted[j][1]
         => accepted[i][2] < accepted[j][2]

\* The inductive invariant. DrainedOnUnlock needs MutualExclusion (nobody
\* pushes while the taker is about to unlock), ProducerOrder follows from
\* AcceptedOrder and NothingLost.
QueueInv ==
  /\ TypeOK /\ MutualExclusion /\ RoomToPush
  /\ NothingLost /\ DrainedOnUnlock /\ AcceptedOrder

-----------------------------------------------------------------------------
(* The front of the queue may move to the end of what was taken.           *)

LEMMA MoveFront ==
  ASSUME NEW S, NEW s \in Seq(S), NEW q \in Seq(S), q # <<>>
  PROVE  /\ Append(s, Head(q)) \o Tail(q) = s \o q
         /\ Append(s, Head(q)) \in Seq(S) /\ Tail(q) \in Seq(S)
<1>1. Head(q) \in S /\ Tail(q) \in Seq(S) /\ Len(Tail(q)) = Len(q) - 1
  BY HeadTailProperties
<1>2. \A i \in 1 .. Len(Tail(q)) : Tail(q)[i] = q[i + 1]
  BY HeadTailProperties
<1>3. Len(q) \in Nat /\ Len(q) > 0 /\ Len(s) \in Nat
  BY EmptySeq, LenProperties
<1> DEFINE a == Append(s, Head(q))
           t == Tail(q)
<1>4. a \in Seq(S) /\ Len(a) = Len(s) + 1
      /\ \A i \in 1 .. Len(s) + 1 : a[i] = IF i <= Len(s) THEN s[i] ELSE Head(q)
  BY <1>1, AppendProperties
<1>5. Head(q) = q[1]
  BY <1>3
<1>6. t \in Seq(S) /\ Len(t) = Len(q) - 1
      /\ \A i \in 1 .. Len(t) : t[i] = q[i + 1]
  BY <1>1, <1>2
<1> HIDE DEF a, t
<1>7. /\ a \o t \in Seq(S)
      /\ Len(a \o t) = Len(a) + Len(t)
      /\ \A i \in 1 .. Len(a) + Len(t) :
           (a \o t)[i] = IF i <= Len(a) THEN a[i] ELSE t[i - Len(a)]
  BY <1>4, <1>6, ConcatProperties
<1>8. /\ s \o q \in Seq(S)
      /\ Len(s \o q) = Len(s) + Len(q)
      /\ \A i \in 1 .. Len(s) + Len(q) :
           (s \o q)[i] = IF i <= Len(s) THEN s[i] ELSE q[i - Len(s)]
  BY ConcatProperties
<1>9. Len(a \o t) = Len(s \o q)
  BY <1>3, <1>4, <1>6, <1>7, <1>8
<1>10. ASSUME NEW i \in 1 .. Len(a \o t)
       PROVE  (a \o t)[i] = (s \o q)[i]
  <2>1. i \in 1 .. Len(s) + Len(q) /\ i \in Int /\ Len(s) \in Int
    BY <1>3, <1>8, <1>9
  <2>2. CASE i <= Len(s)
    BY <2>1, <2>2, <1>3, <1>4, <1>6, <1>7, <1>8
  <2>3. CASE i = Len(s) + 1
    BY <2>1, <2>3, <1>3, <1>4, <1>5, <1>6, <1>7, <1>8
  <2>4. CASE i > Len(s) + 1
    <3>1. i - Len(a) \in 1 .. Len(t) /\ (i - Len(a)) + 1 = i - Len(s)
      BY <2>1, <2>4, <1>3, <1>4, <1>6
    <3>2. t[i - Len(a)] = q[i - Len(s)]
      BY <3>1, <1>6
    <3> QED
      BY <2>1, <2>4, <3>1, <3>2, <1>3, <1>4, <1>6, <1>7, <1>8
  <2> QED
    BY <2>1, <2>2, <2>3, <2>4
<1>11. a \o t = s \o q
  BY <1>7, <1>8, <1>9, <1>10, SeqEqual
<1> QED
  BY <1>1, <1>4, <1>11 DEF a, t

-----------------------------------------------------------------------------
LEMMA InitQueueInv == Init => QueueInv
<1> SUFFICES ASSUME Init PROVE QueueInv
  OBVIOUS
<1> USE QueueAssumption DEF Init
<1>1. TypeOK
  BY EmptySeq DEF TypeOK, ProducerPoints, TakerPoints
<1>2. MutualExclusion /\ RoomToPush
  BY DEF MutualExclusion, InPut, InTake, RoomToPush
<1>3. NothingLost
  BY ConcatEmptySeq, EmptySeq DEF NothingLost
<1>4. DrainedOnUnlock /\ AcceptedOrder
  BY EmptySeq DEF DrainedOnUnlock, AcceptedOrder
<1> QED
  BY <1>1, <1>2, <1>3, <1>4 DEF QueueInv

\* Every step but a push and a pop leaves the messages where they are.
Stays ==
  /\ UNCHANGED data
  /\ \A p \in Producers : ppc'[p] = "push" => puts[p] < MaxPuts
  /\ cpc' = "unlock" => queue = <<>> \/ ~drains

LEMMA StaysInv ==
  ASSUME QueueInv, TypeOK', MutualExclusion', Stays
  PROVE  QueueInv'
BY DEF QueueInv, Stays, data, RoomToPush, NothingLost, DrainedOnUnlock,
       AcceptedOrder

LEMMA NextQueueInv == QueueInv /\ [Next]_vars => QueueInv'
<1> SUFFICES ASSUME QueueInv, [Next]_vars PROVE QueueInv'
  OBVIOUS
<1> USE QueueAssumption DEF QueueInv
<1>1. ASSUME NEW p \in Producers, PutLock(p) PROVE QueueInv'
  <2>1. TypeOK'
    BY <1>1 DEF PutLock, data, TypeOK, ProducerPoints
  <2>2. MutualExclusion'
    BY <1>1 DEF PutLock, data, TypeOK, ProducerPoints, MutualExclusion, InPut,
                InTake
  <2>3. Stays
    BY <1>1 DEF PutLock, Stays, data, TypeOK, RoomToPush, DrainedOnUnlock,
                MutualExclusion, InTake
  <2> QED
    BY <2>1, <2>2, <2>3, StaysInv
<1>2. ASSUME NEW p \in Producers, PutPush(p) PROVE QueueInv'
  <2> DEFINE m == <<p, puts[p] + 1>>
  <2>1. m \in Message /\ puts[p] \in 0 .. MaxPuts /\ puts[p] < MaxPuts
    BY <1>2 DEF PutPush, Message, TypeOK, RoomToPush
  <2>2. TypeOK'
    <3>1. Append(queue, m) \in Seq(Message) /\ Append(accepted, m) \in Seq(Message)
      BY <2>1, AppendProperties DEF TypeOK
    <3> QED
      BY <1>2, <2>1, <3>1 DEF PutPush, TypeOK, ProducerPoints
  <2>3. mutex = p /\ ~InTake
    BY <1>2 DEF PutPush, MutualExclusion, InPut, TypeOK
  <2>4. MutualExclusion' /\ RoomToPush' /\ DrainedOnUnlock'
    BY <1>2, <2>3 DEF PutPush, TypeOK, ProducerPoints, MutualExclusion, InPut,
                      InTake, RoomToPush, DrainedOnUnlock
  <2>5. NothingLost'
    <3>1. accepted = taken \o queue
      BY DEF NothingLost
    <3>2. taken \in Seq(Message) /\ queue \in Seq(Message)
      BY DEF TypeOK
    <3>3. /\ accepted' = Append(accepted, m) /\ queue' = Append(queue, m)
          /\ taken' = taken
      BY <1>2 DEF PutPush
    <3>4. m \in Message
      BY <2>1
    <3> HIDE DEF m, Message, QueueInv
    <3>5. Append(accepted, m) = taken \o Append(queue, m)
      <4>1. accepted \in Seq(Message)
        BY <3>1, <3>2, ConcatProperties
      <4>2. Append(accepted, m) = accepted \o <<m>>
        BY <3>4, <4>1, AppendIsConcat
      <4>3. Append(queue, m) = queue \o <<m>>
        BY <3>2, <3>4, AppendIsConcat
      <4>4. <<m>> \in Seq(Message)
        BY <3>4
      <4> QED
        BY <3>1, <3>2, <4>2, <4>3, <4>4, ConcatAssociative
    <3> QED
      BY <3>3, <3>5 DEF NothingLost
  <2>6. AcceptedOrder'
    <3>1. /\ Len(accepted') = Len(accepted) + 1 /\ Len(accepted) \in Nat
          /\ \A i \in 1 .. Len(accepted) : accepted'[i] = accepted[i]
          /\ accepted'[Len(accepted) + 1] = m
      BY <1>2, <2>1, AppendProperties, LenProperties DEF PutPush, TypeOK
    <3>2. \A i \in 1 .. Len(accepted) : accepted[i] \in Message
      BY ElementOfSeq DEF TypeOK
    <3>3. puts' = [puts EXCEPT ![p] = puts[p] + 1] /\ puts \in [Producers -> Nat]
      BY <1>2 DEF PutPush, TypeOK
    <3>4. \A i \in 1 .. Len(accepted) :
            /\ accepted[i][1] \in Producers /\ accepted[i][2] \in Nat
            /\ accepted[i][2] <= puts[accepted[i][1]]
      BY <3>2 DEF AcceptedOrder, Message
    <3>5. ASSUME NEW i \in 1 .. Len(accepted')
          PROVE  accepted'[i][2] <= puts'[accepted'[i][1]]
      <4>1. CASE i = Len(accepted) + 1
        BY <4>1, <3>1, <3>3
      <4>2. CASE i \in 1 .. Len(accepted)
        BY <4>2, <3>1, <3>3, <3>4
      <4> QED
        BY <4>1, <4>2, <3>1
    <3>6. ASSUME NEW i \in 1 .. Len(accepted'), NEW j \in 1 .. Len(accepted'),
                 i < j, accepted'[i][1] = accepted'[j][1]
          PROVE  accepted'[i][2] < accepted'[j][2]
      <4>1. i \in 1 .. Len(accepted)
        BY <3>1, <3>6
      <4>2. CASE j = Len(accepted) + 1
        BY <4>1, <4>2, <3>1, <3>3, <3>4, <3>6
      <4>3. CASE j \in 1 .. Len(accepted)
        BY <4>1, <4>3, <3>1, <3>6 DEF AcceptedOrder
      <4> QED
        BY <4>2, <4>3, <3>1
    <3> QED
      BY <3>5, <3>6 DEF AcceptedOrder
  <2> QED
    BY <2>2, <2>4, <2>5, <2>6
<1>3. ASSUME NEW p \in Producers, PutSignal(p) PROVE QueueInv'
  <2>1. TypeOK'
    BY <1>3 DEF PutSignal, data, TypeOK, ProducerPoints, TakerPoints
  <2>2. MutualExclusion'
    BY <1>3 DEF PutSignal, data, TypeOK, MutualExclusion, InPut, InTake
  <2>3. Stays
    BY <1>3 DEF PutSignal, Stays, data, TypeOK, RoomToPush, DrainedOnUnlock
  <2> QED
    BY <2>1, <2>2, <2>3, StaysInv
<1>4. ASSUME NEW p \in Producers, PutUnlock(p) PROVE QueueInv'
  <2>1. TypeOK'
    BY <1>4 DEF PutUnlock, data, TypeOK, ProducerPoints
  <2>2. mutex = p
    BY <1>4 DEF PutUnlock, MutualExclusion, InPut
  <2>3. MutualExclusion'
    BY <1>4, <2>2 DEF PutUnlock, data, TypeOK, MutualExclusion, InPut, InTake
  <2>4. Stays
    BY <1>4 DEF PutUnlock, Stays, data, TypeOK, RoomToPush, DrainedOnUnlock
  <2> QED
    BY <2>1, <2>3, <2>4, StaysInv
<1>5. ASSUME TakeLoop \/ TakeLock \/ TakeWait \/ SpuriousWakeup \/ TakeRelock
             \/ TakeEmpty \/ TakeUnlock
      PROVE  QueueInv'
  <2>1. TypeOK'
    BY <1>5 DEF TakeLoop, TakeLock, TakeWait, SpuriousWakeup, TakeRelock,
                TakeEmpty, TakeUnlock, data, TypeOK, TakerPoints
  <2>2. MutualExclusion'
    BY <1>5 DEF TakeLoop, TakeLock, TakeWait, SpuriousWakeup, TakeRelock,
                TakeEmpty, TakeUnlock, data, TypeOK, MutualExclusion, InPut,
                InTake
  <2>3. Stays
    BY <1>5 DEF TakeLoop, TakeLock, TakeWait, SpuriousWakeup, TakeRelock,
                TakeEmpty, TakeUnlock, Stays, data, RoomToPush
  <2> QED
    BY <2>1, <2>2, <2>3, StaysInv
<1>6. ASSUME TakePop PROVE QueueInv'
  <2>1. /\ Append(taken, Head(queue)) \o Tail(queue) = taken \o queue
        /\ Append(taken, Head(queue)) \in Seq(Message)
        /\ Tail(queue) \in Seq(Message)
    BY <1>6, MoveFront DEF TakePop, TypeOK
  <2>2. TypeOK'
    BY <1>6, <2>1 DEF TakePop, TypeOK, TakerPoints
  <2>3. mutex = "taker"
    BY <1>6 DEF TakePop, MutualExclusion, InTake
  <2>4. MutualExclusion' /\ RoomToPush' /\ DrainedOnUnlock'
    BY <1>6, <2>3 DEF TakePop, TypeOK, MutualExclusion, InPut, InTake,
                      RoomToPush, DrainedOnUnlock
  <2>5. NothingLost' /\ AcceptedOrder'
    BY <1>6, <2>1 DEF TakePop, NothingLost, AcceptedOrder
  <2> QED
    BY <2>2, <2>4, <2>5
<1>7. ASSUME Stop PROVE QueueInv'
  <2>1. TypeOK' /\ MutualExclusion' /\ Stays
    BY <1>7 DEF Stop, data, TypeOK, MutualExclusion, InPut, InTake, Stays,
                RoomToPush, DrainedOnUnlock
  <2> QED
    BY <2>1, StaysInv
<1>8. CASE UNCHANGED vars
  BY <1>8 DEF vars, TypeOK, MutualExclusion, InPut, InTake, RoomToPush,
              NothingLost, DrainedOnUnlock, AcceptedOrder
<1> QED
  BY <1>1, <1>2, <1>3, <1>4, <1>5, <1>6, <1>7, <1>8 DEF Next, Take, Put

LEMMA SpecQueueInv == Spec => []QueueInv
BY InitQueueInv, NextQueueInv, PTL DEF Spec

-----------------------------------------------------------------------------
(* Every variable of the hand-over keeps its type.                         *)
THEOREM TypeCorrect == Spec => []TypeOK
<1>1. QueueInv => TypeOK
  BY DEF QueueInv
<1> QED
  BY <1>1, SpecQueueInv, PTL

(* No two threads are ever inside the critical sections of one queue.      *)
THEOREM QueueIsExclusive == Spec => []MutualExclusion
<1>1. QueueInv => MutualExclusion
  BY DEF QueueInv
<1> QED
  BY <1>1, SpecQueueInv, PTL

(* What was put is what was taken followed by what is queued.              *)
THEOREM NoMessageLost == Spec => []NothingLost
<1>1. QueueInv => NothingLost
  BY DEF QueueInv
<1> QED
  BY <1>1, SpecQueueInv, PTL

(* A draining taker gives the mutex back on an empty queue only.           *)
THEOREM DrainsBeforeUnlock == Spec => []DrainedOnUnlock
<1>1. QueueInv => DrainedOnUnlock
  BY DEF QueueInv
<1> QED
  BY <1>1, SpecQueueInv, PTL

(* The messages of one thread are taken in the order it put them.          *)
THEOREM ProducersInOrder == Spec => []ProducerOrder
<1>1. QueueInv => ProducerOrder
  <2> SUFFICES ASSUME QueueInv PROVE ProducerOrder
    OBVIOUS
  <2>1. taken \in Seq(Message) /\ queue \in Seq(Message)
    BY DEF QueueInv, TypeOK
  <2>2. /\ Len(taken) \in Nat /\ Len(queue) \in Nat
        /\ DOMAIN taken = 1 .. Len(taken)
    BY <2>1, LenProperties
  <2>3. /\ Len(accepted) = Len(taken) + Len(queue)
        /\ \A i \in 1 .. Len(taken) : accepted[i] = taken[i]
    BY <2>1, <2>2, ConcatProperties DEF QueueInv, NothingLost
  <2> QED
    BY <2>2, <2>3 DEF QueueInv, AcceptedOrder, ProducerOrder
<1> QED
  BY <1>1, SpecQueueInv, PTL

(* The hand-over implements the channel: a push is an Accept, a pop is a   *)
(* Deliver, every other step leaves both histories alone.                  *)
THEOREM ImplementsChannel == Spec => ChannelSpec
<1>1. Init => Channel!Init
  BY DEF Init, Channel!Init
<1>2. QueueInv /\ [Next]_vars => [Channel!Next]_(Channel!vars)
  <2> SUFFICES ASSUME QueueInv, [Next]_vars
               PROVE  [Channel!Next]_(Channel!vars)
    OBVIOUS
  <2>1. ASSUME NEW p \in Producers, PutPush(p) PROVE Channel!Next
    <3>1. <<p, puts[p] + 1>> \in Message
      BY <2>1, QueueAssumption DEF PutPush, Message, QueueInv, TypeOK, RoomToPush
    <3>2. Channel!Accept(<<p, puts[p] + 1>>)
      BY <2>1 DEF PutPush, Channel!Accept
    <3> QED
      BY <3>1, <3>2 DEF Channel!Next
  <2>2. ASSUME TakePop PROVE Channel!Next
    <3>1. taken \in Seq(Message) /\ queue \in Seq(Message) /\ queue # <<>>
      BY <2>2 DEF TakePop, QueueInv, TypeOK
    <3>2. Len(taken) \in Nat /\ Len(queue) \in Nat /\ Len(queue) > 0
      BY <3>1, LenProperties, EmptySeq
    <3>3. accepted = taken \o queue
      BY DEF QueueInv, NothingLost
    <3>4. Len(accepted) = Len(taken) + Len(queue)
          /\ accepted[Len(taken) + 1] = queue[1]
      BY <3>1, <3>2, <3>3, ConcatProperties
    <3>5. Channel!Deliver
      BY <2>2, <3>2, <3>4 DEF TakePop, Channel!Deliver
    <3> QED
      BY <3>5 DEF Channel!Next
  <2>3. CASE UNCHANGED <<accepted, taken>>
    BY <2>3 DEF Channel!vars
  <2> QED
    BY <2>1, <2>2, <2>3 DEF Next, Take, Put, PutLock, PutSignal, PutUnlock,
       TakeLoop, TakeLock, TakeWait, SpuriousWakeup, TakeRelock, TakeEmpty,
       TakeUnlock, Stop, vars, data
<1> QED
  BY <1>1, <1>2, SpecQueueInv, PTL DEF Spec, ChannelSpec, Channel!Spec
=============================================================================
