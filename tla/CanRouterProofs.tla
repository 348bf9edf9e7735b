-------------------------- MODULE CanRouterProofs --------------------------
(***************************************************************************)
(* Proofs about the router, for any number of clients and frames: its      *)
(* state keeps its types; nobody hears himself; the frames of one thread   *)
(* never overtake one another, whichever way they take, and none overtakes *)
(* another on its way to the bus; the router implements the abstract       *)
(* switch FrameBus; and no frame is forgotten: for everybody it is         *)
(* promised to, but the other throttles of a turnout command, the frame    *)
(* has arrived or is still on its way there.                               *)
(***************************************************************************)
EXTENDS CanRouter, TLAPS

-----------------------------------------------------------------------------
(* The types.                                                              *)

LEMMA FrameParts ==
  /\ NoFrame \in Frame
  /\ \A f \in Frame : f.src \in Sources /\ f.seq \in Nat /\ f.kind \in Kinds
  BY DEF NoFrame, Frame, Sources, Kinds

LEMMA NewFrame ==
  ASSUME TypeOK, NEW s \in Sources, NEW k \in Kinds
  PROVE  /\ New(s, k) \in Frame
         /\ New(s, k).src = s /\ New(s, k).kind = k /\ New(s, k).seq = sent + 1
<1>1. sent + 1 \in Nat
  BY DEF TypeOK
<1> QED
  BY <1>1 DEF New, Frame

\* A new frame that enters is one more.
LEMMA EnterTyped ==
  ASSUME TypeOK, NEW f \in Frame, Enter(f)
  PROVE  sent' \in Nat /\ posted' \subseteq Frame
  BY FrameParts DEF TypeOK, Enter

LEMMA QueueParts ==
  ASSUME NEW S, NEW q \in Seq(S), q # <<>>
  PROVE  Head(q) \in S /\ Tail(q) \in Seq(S)
  OBVIOUS

LEMMA AppendTyped ==
  ASSUME NEW S, NEW q \in Seq(S), NEW x \in S
  PROVE  Append(q, x) \in Seq(S)
  OBVIOUS

LEMMA InitTyped == Init => TypeOK
<1> SUFFICES ASSUME Init PROVE TypeOK
  OBVIOUS
<1> USE DEF Init
<1>1. what \in [Senders -> Frame] /\ sent \in Nat
  BY FrameParts
<1>2. client \in [Threads -> ClientPoints] /\ todo \in [Senders -> SUBSET Clients]
  BY DEF ClientPoints
<1>3. rcvd \in [Clients -> Seq(Frame)]
  OBVIOUS
<1>4. inQ \in Seq(Frame) /\ outQ \in Seq(Frame) /\ wire \in Seq(Frame)
  OBVIOUS
<1> QED
  BY <1>1, <1>2, <1>3, <1>4 DEF TypeOK, ReaderPoints, WriterPoints

LEMMA VisitTyped ==
  ASSUME TypeOK, NEW t \in Senders, NEW c \in Clients, Visit(t, c)
  PROVE  TypeOK'
<1>1. what[t] \in Frame /\ rcvd[c] \in Seq(Frame) /\ todo[t] \in SUBSET Clients
  BY DEF TypeOK
<1>2. rcvd' \in [Clients -> Seq(Frame)]
  BY <1>1 DEF TypeOK, Visit
<1>3. todo' \in [Senders -> SUBSET Clients]
  BY <1>1 DEF TypeOK, Visit
<1> QED
  BY <1>2, <1>3 DEF TypeOK, Visit, bus, entry, senders

LEMMA ReaderTyped == ASSUME TypeOK, Reader PROVE TypeOK'
<1> USE DEF TypeOK, bus, entry, senders, ReaderPoints, ReaderGoto
<1>1. CASE ReaderWait \/ ReaderWake \/ ReaderEmpty \/ ReaderAnswered \/ ReaderRtrDone
  BY <1>1 DEF ReaderWait, ReaderWake, ReaderEmpty, ReaderAnswered, ReaderRtrDone
<1>2. CASE ReaderPop
  BY <1>2, QueueParts DEF ReaderPop, Senders
<1>3. CASE ReaderHandle
  BY <1>3 DEF ReaderHandle
<1>4. CASE ReaderAnswer \/ ReaderRtr
  <2> DEFINE r == New("node", "data")
  <2>1. r \in Frame
    BY NewFrame DEF Sources, Kinds
  <2>2. Enter(r) /\ PutOut(r) /\ reader' \in {"answer", "rtrAnswer"}
        /\ what' = [what EXCEPT !["answer"] = r]
        /\ todo' = [todo EXCEPT !["answer"] = OutTargets(r)]
        /\ UNCHANGED <<inQ, client, rcvd, bus>>
    BY <1>4 DEF ReaderAnswer, ReaderRtr, Answer
  <2> HIDE DEF r
  <2>3. sent' \in Nat /\ posted' \subseteq Frame
    BY <2>1, <2>2, EnterTyped
  <2>4. OutTargets(r) \subseteq Clients
    BY DEF OutTargets, Clients
  <2>5. outQ' \in Seq(Frame) /\ writer' \in WriterPoints
    BY <2>1, <2>2 DEF PutOut, WriterPoints
  <2>6. what' \in [Senders -> Frame] /\ todo' \in [Senders -> SUBSET Clients]
    BY <2>1, <2>2, <2>4
  <2> QED
    BY <2>2, <2>3, <2>5, <2>6
<1>5. CASE ReaderRoute
  <2>1. ReaderTargets(what["reader"]) \subseteq Clients
    BY DEF ReaderTargets, ServerTargets, Clients
  <2> QED
    BY <1>5, <2>1 DEF ReaderRoute
<1>6. CASE ReaderSpreadDone
  BY <1>6, FrameParts DEF ReaderSpreadDone
<1>7. ASSUME NEW c \in Clients, Visit("reader", c) \/ Visit("answer", c) PROVE TypeOK'
  BY <1>7, VisitTyped DEF Senders
<1> QED
  BY <1>1, <1>2, <1>3, <1>4, <1>5, <1>6, <1>7 DEF Reader

LEMMA WriterTyped == ASSUME TypeOK, Writer PROVE TypeOK'
<1> USE DEF TypeOK, bus, entry, senders, WriterPoints, WriterGoto
<1>1. CASE WriterSend
  <2>1. Head(outQ) \in Frame /\ Tail(outQ) \in Seq(Frame)
    BY <1>1, QueueParts DEF WriterSend
  <2>2. outQ' \in Seq(Frame) /\ wire' \in Seq(Frame) /\ dropped' \subseteq Frame
    <3>1. CASE stopped
      BY <1>1, <2>1, <3>1 DEF WriterSend
    <3>2. CASE ~stopped
      <4>1. Append(wire, Head(outQ)) \in Seq(Frame)
        BY <2>1, AppendTyped
      <4> QED
        BY <1>1, <2>1, <3>2, <4>1 DEF WriterSend
    <3> QED
      BY <3>1, <3>2
  <2> QED
    BY <1>1, <2>2 DEF WriterSend
<1>2. CASE WriterWait \/ WriterWake \/ WriterEmpty
  BY <1>2 DEF WriterWait, WriterWake, WriterEmpty
<1> QED
  BY <1>1, <1>2 DEF Writer

LEMMA BusTyped == ASSUME TypeOK, NEW k \in BusFrames, BusFrame(k) PROVE TypeOK'
<1> DEFINE f == New("bus", k)
<1>1. f \in Frame
  BY NewFrame, RouterAssumption DEF Sources
<1>2. Enter(f) /\ PutIn(f) /\ UNCHANGED <<outQ, writer, todo, rcvd, bus, senders>>
  BY DEF BusFrame
<1> HIDE DEF f
<1>3. sent' \in Nat /\ posted' \subseteq Frame
  BY <1>1, <1>2, EnterTyped
<1> QED
  BY <1>1, <1>2, <1>3 DEF PutIn, TypeOK, bus, senders, ReaderPoints

LEMMA SendTyped == ASSUME TypeOK, NEW c \in Threads, ClientSend(c) PROVE TypeOK'
<1> SUFFICES ASSUME NEW k \in Kinds, NEW p \in {"toIn", "out"}, NEW T \in SUBSET Clients,
                    Enter(New(c, k)), PutOut(New(c, k)),
                    what' = [what EXCEPT ![c] = New(c, k)],
                    client' = [client EXCEPT ![c] = p],
                    todo' = [todo EXCEPT ![c] = T],
                    UNCHANGED <<inQ, reader, rcvd, bus>>
             PROVE  TypeOK'
  <2>1. ASSUME NEW k \in GridFrames, c \in Grid, GridSend(c, k) PROVE TypeOK'
    <3>1. todo' = [todo EXCEPT ![c] = todo[c]] /\ todo[c] \in SUBSET Clients
      BY <2>1 DEF GridSend, TypeOK, Senders
    <3> QED
      BY <2>1, <3>1, RouterAssumption DEF GridSend
  <2>2. ASSUME NEW k \in Kinds, EdSend(c, k) PROVE TypeOK'
    <3>1. OutTargets(New(c, k)) \in SUBSET Clients
      BY DEF OutTargets, Clients
    <3> QED
      BY <2>2, <3>1 DEF EdSend
  <2> QED
    BY <2>1, <2>2, RouterAssumption DEF ClientSend, Kinds
<1> DEFINE f == New(c, k)
<1>1. f \in Frame
  BY NewFrame DEF Sources
<1>2. sent' \in Nat /\ posted' \subseteq Frame
  BY <1>1, EnterTyped
<1> HIDE DEF f
<1> QED
  BY <1>1, <1>2 DEF PutOut, TypeOK, bus, Senders, ClientPoints, WriterPoints, f

LEMMA StepTyped == ASSUME TypeOK, NEW c \in Threads, ClientStep(c) PROVE TypeOK'
<1> USE DEF TypeOK, bus, entry, senders, ClientGoto, ClientPoints
<1>1. CASE GridToIn(c)
  BY <1>1 DEF GridToIn, PutIn, ReaderPoints, Senders
<1>2. CASE EdSent(c)
  BY <1>2 DEF EdSent
<1>3. CASE ClientPost(c)
  <2>1. PostTargets(c, what[c]) \subseteq Clients
    BY DEF PostTargets, Clients
  <2> QED
    BY <1>3, <2>1 DEF ClientPost
<1>4. CASE ClientDone(c)
  BY <1>4, FrameParts DEF ClientDone
<1>5. ASSUME NEW d \in Clients, Visit(c, d) PROVE TypeOK'
  BY <1>5, VisitTyped DEF Senders
<1> QED
  BY <1>1, <1>2, <1>3, <1>4, <1>5 DEF ClientStep

LEMMA NextTyped == TypeOK /\ [Next]_vars => TypeOK'
<1>1. CASE UNCHANGED vars
  BY <1>1 DEF vars, bus, entry, senders, TypeOK
<1> QED
  BY <1>1, ReaderTyped, WriterTyped, BusTyped, SendTyped, StepTyped DEF Next

\* Every queue, program point and count of the router keeps its type.
THEOREM RouterTyped == Spec => []TypeOK
  BY InitTyped, NextTyped, PTL DEF Spec

-----------------------------------------------------------------------------
(* Sequences of frames as sets, and their order.                           *)

In(s) == {s[i] : i \in DOMAIN s}

\* f comes first where both come from one source.
Before(f, x) == f.src = x.src => f.seq < x.seq
Behind(s, x) == \A f \in In(s) : Before(f, x)
Ahead(x, s) == \A f \in In(s) : Before(x, f)

LEMMA InAppend ==
  ASSUME NEW S, NEW s \in Seq(S), NEW x \in S
  PROVE  In(Append(s, x)) = In(s) \cup {x}
<1>1. DOMAIN Append(s, x) = DOMAIN s \cup {Len(s) + 1}
  OBVIOUS
<1>2. \A i \in DOMAIN s : Append(s, x)[i] = s[i]
  OBVIOUS
<1>3. Append(s, x)[Len(s) + 1] = x
  OBVIOUS
<1> QED
  BY <1>1, <1>2, <1>3 DEF In

LEMMA InTail ==
  ASSUME NEW S, NEW s \in Seq(S), s # <<>>
  PROVE  In(s) = {Head(s)} \cup In(Tail(s))
<1>1. \A i \in DOMAIN Tail(s) : i + 1 \in DOMAIN s /\ Tail(s)[i] = s[i + 1]
  OBVIOUS
<1>2. 1 \in DOMAIN s /\ Head(s) = s[1]
  OBVIOUS
<1>3. \A j \in DOMAIN s : j = 1 \/ (j - 1 \in DOMAIN Tail(s) /\ Tail(s)[j - 1] = s[j])
  OBVIOUS
<1>4. In(Tail(s)) \subseteq In(s) /\ Head(s) \in In(s)
  BY <1>1, <1>2 DEF In
<1>5. ASSUME NEW j \in DOMAIN s PROVE s[j] \in {Head(s)} \cup In(Tail(s))
  <2>1. CASE j = 1
    BY <1>2, <2>1
  <2>2. CASE j - 1 \in DOMAIN Tail(s) /\ Tail(s)[j - 1] = s[j]
    BY <2>2 DEF In
  <2> QED
    BY <1>3, <2>1, <2>2
<1> QED
  BY <1>4, <1>5 DEF In

\* The order of the bus: of whichever source.
AllBefore(s, x) == \A f \in In(s) : f.seq < x.seq
AllAfter(x, s) == \A f \in In(s) : x.seq < f.seq

LEMMA PushAppend ==
  ASSUME NEW s \in Seq(Frame), NEW x \in Frame, InPushOrder(s), AllBefore(s, x)
  PROVE  InPushOrder(Append(s, x))
<1>1. \A i \in DOMAIN Append(s, x) :
        \/ i \in DOMAIN s /\ Append(s, x)[i] = s[i]
        \/ i = Len(s) + 1 /\ Append(s, x)[i] = x
  OBVIOUS
<1>2. \A i, j \in DOMAIN Append(s, x) : i < j => i \in DOMAIN s
  OBVIOUS
<1>3. \A i \in DOMAIN s : s[i].seq < x.seq
  BY DEF AllBefore, In
<1> QED
  BY <1>1, <1>2, <1>3 DEF InPushOrder

LEMMA PushTail ==
  ASSUME NEW s \in Seq(Frame), s # <<>>, InPushOrder(s)
  PROVE  InPushOrder(Tail(s)) /\ AllAfter(Head(s), Tail(s))
<1>1. \A i \in DOMAIN Tail(s) :
        i \in Nat /\ i + 1 \in DOMAIN s /\ Tail(s)[i] = s[i + 1] /\ 1 < i + 1
  OBVIOUS
<1>2. 1 \in DOMAIN s /\ Head(s) = s[1]
  OBVIOUS
<1>3. InPushOrder(Tail(s))
  BY <1>1 DEF InPushOrder
<1>4. AllAfter(Head(s), Tail(s))
  BY <1>1, <1>2 DEF InPushOrder, AllAfter, In
<1> QED
  BY <1>3, <1>4

LEMMA OrderAppend ==
  ASSUME NEW s \in Seq(Frame), NEW x \in Frame, InSourceOrder(s), Behind(s, x)
  PROVE  InSourceOrder(Append(s, x))
<1>1. \A i \in DOMAIN Append(s, x) :
        \/ i \in DOMAIN s /\ Append(s, x)[i] = s[i]
        \/ i = Len(s) + 1 /\ Append(s, x)[i] = x
  OBVIOUS
<1>2. \A i, j \in DOMAIN Append(s, x) : i < j => i \in DOMAIN s
  OBVIOUS
<1>3. \A i \in DOMAIN s : Before(s[i], x)
  BY DEF Behind, In
<1> DEFINE a == Append(s, x)
<1>4. SUFFICES ASSUME NEW i \in DOMAIN a, NEW j \in DOMAIN a, i < j, a[i].src = a[j].src
               PROVE  a[i].seq < a[j].seq
  BY DEF InSourceOrder
<1>5. i \in DOMAIN s /\ a[i] = s[i]
  BY <1>1, <1>2, <1>4
<1>6. CASE j \in DOMAIN s /\ a[j] = s[j]
  BY <1>4, <1>5, <1>6 DEF InSourceOrder
<1>7. CASE a[j] = x
  BY <1>3, <1>4, <1>5, <1>7 DEF Before
<1> QED
  BY <1>1, <1>6, <1>7

LEMMA OrderTail ==
  ASSUME NEW s \in Seq(Frame), s # <<>>, InSourceOrder(s)
  PROVE  InSourceOrder(Tail(s)) /\ Ahead(Head(s), Tail(s))
<1>1. \A i \in DOMAIN Tail(s) :
        i \in Nat /\ i + 1 \in DOMAIN s /\ Tail(s)[i] = s[i + 1] /\ 1 < i + 1
  OBVIOUS
<1>2. 1 \in DOMAIN s /\ Head(s) = s[1]
  OBVIOUS
<1>3. InSourceOrder(Tail(s))
  <2> SUFFICES ASSUME NEW i \in DOMAIN Tail(s), NEW j \in DOMAIN Tail(s), i < j,
                      Tail(s)[i].src = Tail(s)[j].src
               PROVE  Tail(s)[i].seq < Tail(s)[j].seq
    BY DEF InSourceOrder
  <2>1. i + 1 < j + 1
    BY <1>1
  <2> QED
    BY <1>1, <2>1 DEF InSourceOrder
<1>4. Ahead(Head(s), Tail(s))
  <2> SUFFICES ASSUME NEW j \in DOMAIN Tail(s), s[1].src = s[j + 1].src
               PROVE  s[1].seq < s[j + 1].seq
    BY <1>1, <1>2 DEF Ahead, Before, In
  <2> QED
    BY <1>1, <1>2 DEF InSourceOrder
<1> QED
  BY <1>3, <1>4

-----------------------------------------------------------------------------
(* The route of a frame: where it may be, and whom it is still meant for.  *)

FromIn == {"bus"} \cup Grid

Holding == reader \in {"handle", "answer", "route", "spread"}
Answering == reader \in {"answer", "rtrAnswer"}

Numbered == \A f \in posted : f.seq <= sent

QueuesRoute ==
  /\ \A x \in In(inQ) : x \in posted /\ x.src \in FromIn
  /\ \A x \in In(outQ) : x \in posted /\ x.src # "bus"

HandsRoute ==
  /\ Holding => what["reader"] \in posted /\ what["reader"].src \in FromIn
  /\ Answering => what["answer"] \in posted /\ what["answer"].src = "node"
  /\ \A c \in Threads : client[c] # "idle" => what[c] \in posted /\ what[c].src = c
  /\ \A e \in Threads \ Grid :
       client[e] # "toIn" /\ (client[e] # "idle" => what[e].kind \in {"data", "turnout"})
  /\ \A g \in Grid : client[g] # "out"

FansRoute ==
  /\ \A c \in todo["reader"] : reader = "spread" /\ c \in ReaderTargets(what["reader"])
  /\ \A c \in todo["answer"] : Answering /\ c \in Grid
  /\ \A d \in Threads : \A c \in todo[d] :
       client[d] \in {"out", "others"} /\ c \in Grid /\ c # d

SinksRoute ==
  /\ \A x \in In(wire) : x \in posted /\ x.src # "bus"
  /\ \A c \in Clients : \A x \in In(rcvd[c]) : x \in posted /\ x.src # c /\ (c \in Ed => x.src \in FromIn)

RouteInv ==
  TypeOK /\ Numbered /\ QueuesRoute /\ HandsRoute /\ FansRoute /\ SinksRoute

-----------------------------------------------------------------------------
(* The order of arrival: a frame that may still reach a client comes after *)
(* all the client has of its source. Frames reach a throttle only through  *)
(* the queue reader; a GRID program gets only those of the bus from it.    *)

ViaReader(x, c) == x.src = "bus" \/ c \in Ed

Due(x, c) ==
  \/ x \in In(inQ) /\ ViaReader(x, c)
  \/ reader \in {"handle", "answer", "route"} /\ x = what["reader"] /\ ViaReader(x, c)
  \/ x = what["reader"] /\ c \in todo["reader"]
  \/ x = what["answer"] /\ c \in todo["answer"]
  \/ \E d \in Threads : x = what[d] /\ c \in todo[d]
  \/ \E d \in Grid : /\ x = what[d] /\ c # d
                     /\ client[d] = "toIn" \/ (client[d] = "post" /\ c \in Grid)

InOrder ==
  /\ InSourceOrder(inQ)
  /\ \A g \in Grid : client[g] = "toIn" => Behind(inQ, what[g])
  /\ Holding => Ahead(what["reader"], inQ)
  /\ Holding => \A g \in Grid : client[g] = "toIn" => Before(what["reader"], what[g])

OutOrder ==
  /\ InPushOrder(outQ) /\ InPushOrder(wire)
  /\ \A x \in In(outQ) : AllBefore(wire, x)

SinkOrder ==
  \A c \in Clients :
    InSourceOrder(rcvd[c]) /\ \A x \in posted : Due(x, c) => Behind(rcvd[c], x)

OrderInv == RouteInv /\ InOrder /\ OutOrder /\ SinkOrder

-----------------------------------------------------------------------------
(* Every step keeps the frames on their route.                             *)

LEMMA Names ==
  /\ "reader" \notin Threads /\ "answer" \notin Threads
  /\ "bus" \notin Threads /\ "node" \notin Threads /\ "wire" \notin Threads
  /\ Ed \cap Grid = {} /\ Helper \cap Clients = {}
  /\ Ed \subseteq Clients /\ Grid \subseteq Clients /\ Clients \subseteq Threads
  /\ \A t \in Threads : t \in Ed \/ t \in Grid \/ t \in Helper
  BY RouterAssumption DEF Clients, Threads

LEMMA InEmpty == In(<<>>) = {}
  BY DEF In

LEMMA RouteInit == Init => RouteInv
<1> SUFFICES ASSUME Init PROVE RouteInv
  OBVIOUS
<1>1. In(inQ) = {} /\ In(outQ) = {} /\ In(wire) = {} /\ \A c \in Clients : In(rcvd[c]) = {}
  BY InEmpty DEF Init
<1>2. \A t \in Senders : todo[t] = {}
  BY DEF Init
<1>3. posted = {} /\ reader = "top" /\ \A c \in Threads : client[c] = "idle"
  BY DEF Init
<1>4. Numbered /\ QueuesRoute /\ SinksRoute
  BY <1>1, <1>3 DEF Numbered, QueuesRoute, SinksRoute
<1>5. HandsRoute
  BY <1>3, Names DEF HandsRoute, Holding, Answering
<1>6. FansRoute
  BY <1>2 DEF FansRoute, Senders
<1> QED
  BY <1>4, <1>5, <1>6, InitTyped DEF RouteInv

\* Whom a fan-out visits, and with whose frame.
LEMMA VisitRoute ==
  ASSUME RouteInv, NEW t \in Senders, NEW c \in Clients, Visit(t, c)
  PROVE  /\ what[t] \in Frame /\ what[t] \in posted
         /\ what[t].src # c
         /\ c \in Ed => what[t].src \in FromIn /\ what[t].kind # "ext"
<1>1. what[t] \in Frame
  BY DEF RouteInv, TypeOK
<1>2. CASE t = "reader"
  BY <1>1, <1>2, Names
  DEF RouteInv, HandsRoute, FansRoute, Visit, Holding, ReaderTargets, ServerTargets,
      FromIn, Standard
<1>3. CASE t = "answer"
  BY <1>1, <1>3, Names DEF RouteInv, HandsRoute, FansRoute, Visit, Answering
<1>4. CASE t \in Threads
  BY <1>1, <1>4, Names DEF RouteInv, HandsRoute, FansRoute, Visit
<1> QED
  BY <1>2, <1>3, <1>4 DEF Senders

LEMMA RouteVisit ==
  ASSUME RouteInv, NEW t \in Senders, NEW c \in Clients, Visit(t, c)
  PROVE  RouteInv'
<1>1. TypeOK'
  BY VisitTyped DEF RouteInv
<1>2. UNCHANGED <<inQ, outQ, reader, wire, client, what, sent, posted>>
  BY DEF Visit, bus, entry, senders
<1>3. Numbered' /\ QueuesRoute' /\ HandsRoute'
  BY <1>2 DEF RouteInv, Numbered, QueuesRoute, HandsRoute, Holding, Answering
<1>4. FansRoute'
  <2>1. \A s \in Senders : todo'[s] \subseteq todo[s]
    BY DEF Visit, RouteInv, TypeOK
  <2> QED
    BY <1>2, <2>1 DEF RouteInv, FansRoute, Senders, Answering
<1>5. SinksRoute'
  <2>1. rcvd'[c] = Append(rcvd[c], what[t]) /\ rcvd[c] \in Seq(Frame)
    BY DEF Visit, RouteInv, TypeOK
  <2>2. In(rcvd[c])' = In(rcvd[c]) \cup {what[t]}
    BY <2>1, VisitRoute, InAppend
  <2>3. \A d \in Clients : d # c => rcvd'[d] = rcvd[d]
    BY DEF Visit, RouteInv, TypeOK
  <2> QED
    BY <1>2, <2>2, <2>3, VisitRoute DEF RouteInv, SinksRoute
<1> QED
  BY <1>1, <1>3, <1>4, <1>5 DEF RouteInv

\* A new frame is the last of all.
Fresh(x) == \A f \in posted : f.seq < x.seq

LEMMA NewIsFresh ==
  ASSUME RouteInv, NEW s \in Sources, NEW k \in Kinds
  PROVE  Fresh(New(s, k))
<1>1. New(s, k).seq = sent + 1 /\ sent \in Nat
  BY NewFrame DEF RouteInv, TypeOK
<1>2. \A f \in posted : f.seq \in Nat /\ f.seq <= sent
  BY FrameParts DEF RouteInv, TypeOK, Numbered
<1> QED
  BY <1>1, <1>2 DEF Fresh

LEMMA EnterNumbered ==
  ASSUME RouteInv, NEW s \in Sources, NEW k \in Kinds, Enter(New(s, k))
  PROVE  Numbered' /\ posted' = posted \cup {New(s, k)}
<1> DEFINE n == New(s, k)
<1>1. n.seq = sent + 1 /\ sent \in Nat
  BY NewFrame DEF RouteInv, TypeOK
<1>2. sent' = sent + 1 /\ posted' = posted \cup {n}
  BY <1>1 DEF Enter
<1> HIDE DEF n
<1>3. \A f \in posted : f.seq \in Nat /\ f.seq <= sent
  BY FrameParts DEF RouteInv, TypeOK, Numbered
<1>4. Numbered'
  BY <1>1, <1>2, <1>3 DEF Numbered
<1> QED
  BY <1>2, <1>4 DEF n

LEMMA RouteReader == ASSUME RouteInv, Reader PROVE RouteInv'
<1> USE DEF RouteInv, bus, entry, senders, ReaderGoto
<1>t. TypeOK'
  BY ReaderTyped
<1>1. CASE ReaderWait \/ ReaderWake \/ ReaderEmpty \/ ReaderAnswered \/ ReaderRtrDone
  <2>1. UNCHANGED <<inQ, outQ, todo, rcvd, wire, sent, posted, client, what>>
    BY <1>1 DEF ReaderWait, ReaderWake, ReaderEmpty, ReaderAnswered, ReaderRtrDone
  <2>2. Numbered' /\ QueuesRoute' /\ SinksRoute'
    BY <2>1 DEF Numbered, QueuesRoute, SinksRoute
  <2>3. HandsRoute'
    BY <1>1, <2>1 DEF HandsRoute, Holding, Answering,
       ReaderWait, ReaderWake, ReaderEmpty, ReaderAnswered, ReaderRtrDone
  <2>4. FansRoute'
    BY <1>1, <2>1 DEF FansRoute, Answering,
       ReaderWait, ReaderWake, ReaderEmpty, ReaderAnswered, ReaderRtrDone
  <2> QED
    BY <1>t, <2>2, <2>3, <2>4
<1>2. CASE ReaderPop
  <2>1. /\ UNCHANGED <<outQ, todo, rcvd, wire, sent, posted, client>>
        /\ reader = "next" /\ reader' = "handle"
        /\ what' = [what EXCEPT !["reader"] = Head(inQ)]
        /\ inQ \in Seq(Frame) /\ inQ # <<>> /\ inQ' = Tail(inQ)
    BY <1>2 DEF ReaderPop, TypeOK
  <2>2. In(inQ) = {Head(inQ)} \cup In(inQ)'
    BY <2>1, InTail
  <2>3. what'["reader"] = Head(inQ) /\ \A t \in Senders : t # "reader" => what'[t] = what[t]
    BY <2>1 DEF TypeOK, Senders
  <2>4. Numbered' /\ QueuesRoute' /\ SinksRoute'
    BY <2>1, <2>2 DEF Numbered, QueuesRoute, SinksRoute
  <2>5. HandsRoute'
    BY <2>1, <2>2, <2>3, Names DEF HandsRoute, QueuesRoute, Holding, Answering, Senders
  <2>6. FansRoute'
    BY <2>1, <2>3 DEF FansRoute, Answering
  <2> QED
    BY <1>t, <2>4, <2>5, <2>6
<1>3. CASE ReaderHandle
  <2>1. /\ UNCHANGED <<inQ, outQ, todo, rcvd, wire, sent, posted, client, what>>
        /\ reader = "handle" /\ reader' = "route"
    BY <1>3 DEF ReaderHandle
  <2>2. Numbered' /\ QueuesRoute' /\ SinksRoute'
    BY <2>1 DEF Numbered, QueuesRoute, SinksRoute
  <2>3. HandsRoute' /\ FansRoute'
    BY <2>1 DEF HandsRoute, FansRoute, Holding, Answering
  <2> QED
    BY <1>t, <2>2, <2>3
<1>4. CASE ReaderAnswer \/ ReaderRtr
  <2> DEFINE r == New("node", "data")
  <2>1. r \in Frame /\ r.src = "node" /\ Numbered' /\ posted' = posted \cup {r}
    BY <1>4, NewFrame, EnterNumbered DEF Sources, Kinds, ReaderAnswer, ReaderRtr, Answer
  <2>2. /\ what' = [what EXCEPT !["answer"] = r]
        /\ todo' = [todo EXCEPT !["answer"] = OutTargets(r)]
        /\ outQ' = Append(outQ, r)
        /\ UNCHANGED <<inQ, client, rcvd, wire>>
        /\ \/ reader = "handle" /\ reader' = "answer"
           \/ reader = "rtr" /\ reader' = "rtrAnswer"
    BY <1>4 DEF ReaderAnswer, ReaderRtr, Answer, PutOut
  <2> HIDE DEF r
  <2>3. In(outQ)' = In(outQ) \cup {r}
    BY <2>1, <2>2, InAppend DEF TypeOK
  <2>4. what'["answer"] = r /\ \A t \in Senders : t # "answer" => what'[t] = what[t]
    BY <2>2 DEF TypeOK, Senders
  <2>5. todo'["answer"] = Grid /\ \A t \in Senders : t # "answer" => todo'[t] = todo[t]
    BY <2>1, <2>2, Names DEF TypeOK, Senders, OutTargets
  <2>6. QueuesRoute' /\ SinksRoute'
    BY <2>1, <2>2, <2>3 DEF QueuesRoute, SinksRoute
  <2>7. HandsRoute'
    BY <2>1, <2>2, <2>4, Names DEF HandsRoute, Holding, Answering, Senders
  <2>8. FansRoute'
    BY <2>2, <2>4, <2>5, Names DEF FansRoute, Answering, Senders
  <2> QED
    BY <1>t, <2>1, <2>6, <2>7, <2>8
<1>5. CASE ReaderRoute
  <2>1. /\ UNCHANGED <<inQ, outQ, rcvd, wire, sent, posted, client, what>>
        /\ reader = "route" /\ reader' = "spread"
        /\ todo' = [todo EXCEPT !["reader"] = ReaderTargets(what["reader"])]
    BY <1>5 DEF ReaderRoute
  <2>2. Numbered' /\ QueuesRoute' /\ SinksRoute' /\ HandsRoute'
    BY <2>1 DEF Numbered, QueuesRoute, SinksRoute, HandsRoute, Holding, Answering
  <2>3. /\ todo'["reader"] = ReaderTargets(what["reader"])
        /\ \A t \in Senders : t # "reader" => todo'[t] = todo[t]
    BY <2>1 DEF TypeOK, Senders
  <2>4. FansRoute'
    BY <2>1, <2>3, Names DEF FansRoute, Answering, Senders
  <2> QED
    BY <1>t, <2>2, <2>4
<1>6. CASE ReaderSpreadDone
  <2>1. /\ UNCHANGED <<inQ, outQ, todo, rcvd, wire, sent, posted, client>>
        /\ reader = "spread" /\ todo["reader"] = {} /\ reader' \in {"rtr", "next"}
        /\ what' = [what EXCEPT !["reader"] = NoFrame]
    BY <1>6 DEF ReaderSpreadDone
  <2>2. Numbered' /\ QueuesRoute' /\ SinksRoute'
    BY <2>1 DEF Numbered, QueuesRoute, SinksRoute
  <2>3. \A t \in Senders : t # "reader" => what'[t] = what[t]
    BY <2>1 DEF TypeOK, Senders
  <2>4. HandsRoute'
    BY <2>1, <2>3, Names DEF HandsRoute, Holding, Answering, Senders
  <2>5. FansRoute'
    BY <2>1 DEF FansRoute, Answering
  <2> QED
    BY <1>t, <2>2, <2>4, <2>5
<1>7. ASSUME NEW c \in Clients, Visit("reader", c) \/ Visit("answer", c) PROVE RouteInv'
  BY <1>7, RouteVisit DEF Senders
<1> QED
  BY <1>1, <1>2, <1>3, <1>4, <1>5, <1>6, <1>7 DEF Reader

LEMMA RouteWriter == ASSUME RouteInv, Writer PROVE RouteInv'
<1> USE DEF RouteInv, bus, entry, senders, WriterGoto
<1>1. /\ TypeOK'
      /\ UNCHANGED <<inQ, reader, todo, rcvd, sent, posted, client, what>>
  BY WriterTyped DEF Writer, WriterSend, WriterWait, WriterWake, WriterEmpty
<1>2. Numbered' /\ HandsRoute' /\ FansRoute'
  BY <1>1 DEF Numbered, HandsRoute, FansRoute, Holding, Answering
<1>3. CASE WriterSend
  <2>1. /\ In(outQ) = {Head(outQ)} \cup In(outQ)' /\ Head(outQ) \in Frame
    BY <1>3, InTail, QueueParts DEF WriterSend, TypeOK
  <2>2. In(wire)' \subseteq In(wire) \cup {Head(outQ)}
    <3>1. In(Append(wire, Head(outQ))) = In(wire) \cup {Head(outQ)}
      BY <2>1, InAppend DEF TypeOK
    <3>2. wire' = wire \/ wire' = Append(wire, Head(outQ))
      BY <1>3 DEF WriterSend
    <3> QED
      BY <3>1, <3>2
  <2>3. QueuesRoute' /\ SinksRoute'
    BY <1>1, <2>1, <2>2 DEF QueuesRoute, SinksRoute
  <2> QED
    BY <1>1, <1>2, <2>3
<1>4. CASE WriterWait \/ WriterWake \/ WriterEmpty
  <2>1. UNCHANGED <<outQ, wire>>
    BY <1>4 DEF WriterWait, WriterWake, WriterEmpty
  <2>2. QueuesRoute' /\ SinksRoute'
    BY <1>1, <2>1 DEF QueuesRoute, SinksRoute
  <2> QED
    BY <1>1, <1>2, <2>2
<1> QED
  BY <1>3, <1>4 DEF Writer

LEMMA RouteBus == ASSUME RouteInv, NEW k \in BusFrames, BusFrame(k) PROVE RouteInv'
<1> USE DEF RouteInv
<1> DEFINE f == New("bus", k)
<1>1. f \in Frame /\ f.src = "bus"
  BY NewFrame, RouterAssumption DEF Sources
<1>2. Numbered' /\ posted' = posted \cup {f}
  BY EnterNumbered, RouterAssumption DEF Sources, BusFrame
<1>3. /\ UNCHANGED <<outQ, todo, rcvd, wire, client, what>>
      /\ inQ' = Append(inQ, f)
      /\ reader' = reader \/ (reader = "waiting" /\ reader' = "woken")
  BY DEF BusFrame, PutIn, bus, senders
<1> HIDE DEF f
<1>4. In(inQ)' = In(inQ) \cup {f}
  BY <1>1, <1>3, InAppend DEF TypeOK
<1>5. QueuesRoute' /\ SinksRoute'
  BY <1>1, <1>2, <1>3, <1>4 DEF QueuesRoute, SinksRoute, FromIn
<1>6. HandsRoute' /\ FansRoute'
  BY <1>2, <1>3 DEF HandsRoute, FansRoute, Holding, Answering
<1> QED
  BY <1>2, <1>5, <1>6, BusTyped

\* What the sending of a throttle and of a GRID program have in common.
Sends(c, k, p, T) ==
  /\ Enter(New(c, k)) /\ PutOut(New(c, k))
  /\ what' = [what EXCEPT ![c] = New(c, k)]
  /\ client[c] = "idle" /\ client' = [client EXCEPT ![c] = p]
  /\ todo' = [todo EXCEPT ![c] = T]
  /\ UNCHANGED <<inQ, reader, rcvd, bus>>
  /\ c \notin Grid => p = "out" /\ T = Grid /\ k \in {"data", "turnout"}
  /\ c \in Grid => p = "toIn" /\ T = {}

LEMMA SendCases ==
  ASSUME RouteInv, NEW c \in Threads, ClientSend(c)
  PROVE  \E k \in Kinds, p \in {"toIn", "out"}, T \in SUBSET Clients : Sends(c, k, p, T)
<1>1. ASSUME NEW k \in GridFrames, c \in Grid, GridSend(c, k)
      PROVE  k \in Kinds /\ Sends(c, k, "toIn", {})
  <2>1. todo[c] = {} /\ todo \in [Senders -> SUBSET Clients] /\ c \in Senders
    BY <1>1 DEF GridSend, RouteInv, FansRoute, TypeOK, Senders
  <2>2. todo' = [todo EXCEPT ![c] = {}]
    BY <1>1, <2>1 DEF GridSend
  <2>3. k \in Kinds
    BY <1>1, RouterAssumption
  <2> QED
    BY <1>1, <2>2, <2>3 DEF GridSend, Sends
<1>2. ASSUME NEW k \in {"data", "turnout"}, c \notin Grid, EdSend(c, k)
      PROVE  k \in Kinds /\ Sends(c, k, "out", Grid)
  <2>1. OutTargets(New(c, k)) = Grid /\ k \in Kinds
    BY <1>2 DEF OutTargets, New, Kinds
  <2> QED
    BY <1>2, <2>1 DEF EdSend, Sends
<1>3. CASE c \in Ed
  BY <1>2, <1>3, RouterAssumption, Names DEF ClientSend
<1>4. CASE c \in Helper
  BY <1>2, <1>4, Names DEF ClientSend
<1> QED
  BY <1>1, <1>3, <1>4, Names DEF ClientSend

LEMMA RouteSend == ASSUME RouteInv, NEW c \in Threads, ClientSend(c) PROVE RouteInv'
<1> USE DEF RouteInv
<1>0. PICK k \in Kinds, p \in {"toIn", "out"}, T \in SUBSET Clients : Sends(c, k, p, T)
  BY SendCases
<1> USE DEF Sends
<1> DEFINE f == New(c, k)
<1>1. f \in Frame /\ f.src = c /\ f.kind = k /\ Numbered' /\ posted' = posted \cup {f}
  BY <1>0, NewFrame, EnterNumbered DEF Sources
<1>2. /\ what' = [what EXCEPT ![c] = f] /\ outQ' = Append(outQ, f)
      /\ UNCHANGED <<inQ, reader, rcvd, wire>>
  BY <1>0 DEF PutOut, bus
<1> HIDE DEF f
<1>3. In(outQ)' = In(outQ) \cup {f}
  BY <1>1, <1>2, InAppend DEF TypeOK
<1>4. what'[c] = f /\ \A t \in Senders : t # c => what'[t] = what[t]
  BY <1>2 DEF TypeOK, Senders
<1>5. todo'[c] = T /\ \A t \in Senders : t # c => todo'[t] = todo[t]
  BY <1>0 DEF TypeOK, Senders
<1>6. client'[c] = p /\ \A d \in Threads : d # c => client'[d] = client[d]
  BY <1>0 DEF TypeOK
<1>7. QueuesRoute' /\ SinksRoute'
  BY <1>1, <1>2, <1>3, Names DEF QueuesRoute, SinksRoute
<1>8. HandsRoute'
  BY <1>0, <1>1, <1>2, <1>4, <1>6, Names DEF HandsRoute, Holding, Answering, Senders
<1>9. FansRoute'
  BY <1>0, <1>2, <1>4, <1>5, <1>6, Names DEF FansRoute, Answering, Senders, Clients
<1> QED
  BY <1>1, <1>7, <1>8, <1>9, SendTyped

LEMMA RouteClient == ASSUME RouteInv, NEW c \in Threads, ClientStep(c) PROVE RouteInv'
<1> USE DEF RouteInv, bus, entry, senders, ClientGoto
<1>t. TypeOK'
  BY StepTyped
<1>1. CASE GridToIn(c)
  <2>1. /\ UNCHANGED <<outQ, what, todo, rcvd, wire, sent, posted>>
        /\ inQ' = Append(inQ, what[c]) /\ client[c] = "toIn"
        /\ client' = [client EXCEPT ![c] = "post"]
        /\ reader' = reader \/ (reader = "waiting" /\ reader' = "woken")
    BY <1>1 DEF GridToIn, PutIn
  <2>2. what[c] \in Frame /\ what[c] \in posted /\ what[c].src = c /\ c \in Grid
    BY <2>1 DEF HandsRoute, TypeOK, Clients, Senders
  <2>3. In(inQ)' = In(inQ) \cup {what[c]}
    BY <2>1, <2>2, InAppend DEF TypeOK
  <2>4. Numbered' /\ QueuesRoute' /\ SinksRoute'
    BY <2>1, <2>2, <2>3 DEF Numbered, QueuesRoute, SinksRoute, FromIn
  <2>5. client'[c] = "post" /\ \A d \in Threads : d # c => client'[d] = client[d]
    BY <2>1 DEF TypeOK
  <2>6. HandsRoute'
    BY <2>1, <2>2, <2>5, Names DEF HandsRoute, Holding, Answering
  <2>7. FansRoute'
    BY <2>1, <2>5 DEF FansRoute, Answering
  <2> QED
    BY <1>t, <2>4, <2>6, <2>7
<1>2. CASE EdSent(c)
  <2>1. /\ UNCHANGED <<inQ, outQ, reader, what, todo, rcvd, wire, sent, posted>>
        /\ client[c] = "out" /\ todo[c] = {}
    BY <1>2 DEF EdSent
  <2>2. client'[c] \in {"post", "others"} /\ \A d \in Threads : d # c => client'[d] = client[d]
    BY <1>2 DEF EdSent, TypeOK
  <2>3. Numbered' /\ QueuesRoute' /\ SinksRoute'
    BY <2>1 DEF Numbered, QueuesRoute, SinksRoute
  <2>4. HandsRoute' /\ FansRoute'
    BY <2>1, <2>2, Names DEF HandsRoute, FansRoute, Holding, Answering
  <2> QED
    BY <1>t, <2>3, <2>4
<1>3. CASE ClientPost(c)
  <2>1. /\ UNCHANGED <<inQ, outQ, reader, what, rcvd, wire, sent, posted>>
        /\ client[c] = "post"
    BY <1>3 DEF ClientPost
  <2>2. client'[c] = "others" /\ \A d \in Threads : d # c => client'[d] = client[d]
    BY <1>3 DEF ClientPost, TypeOK
  <2>3. /\ todo'[c] = PostTargets(c, what[c])
        /\ \A t \in Senders : t # c => todo'[t] = todo[t]
    BY <1>3 DEF ClientPost, TypeOK, Senders
  <2>4. \A d \in PostTargets(c, what[c]) : d \in Grid /\ d # c
    BY <2>1, Names DEF PostTargets, HandsRoute, Standard, Clients
  <2>5. Numbered' /\ QueuesRoute' /\ SinksRoute'
    BY <2>1 DEF Numbered, QueuesRoute, SinksRoute
  <2>6. HandsRoute'
    BY <2>1, <2>2, Names DEF HandsRoute, Holding, Answering
  <2>7. FansRoute'
    BY <2>1, <2>2, <2>3, <2>4, Names DEF FansRoute, Answering, Senders
  <2> QED
    BY <1>t, <2>5, <2>6, <2>7
<1>4. CASE ClientDone(c)
  <2>1. /\ UNCHANGED <<inQ, outQ, reader, todo, rcvd, wire, sent, posted>>
        /\ client[c] = "others" /\ todo[c] = {}
    BY <1>4 DEF ClientDone
  <2>2. client'[c] = "idle" /\ \A d \in Threads : d # c => client'[d] = client[d]
    BY <1>4 DEF ClientDone, TypeOK
  <2>3. \A t \in Senders : t # c => what'[t] = what[t]
    BY <1>4 DEF ClientDone, TypeOK, Senders
  <2>4. Numbered' /\ QueuesRoute' /\ SinksRoute'
    BY <2>1 DEF Numbered, QueuesRoute, SinksRoute
  <2>5. HandsRoute'
    BY <2>1, <2>2, <2>3, Names DEF HandsRoute, Holding, Answering, Senders
  <2>6. FansRoute'
    BY <2>1, <2>2, <2>3, Names DEF FansRoute, Answering, Senders
  <2> QED
    BY <1>t, <2>4, <2>5, <2>6
<1>5. ASSUME NEW d \in Clients, Visit(c, d) PROVE RouteInv'
  BY <1>5, RouteVisit DEF Senders
<1> QED
  BY <1>1, <1>2, <1>3, <1>4, <1>5 DEF ClientStep

LEMMA RouteStep == RouteInv /\ [Next]_vars => RouteInv'
<1>1. CASE UNCHANGED vars
  BY <1>1, NextTyped
  DEF vars, bus, entry, senders, RouteInv, Numbered, QueuesRoute, HandsRoute, FansRoute,
      SinksRoute, Holding, Answering
<1> QED
  BY <1>1, RouteReader, RouteWriter, RouteBus, RouteSend, RouteClient DEF Next

\* Every frame stays on the way its source's rules give it.
THEOREM FramesKeepRoute == Spec => []RouteInv
  BY RouteInit, RouteStep, PTL DEF Spec

\* No GridConnect program ever gets a frame it sent itself.
THEOREM NobodyHearsHimself == Spec => []NoEcho
<1>1. RouteInv => NoEcho
  BY Names DEF RouteInv, SinksRoute, NoEcho, In
<1> QED
  BY <1>1, FramesKeepRoute, PTL

-----------------------------------------------------------------------------
(* Every step keeps the order.                                             *)

LEMMA OrderInit == Init => OrderInv
<1> SUFFICES ASSUME Init PROVE OrderInv
  OBVIOUS
<1>1. InSourceOrder(<<>>) /\ InPushOrder(<<>>)
  BY DEF InSourceOrder, InPushOrder
<1>2. InOrder /\ OutOrder
  BY <1>1, InEmpty, Names DEF Init, InOrder, OutOrder, Holding
<1>3. SinkOrder
  BY <1>1 DEF Init, SinkOrder
<1> QED
  BY <1>2, <1>3, RouteInit DEF OrderInv

\* What has arrived does not grow, and only new frames may now arrive.
LEMMA SinkKept ==
  ASSUME RouteInv, SinkOrder, UNCHANGED rcvd,
         \A c \in Clients : \A x \in posted' :
           Due(x, c)' => (x \in posted /\ Due(x, c)) \/ Fresh(x)
  PROVE  SinkOrder'
<1> SUFFICES ASSUME NEW c \in Clients
             PROVE  /\ InSourceOrder(rcvd[c])
                    /\ \A x \in posted' : Due(x, c)' => Behind(rcvd[c], x)
  BY DEF SinkOrder, Behind
<1>1. \A x : Fresh(x) => Behind(rcvd[c], x)
  BY DEF Fresh, Before, Behind, RouteInv, SinksRoute
<1> QED
  BY <1>1 DEF SinkOrder

\* Nothing that is still due at a client comes before what it gets now.
LEMMA VisitInTurn ==
  ASSUME OrderInv, NEW t \in Senders, NEW c \in Clients, Visit(t, c),
         NEW x \in posted, Due(x, c)'
  PROVE  Due(x, c) /\ Before(what[t], x)
<1> USE DEF OrderInv, RouteInv
<1>1. /\ UNCHANGED <<inQ, reader, client, what>> /\ c \in todo[t]
      /\ c \notin todo'[t] /\ \A s \in Senders : todo'[s] \subseteq todo[s]
  BY DEF Visit, TypeOK, senders
<1>2. Due(x, c)
  BY <1>1 DEF Due, Senders
<1>d. \/ x \in In(inQ) /\ ViaReader(x, c)
      \/ x = what["reader"] /\ Holding /\ reader # "spread" /\ ViaReader(x, c)
      \/ x = what["reader"] /\ c \in todo'["reader"]
      \/ x = what["answer"] /\ c \in todo'["answer"]
      \/ \E d \in Threads : x = what[d] /\ c \in todo'[d]
      \/ \E d \in Grid : /\ x = what[d] /\ c # d
                         /\ client[d] = "toIn" \/ (client[d] = "post" /\ c \in Grid)
  BY <1>1 DEF Due, Holding
<1>s. SUFFICES Before(what[t], x)
  BY <1>2
<1>3. CASE t = "reader"
  <2>1. reader = "spread" /\ Holding /\ what[t].src \in FromIn
        /\ (c \in Grid => what[t].src = "bus")
    BY <1>1, <1>3, Names
    DEF FansRoute, HandsRoute, Holding, ReaderTargets, ServerTargets, FromIn
  <2>2. CASE x \in In(inQ)
    BY <1>3, <2>1, <2>2 DEF InOrder, Ahead
  <2>3. CASE x = what["answer"] /\ c \in todo["answer"]
    BY <2>1, <2>3, Names DEF FansRoute, HandsRoute, Before, FromIn
  <2>4. CASE \E d \in Threads : x = what[d] /\ c \in todo[d]
    BY <2>1, <2>4, Names DEF FansRoute, HandsRoute, Before
  <2>5. CASE \E d \in Grid : /\ x = what[d] /\ c # d
                             /\ client[d] = "toIn" \/ (client[d] = "post" /\ c \in Grid)
    BY <1>3, <2>1, <2>5, Names DEF InOrder, HandsRoute, Before
  <2> QED
    BY <1>d, <1>1, <1>3, <2>1, <2>2, <2>3, <2>4, <2>5 DEF Senders
<1>4. CASE t = "answer"
  <2>1. Answering /\ what[t].src = "node" /\ c \in Grid
    BY <1>1, <1>4 DEF FansRoute, HandsRoute
  <2>2. x.src # "node" \/ (x = what["answer"] /\ c \in todo'["answer"])
    <3>1. \A d \in Threads : client[d] # "idle" => what[d].src # "node"
      BY Names DEF HandsRoute
    <3>2. \A y \in FromIn : y # "node"
      BY Names DEF FromIn
    <3>3. CASE x \in In(inQ)
      BY <3>2, <3>3 DEF QueuesRoute
    <3>4. CASE x = what["reader"] /\ Holding
      BY <3>2, <3>4 DEF HandsRoute
    <3>5. CASE x = what["reader"] /\ c \in todo["reader"]
      BY <2>1, <3>5 DEF FansRoute, Answering
    <3>6. CASE \E d \in Threads : x = what[d] /\ c \in todo[d]
      BY <3>1, <3>6 DEF FansRoute
    <3>7. CASE \E d \in Grid : x = what[d] /\ client[d] \in {"toIn", "post"}
      BY <3>1, <3>7, Names
    <3> QED
      BY <1>d, <1>1, <3>3, <3>4, <3>5, <3>6, <3>7 DEF Senders
  <2> QED
    BY <1>1, <1>4, <2>1, <2>2 DEF Before
<1>5. CASE t \in Threads
  <2>1. what[t].src = t /\ c \in Grid /\ c # t /\ client[t] \in {"out", "others"}
    BY <1>1, <1>5 DEF FansRoute, HandsRoute
  <2>2. c \notin Ed /\ t # "bus" /\ t # "node"
    BY <1>5, <2>1, Names
  <2>3. x.src # t
    <3>1. CASE ViaReader(x, c)
      BY <2>2, <3>1 DEF ViaReader
    <3>2. CASE x = what["reader"] /\ c \in todo["reader"]
      BY <2>1, <2>2, <3>2, Names
      DEF FansRoute, HandsRoute, Holding, ReaderTargets, ServerTargets, FromIn
    <3>3. CASE x = what["answer"] /\ c \in todo["answer"]
      BY <2>2, <3>3 DEF FansRoute, HandsRoute
    <3>4. CASE \E d \in Threads : x = what[d] /\ c \in todo'[d]
      <4>1. PICK d \in Threads : x = what[d] /\ c \in todo'[d]
        BY <3>4
      <4>2. d # t /\ c \in todo[d]
        BY <1>1, <4>1 DEF Senders
      <4> QED
        BY <4>1, <4>2 DEF FansRoute, HandsRoute
    <3>5. CASE \E d \in Grid : x = what[d] /\ client[d] \in {"toIn", "post"}
      BY <2>1, <3>5, Names DEF HandsRoute
    <3> QED
      BY <1>d, <1>1, <3>1, <3>2, <3>3, <3>4, <3>5 DEF Senders
  <2> QED
    BY <2>1, <2>3 DEF Before
<1> QED
  BY <1>3, <1>4, <1>5 DEF Senders

LEMMA OrderVisit ==
  ASSUME OrderInv, NEW t \in Senders, NEW c \in Clients, Visit(t, c)
  PROVE  OrderInv'
<1> USE DEF OrderInv
<1>1. RouteInv'
  BY RouteVisit
<1>2. UNCHANGED <<inQ, outQ, reader, client, what, wire, posted>>
  BY DEF Visit, bus, entry, senders
<1>3. InOrder' /\ OutOrder'
  BY <1>2 DEF InOrder, OutOrder, Holding, Behind, AllBefore, Ahead
<1>4. /\ rcvd'[c] = Append(rcvd[c], what[t]) /\ rcvd[c] \in Seq(Frame)
      /\ \A d \in Clients : d # c => rcvd'[d] = rcvd[d]
  BY DEF Visit, RouteInv, TypeOK
<1>5. what[t] \in Frame /\ what[t] \in posted
  BY VisitRoute
<1>6. Due(what[t], c)
  BY DEF Due, Visit, Senders
<1>7. InSourceOrder(rcvd[c])' /\ In(rcvd[c])' = In(rcvd[c]) \cup {what[t]}
  <2>1. InSourceOrder(rcvd[c]) /\ Behind(rcvd[c], what[t])
    BY <1>5, <1>6 DEF SinkOrder
  <2> QED
    BY <1>4, <1>5, <2>1, OrderAppend, InAppend
<1>8. \A d \in Clients, x \in posted : Due(x, d)' => Due(x, d)
  BY <1>2 DEF Due, Visit, RouteInv, TypeOK, Senders
<1>9. SinkOrder'
  <2>1. ASSUME NEW x \in posted, Due(x, c)' PROVE Behind(rcvd[c], x)'
    BY <1>7, <2>1, VisitInTurn DEF Behind, SinkOrder
  <2>2. ASSUME NEW d \in Clients, d # c, NEW x \in posted, Due(x, d)'
        PROVE  Behind(rcvd[d], x)'
    BY <1>4, <1>8, <2>2 DEF Behind, SinkOrder
  <2>3. \A d \in Clients : InSourceOrder(rcvd[d])'
    BY <1>4, <1>7 DEF SinkOrder
  <2> QED
    BY <1>2, <2>1, <2>2, <2>3 DEF SinkOrder
<1> QED
  BY <1>1, <1>3, <1>9

\* What is put into the out queue is new, so it comes last there as well.
LEMMA PutOutOrder ==
  ASSUME RouteInv, OutOrder, NEW f \in Frame, Fresh(f), PutOut(f), UNCHANGED wire
  PROVE  OutOrder'
<1>1. outQ \in Seq(Frame) /\ outQ' = Append(outQ, f)
  BY DEF PutOut, RouteInv, TypeOK
<1>2. AllBefore(outQ, f) /\ AllBefore(wire, f)
  BY DEF Fresh, AllBefore, RouteInv, QueuesRoute, SinksRoute
<1>3. InPushOrder(outQ)' /\ In(outQ)' = In(outQ) \cup {f}
  BY <1>1, <1>2, PushAppend, InAppend DEF OutOrder
<1> QED
  BY <1>2, <1>3 DEF OutOrder, Behind, AllBefore

LEMMA OrderReader == ASSUME OrderInv, Reader PROVE OrderInv'
<1> USE DEF OrderInv, bus, entry, senders, ReaderGoto
<1>r. RouteInv'
  BY RouteReader
<1>1. CASE ReaderWait \/ ReaderWake \/ ReaderEmpty \/ ReaderAnswered \/ ReaderRtrDone
  <2>1. /\ UNCHANGED <<inQ, outQ, todo, rcvd, wire, sent, posted, client, what>>
        /\ \/ reader = "answer" /\ reader' = "route"
           \/ reader' \notin {"handle", "answer", "route", "spread"}
    BY <1>1 DEF ReaderWait, ReaderWake, ReaderEmpty, ReaderAnswered, ReaderRtrDone
  <2>2. InOrder' /\ OutOrder'
    BY <2>1 DEF InOrder, OutOrder, Holding, Behind, AllBefore, Ahead
  <2>3. \A c \in Clients, x \in posted : Due(x, c)' => Due(x, c)
    BY <2>1 DEF Due
  <2> QED
    BY <1>r, <2>1, <2>2, <2>3, SinkKept
<1>2. CASE ReaderPop
  <2>1. /\ UNCHANGED <<outQ, todo, rcvd, wire, sent, posted, client>>
        /\ reader = "next" /\ reader' = "handle"
        /\ what' = [what EXCEPT !["reader"] = Head(inQ)]
        /\ inQ \in Seq(Frame) /\ inQ # <<>> /\ inQ' = Tail(inQ)
    BY <1>2 DEF ReaderPop, RouteInv, TypeOK
  <2>2. In(inQ) = {Head(inQ)} \cup In(inQ)'
    BY <2>1, InTail
  <2>3. what'["reader"] = Head(inQ) /\ \A t \in Senders : t # "reader" => what'[t] = what[t]
    BY <2>1 DEF RouteInv, TypeOK, Senders
  <2>4. InSourceOrder(inQ)' /\ Ahead(Head(inQ), Tail(inQ))
    BY <2>1, OrderTail DEF InOrder
  <2>5. InOrder'
    BY <2>1, <2>2, <2>3, <2>4, Names DEF InOrder, Behind, Ahead, Senders
  <2>6. OutOrder'
    BY <2>1 DEF OutOrder, Behind, AllBefore
  <2>7. todo["reader"] = {}
    BY <2>1 DEF RouteInv, FansRoute, TypeOK
  <2>8. \A c \in Clients, x \in posted : Due(x, c)' => Due(x, c)
    BY <2>1, <2>2, <2>3, <2>7, Names DEF Due, Senders
  <2> QED
    BY <1>r, <2>1, <2>5, <2>6, <2>8, SinkKept
<1>3. CASE ReaderHandle
  <2>1. /\ UNCHANGED <<inQ, outQ, todo, rcvd, wire, sent, posted, client, what>>
        /\ reader = "handle" /\ reader' = "route"
    BY <1>3 DEF ReaderHandle
  <2>2. InOrder' /\ OutOrder'
    BY <2>1 DEF InOrder, OutOrder, Holding, Behind, AllBefore, Ahead
  <2>3. \A c \in Clients, x \in posted : Due(x, c)' => Due(x, c)
    BY <2>1 DEF Due
  <2> QED
    BY <1>r, <2>1, <2>2, <2>3, SinkKept
<1>4. CASE ReaderAnswer \/ ReaderRtr
  <2> DEFINE r == New("node", "data")
  <2>1. r \in Frame /\ Fresh(r) /\ posted' = posted \cup {r}
    BY <1>4, NewFrame, NewIsFresh, EnterNumbered
    DEF RouteInv, Sources, Kinds, ReaderAnswer, ReaderRtr, Answer
  <2>2. /\ what' = [what EXCEPT !["answer"] = r]
        /\ todo' = [todo EXCEPT !["answer"] = OutTargets(r)]
        /\ PutOut(r) /\ UNCHANGED <<inQ, client, rcvd, wire>>
        /\ \/ reader = "handle" /\ reader' = "answer"
           \/ reader = "rtr" /\ reader' = "rtrAnswer"
    BY <1>4 DEF ReaderAnswer, ReaderRtr, Answer
  <2> HIDE DEF r
  <2>3. what'["answer"] = r /\ \A t \in Senders : t # "answer" => what'[t] = what[t]
    BY <2>2 DEF RouteInv, TypeOK, Senders
  <2>4. \A t \in Senders : t # "answer" => todo'[t] = todo[t]
    BY <2>2 DEF RouteInv, TypeOK, Senders
  <2>5. OutOrder'
    BY <2>1, <2>2, PutOutOrder
  <2>6. InOrder'
    BY <2>2, <2>3, Names DEF InOrder, Holding, Behind, Ahead, Senders
  <2>7. \A c \in Clients, x \in posted' :
          Due(x, c)' => (x \in posted /\ Due(x, c)) \/ Fresh(x)
    BY <2>1, <2>2, <2>3, <2>4, Names DEF Due, Senders
  <2> QED
    BY <1>r, <2>2, <2>5, <2>6, <2>7, SinkKept
<1>5. CASE ReaderRoute
  <2>1. /\ UNCHANGED <<inQ, outQ, rcvd, wire, sent, posted, client, what>>
        /\ reader = "route" /\ reader' = "spread"
        /\ todo' = [todo EXCEPT !["reader"] = ReaderTargets(what["reader"])]
    BY <1>5 DEF ReaderRoute
  <2>2. InOrder' /\ OutOrder'
    BY <2>1 DEF InOrder, OutOrder, Holding, Behind, AllBefore, Ahead
  <2>3. /\ todo'["reader"] = ReaderTargets(what["reader"])
        /\ \A t \in Senders : t # "reader" => todo'[t] = todo[t]
    BY <2>1 DEF RouteInv, TypeOK, Senders
  <2>4. \A c \in ReaderTargets(what["reader"]) : ViaReader(what["reader"], c)
    BY <2>1 DEF ReaderTargets, ServerTargets, ViaReader, RouteInv, HandsRoute, Holding, FromIn
  <2>5. \A c \in Clients, x \in posted : Due(x, c)' => Due(x, c)
    BY <2>1, <2>3, <2>4, Names DEF Due, Senders
  <2> QED
    BY <1>r, <2>1, <2>2, <2>5, SinkKept
<1>6. CASE ReaderSpreadDone
  <2>1. /\ UNCHANGED <<inQ, outQ, todo, rcvd, wire, sent, posted, client>>
        /\ reader = "spread" /\ todo["reader"] = {} /\ reader' \in {"rtr", "next"}
        /\ what' = [what EXCEPT !["reader"] = NoFrame]
    BY <1>6 DEF ReaderSpreadDone
  <2>2. \A t \in Senders : t # "reader" => what'[t] = what[t]
    BY <2>1 DEF RouteInv, TypeOK, Senders
  <2>3. InOrder' /\ OutOrder'
    BY <2>1, <2>2, Names DEF InOrder, OutOrder, Holding, Behind, AllBefore, Ahead, Senders
  <2>4. \A c \in Clients, x \in posted : Due(x, c)' => Due(x, c)
    BY <2>1, <2>2, Names DEF Due, Senders
  <2> QED
    BY <1>r, <2>1, <2>3, <2>4, SinkKept
<1>7. ASSUME NEW c \in Clients, Visit("reader", c) \/ Visit("answer", c) PROVE OrderInv'
  BY <1>7, OrderVisit DEF Senders
<1> QED
  BY <1>1, <1>2, <1>3, <1>4, <1>5, <1>6, <1>7 DEF Reader

LEMMA OrderWriter == ASSUME OrderInv, Writer PROVE OrderInv'
<1> USE DEF OrderInv, bus, entry, senders, WriterGoto
<1>1. /\ RouteInv'
      /\ UNCHANGED <<inQ, reader, todo, rcvd, sent, posted, client, what>>
  BY RouteWriter DEF Writer, WriterSend, WriterWait, WriterWake, WriterEmpty
<1>2. InOrder'
  BY <1>1 DEF InOrder, Holding, Behind, Ahead
<1>3. SinkOrder'
  <2>1. \A c \in Clients, x \in posted : Due(x, c)' => Due(x, c)
    BY <1>1 DEF Due
  <2> QED
    BY <1>1, <2>1, SinkKept
<1>4. CASE WriterSend
  <2>1. /\ outQ \in Seq(Frame) /\ outQ # <<>> /\ outQ' = Tail(outQ) /\ wire \in Seq(Frame)
        /\ wire' = wire \/ wire' = Append(wire, Head(outQ))
    BY <1>4 DEF WriterSend, RouteInv, TypeOK
  <2>2. Head(outQ) \in Frame /\ In(outQ) = {Head(outQ)} \cup In(outQ)'
    BY <2>1, InTail, QueueParts
  <2>3. InPushOrder(outQ)' /\ AllAfter(Head(outQ), outQ')
    BY <2>1, PushTail DEF OutOrder
  <2>4. InPushOrder(Append(wire, Head(outQ)))
    BY <2>1, <2>2, PushAppend DEF OutOrder
  <2>5. In(Append(wire, Head(outQ))) = In(wire) \cup {Head(outQ)}
    BY <2>1, <2>2, InAppend
  <2>6. OutOrder'
    <3>1. CASE wire' = wire
      BY <2>2, <2>3, <3>1 DEF OutOrder, Behind, AllBefore
    <3>2. CASE wire' = Append(wire, Head(outQ))
      BY <2>2, <2>3, <2>4, <2>5, <3>2 DEF OutOrder, AllBefore, AllAfter
    <3> QED
      BY <2>1, <3>1, <3>2
  <2> QED
    BY <1>1, <1>2, <1>3, <2>6
<1>5. CASE WriterWait \/ WriterWake \/ WriterEmpty
  <2>1. UNCHANGED <<outQ, wire>>
    BY <1>5 DEF WriterWait, WriterWake, WriterEmpty
  <2>2. OutOrder'
    BY <2>1 DEF OutOrder, Behind, AllBefore
  <2> QED
    BY <1>1, <1>2, <1>3, <2>2
<1> QED
  BY <1>4, <1>5 DEF Writer

LEMMA OrderBus == ASSUME OrderInv, NEW k \in BusFrames, BusFrame(k) PROVE OrderInv'
<1> USE DEF OrderInv
<1> DEFINE f == New("bus", k)
<1>1. f \in Frame /\ f.src = "bus" /\ Fresh(f) /\ posted' = posted \cup {f}
  BY NewFrame, NewIsFresh, EnterNumbered, RouterAssumption DEF RouteInv, Sources, BusFrame
<1>2. /\ UNCHANGED <<outQ, todo, rcvd, wire, client, what>>
      /\ inQ \in Seq(Frame) /\ inQ' = Append(inQ, f)
      /\ reader \in {"top", "waiting", "woken"} /\ reader' \in {"top", "waiting", "woken"}
  BY DEF BusFrame, PutIn, HoldsIn, bus, senders, RouteInv, TypeOK
<1> HIDE DEF f
<1>3. Behind(inQ, f)
  BY <1>1 DEF Fresh, Before, Behind, RouteInv, QueuesRoute
<1>4. InSourceOrder(inQ)' /\ In(inQ)' = In(inQ) \cup {f}
  BY <1>1, <1>2, <1>3, OrderAppend, InAppend DEF InOrder
<1>5. InOrder'
  <2>1. \A g \in Grid : client[g] = "toIn" => Before(f, what[g])
    BY <1>1, Names DEF RouteInv, HandsRoute, Before
  <2> QED
    BY <1>2, <1>4, <2>1 DEF InOrder, Holding, Behind
<1>6. OutOrder'
  BY <1>2 DEF OutOrder, Behind, AllBefore
<1>7. \A c \in Clients, x \in posted' :
        Due(x, c)' => (x \in posted /\ Due(x, c)) \/ Fresh(x)
  BY <1>1, <1>2, <1>4 DEF Due
<1> QED
  BY <1>2, <1>5, <1>6, <1>7, RouteBus, SinkKept

LEMMA OrderSend == ASSUME OrderInv, NEW c \in Threads, ClientSend(c) PROVE OrderInv'
<1> USE DEF OrderInv
<1>0. PICK k \in Kinds, p \in {"toIn", "out"}, T \in SUBSET Clients : Sends(c, k, p, T)
  BY SendCases
<1> DEFINE f == New(c, k)
<1>1. f \in Frame /\ Fresh(f) /\ posted' = posted \cup {f}
  BY <1>0, NewFrame, NewIsFresh, EnterNumbered DEF Sends, RouteInv, Sources
<1>2. /\ what' = [what EXCEPT ![c] = f] /\ PutOut(f)
      /\ UNCHANGED <<inQ, reader, rcvd, wire>>
  BY <1>0 DEF Sends, bus
<1> HIDE DEF f
<1>3. what'[c] = f /\ \A t \in Senders : t # c => what'[t] = what[t]
  BY <1>2 DEF RouteInv, TypeOK, Senders
<1>4. \A t \in Senders : t # c => todo'[t] = todo[t]
  BY <1>0 DEF Sends, RouteInv, TypeOK, Senders
<1>5. \A d \in Threads : d # c => client'[d] = client[d]
  BY <1>0 DEF Sends, RouteInv, TypeOK
<1>6. OutOrder'
  BY <1>1, <1>2, PutOutOrder
<1>7. InOrder'
  <2>1. Behind(inQ, f)
    BY <1>1 DEF Fresh, Before, Behind, RouteInv, QueuesRoute
  <2>2. Holding => Before(what["reader"], f)
    BY <1>1 DEF Fresh, Before, RouteInv, HandsRoute
  <2>3. what'["reader"] = what["reader"] /\ \A g \in Grid : g # c => what'[g] = what[g]
    BY <1>3, Names DEF Senders
  <2> QED
    BY <1>2, <1>3, <1>5, <2>1, <2>2, <2>3, Names DEF InOrder, Holding, Behind, Ahead
<1>8. \A d \in Clients, x \in posted' :
        Due(x, d)' => (x \in posted /\ Due(x, d)) \/ Fresh(x)
  <2> SUFFICES ASSUME NEW d \in Clients, NEW x \in posted', Due(x, d)', x # f
               PROVE  x \in posted /\ Due(x, d)
    BY <1>1
  <2> QED
    BY <1>1, <1>2, <1>3, <1>4, <1>5, Names DEF Due, Senders
<1> QED
  BY <1>2, <1>6, <1>7, <1>8, RouteSend, SinkKept

LEMMA OrderClient == ASSUME OrderInv, NEW c \in Threads, ClientStep(c) PROVE OrderInv'
<1> USE DEF OrderInv, bus, entry, senders, ClientGoto
<1>r. RouteInv'
  BY RouteClient
<1>1. CASE GridToIn(c)
  <2>1. /\ UNCHANGED <<outQ, what, todo, rcvd, wire, sent, posted>>
        /\ inQ \in Seq(Frame) /\ inQ' = Append(inQ, what[c]) /\ client[c] = "toIn"
        /\ client' = [client EXCEPT ![c] = "post"]
        /\ reader \in {"top", "waiting", "woken"} /\ reader' \in {"top", "waiting", "woken"}
    BY <1>1 DEF GridToIn, PutIn, HoldsIn, RouteInv, TypeOK
  <2>2. what[c] \in Frame /\ what[c].src = c /\ c \in Grid
    BY <2>1 DEF RouteInv, HandsRoute, TypeOK, Clients, Senders
  <2>3. InSourceOrder(inQ)' /\ In(inQ)' = In(inQ) \cup {what[c]}
    BY <2>1, <2>2, InAppend, OrderAppend DEF InOrder
  <2>4. client'[c] = "post" /\ \A d \in Threads : d # c => client'[d] = client[d]
    BY <2>1 DEF RouteInv, TypeOK
  <2>5. InOrder'
    <3>1. \A g \in Grid : g # c /\ client[g] = "toIn" => Before(what[c], what[g])
      BY <2>2, Names DEF RouteInv, HandsRoute, Before
    <3> QED
      BY <2>1, <2>3, <2>4, <3>1, Names DEF InOrder, Holding, Behind
  <2>6. OutOrder'
    BY <2>1 DEF OutOrder, Behind, AllBefore
  <2>7. \A d \in Clients, x \in posted : Due(x, d)' => Due(x, d)
    <3>1. \A d \in Clients : ViaReader(what[c], d) => d \in Ed /\ c # d
      BY <2>2, Names DEF ViaReader
    <3> QED
      BY <2>1, <2>2, <2>3, <2>4, <3>1, Names DEF Due
  <2> QED
    BY <1>r, <2>1, <2>5, <2>6, <2>7, SinkKept
<1>2. CASE EdSent(c)
  <2>1. /\ UNCHANGED <<inQ, outQ, reader, what, todo, rcvd, wire, sent, posted>>
        /\ client[c] = "out"
    BY <1>2 DEF EdSent
  <2>2. client'[c] # "toIn" /\ \A d \in Threads : d # c => client'[d] = client[d]
    BY <1>2 DEF EdSent, RouteInv, TypeOK
  <2>3. c \notin Grid
    BY <2>1 DEF RouteInv, HandsRoute
  <2>4. InOrder' /\ OutOrder'
    BY <2>1, <2>2, <2>3, Names DEF InOrder, OutOrder, Holding, Behind, AllBefore, Ahead
  <2>5. \A d \in Clients, x \in posted : Due(x, d)' => Due(x, d)
    BY <2>1, <2>2, <2>3, Names DEF Due
  <2> QED
    BY <1>r, <2>1, <2>4, <2>5, SinkKept
<1>3. CASE ClientPost(c)
  <2>1. /\ UNCHANGED <<inQ, outQ, reader, what, rcvd, wire, sent, posted>>
        /\ client[c] = "post"
    BY <1>3 DEF ClientPost
  <2>2. client'[c] = "others" /\ \A d \in Threads : d # c => client'[d] = client[d]
    BY <1>3 DEF ClientPost, RouteInv, TypeOK
  <2>3. /\ todo'[c] = PostTargets(c, what[c])
        /\ \A t \in Senders : t # c => todo'[t] = todo[t]
    BY <1>3 DEF ClientPost, RouteInv, TypeOK, Senders
  <2>4. \A d \in PostTargets(c, what[c]) : c \in Grid /\ d \in Grid /\ d # c
    BY <2>1, Names DEF PostTargets, RouteInv, HandsRoute, Standard, Clients
  <2>5. InOrder' /\ OutOrder'
    BY <2>1, <2>2, Names DEF InOrder, OutOrder, Holding, Behind, AllBefore, Ahead
  <2>6. \A d \in Clients, x \in posted : Due(x, d)' => Due(x, d)
    BY <2>1, <2>2, <2>3, <2>4, Names DEF Due, Senders
  <2> QED
    BY <1>r, <2>1, <2>5, <2>6, SinkKept
<1>4. CASE ClientDone(c)
  <2>1. /\ UNCHANGED <<inQ, outQ, reader, todo, rcvd, wire, sent, posted>>
        /\ client[c] = "others" /\ todo[c] = {}
    BY <1>4 DEF ClientDone
  <2>2. client'[c] = "idle" /\ \A d \in Threads : d # c => client'[d] = client[d]
    BY <1>4 DEF ClientDone, RouteInv, TypeOK
  <2>3. \A t \in Senders : t # c => what'[t] = what[t]
    BY <1>4 DEF ClientDone, RouteInv, TypeOK, Senders
  <2>4. what'["reader"] = what["reader"] /\ \A g \in Grid : g # c => what'[g] = what[g]
    BY <2>3, Names DEF Senders
  <2>5. InOrder' /\ OutOrder'
    BY <2>1, <2>2, <2>4, Names DEF InOrder, OutOrder, Holding, Behind, AllBefore, Ahead
  <2>6. \A d \in Clients, x \in posted : Due(x, d)' => Due(x, d)
    BY <2>1, <2>2, <2>3, Names DEF Due, Senders
  <2> QED
    BY <1>r, <2>1, <2>5, <2>6, SinkKept
<1>5. ASSUME NEW d \in Clients, Visit(c, d) PROVE OrderInv'
  BY <1>5, OrderVisit DEF Senders
<1> QED
  BY <1>1, <1>2, <1>3, <1>4, <1>5 DEF ClientStep

LEMMA OrderStep == OrderInv /\ [Next]_vars => OrderInv'
<1>1. ASSUME OrderInv, UNCHANGED vars PROVE OrderInv'
  <2>1. /\ UNCHANGED <<inQ, outQ, reader, client, what, todo, wire, rcvd, posted>> /\ RouteInv'
    BY <1>1, RouteStep DEF vars, bus, entry, senders, OrderInv
  <2>2. InOrder' /\ OutOrder'
    BY <1>1, <2>1 DEF OrderInv, InOrder, OutOrder, Holding, Behind, AllBefore, Ahead
  <2>3. \A c \in Clients, x \in posted : Due(x, c)' => Due(x, c)
    BY <2>1 DEF Due
  <2> QED
    BY <1>1, <2>1, <2>2, <2>3, SinkKept DEF OrderInv
<1> QED
  BY <1>1, OrderReader, OrderWriter, OrderBus, OrderSend, OrderClient DEF Next

\* On its way a frame stays behind everything its source sent before it.
THEOREM FramesKeepOrder == Spec => []OrderInv
  BY OrderInit, OrderStep, PTL DEF Spec

\* The bus gets all frames in the order in which they were put into the out
\* queue; no client gets a frame twice, and those of one thread in its order.
THEOREM SourcesStayInOrder == Spec => []OrderKept
<1>1. OrderInv => OrderKept
  BY DEF OrderInv, OutOrder, SinkOrder, OrderKept
<1> QED
  BY <1>1, FramesKeepOrder, PTL

-----------------------------------------------------------------------------
(* Every step of the router is a step of the abstract switch, or none.     *)

Sinks == Clients \cup {"wire"}
Got == [d \in Sinks |-> IF d = "wire" THEN wire ELSE rcvd[d]]

LEMMA EnterPosts ==
  ASSUME RouteInv, NEW s \in Sources, NEW k \in Kinds, Enter(New(s, k)),
         UNCHANGED <<wire, rcvd>>
  PROVE  Bus!Next
<1> DEFINE f == New(s, k)
<1>1. f \in Frame /\ Fresh(f) /\ posted' = posted \cup {f}
  BY NewFrame, NewIsFresh, EnterNumbered DEF RouteInv
<1> HIDE DEF f
<1>2. Bus!Post(f)
  BY <1>1 DEF Bus!Post, Fresh
<1> QED
  BY <1>1, <1>2 DEF Bus!Next

LEMMA AnyHandOver ==
  ASSUME TypeOK, NEW f \in posted, NEW d \in Sinks, f \in Frame, <<f.src, f.kind, d>> \in MayReach,
         (IF d = "wire" THEN AllBefore(Got[d], f) ELSE Behind(Got[d], f)), Got' = [Got EXCEPT ![d] = Append(@, f)], UNCHANGED posted
  PROVE  Bus!Next
<1>1. Bus!HandOver(f, d)
  BY DEF Bus!HandOver, AllBefore, Behind, In, Before, Got, Sinks
<1> QED
  BY <1>1 DEF Bus!Next, Sinks

LEMMA VisitHandsOver ==
  ASSUME OrderInv, NEW t \in Senders, NEW c \in Clients, Visit(t, c)
  PROVE  Bus!Next
<1> DEFINE f == what[t]
<1>1. f \in Frame /\ f \in posted /\ <<f.src, f.kind, c>> \in MayReach
  BY VisitRoute, FrameParts, Names DEF OrderInv, MayReach, FromIn
<1>2. Due(f, c)
  BY DEF Due, Visit, Senders
<1>3. c \in Sinks /\ c # "wire" /\ Got[c] = rcvd[c] /\ Behind(Got[c], f)
  BY <1>1, <1>2, Names DEF Sinks, Got, OrderInv, SinkOrder
<1>4. UNCHANGED <<wire, posted>> /\ rcvd' = [rcvd EXCEPT ![c] = Append(@, f)]
  BY DEF Visit, bus, entry
<1>5. Got' = [Got EXCEPT ![c] = Append(@, f)]
  BY <1>3, <1>4 DEF Got, Sinks, OrderInv, RouteInv, TypeOK
<1> HIDE DEF f
<1> QED
  BY <1>1, <1>3, <1>4, <1>5, AnyHandOver DEF OrderInv, RouteInv

LEMMA WriterHandsOver ==
  ASSUME OrderInv, WriterSend
  PROVE  Bus!Next \/ UNCHANGED Bus!vars
<1> DEFINE f == Head(outQ)
<1>1. f \in In(outQ) /\ f \in Frame
  BY InTail, QueueParts DEF WriterSend, OrderInv, RouteInv, TypeOK
<1>2. UNCHANGED <<rcvd, posted>>
  BY DEF WriterSend, entry
<1>3. CASE stopped
  BY <1>2, <1>3 DEF WriterSend, Bus!vars
<1>4. CASE ~stopped
  <2>1. f \in posted /\ <<f.src, f.kind, "wire">> \in MayReach
    BY <1>1, FrameParts, Names DEF MayReach, OrderInv, RouteInv, QueuesRoute, Sources, Clients
  <2>2. "wire" \in Sinks /\ Got["wire"] = wire /\ AllBefore(Got["wire"], f)
    BY <1>1 DEF Sinks, Got, OrderInv, OutOrder
  <2>3. wire' = Append(wire, f)
    BY <1>4 DEF WriterSend
  <2>4. Got' = [Got EXCEPT !["wire"] = Append(@, f)]
    BY <1>2, <2>2, <2>3 DEF Got, Sinks
  <2> HIDE DEF f
  <2> QED
    BY <1>1, <1>2, <2>1, <2>2, <2>4, AnyHandOver DEF OrderInv, RouteInv
<1> QED
  BY <1>3, <1>4

LEMMA StepIsBusStep ==
  OrderInv /\ [Next]_vars => [Bus!Next]_(Bus!vars)
<1> SUFFICES ASSUME OrderInv, [Next]_vars PROVE Bus!Next \/ UNCHANGED Bus!vars
  OBVIOUS
<1> USE DEF OrderInv
<1>q. UNCHANGED <<posted, wire, rcvd>> => UNCHANGED Bus!vars
  BY DEF Bus!vars
<1>1. CASE Reader
  <2>1. CASE ReaderAnswer \/ ReaderRtr
    <3>1. Enter(New("node", "data")) /\ UNCHANGED <<wire, rcvd>>
      BY <2>1 DEF ReaderAnswer, ReaderRtr, Answer, bus
    <3> QED
      BY <3>1, EnterPosts DEF Sources, Kinds
  <2>2. ASSUME NEW c \in Clients, Visit("reader", c) \/ Visit("answer", c) PROVE Bus!Next
    BY <2>2, VisitHandsOver DEF Senders
  <2>3. CASE \/ ReaderWait \/ ReaderWake \/ ReaderEmpty \/ ReaderPop \/ ReaderHandle
             \/ ReaderAnswered \/ ReaderRoute \/ ReaderSpreadDone \/ ReaderRtrDone
    BY <1>q, <2>3
    DEF ReaderWait, ReaderWake, ReaderEmpty, ReaderPop, ReaderHandle, ReaderAnswered,
        ReaderRoute, ReaderSpreadDone, ReaderRtrDone, ReaderGoto, bus, entry
  <2> QED
    BY <1>1, <2>1, <2>2, <2>3 DEF Reader
<1>2. CASE Writer
  <2>1. CASE WriterWait \/ WriterWake \/ WriterEmpty
    BY <1>q, <2>1 DEF WriterWait, WriterWake, WriterEmpty, WriterGoto, bus, entry
  <2> QED
    BY <1>2, <2>1, WriterHandsOver DEF Writer
<1>3. ASSUME NEW k \in BusFrames, BusFrame(k) PROVE Bus!Next
  BY <1>3, EnterPosts, RouterAssumption DEF BusFrame, bus, Sources
<1>4. ASSUME NEW c \in Threads, ClientSend(c) PROVE Bus!Next
  BY <1>4, SendCases, EnterPosts DEF Sends, bus, Sources
<1>5. ASSUME NEW c \in Threads, ClientStep(c) PROVE Bus!Next \/ UNCHANGED Bus!vars
  <2>1. ASSUME NEW d \in Clients, Visit(c, d) PROVE Bus!Next
    BY <2>1, VisitHandsOver DEF Senders
  <2>2. CASE GridToIn(c) \/ EdSent(c) \/ ClientPost(c) \/ ClientDone(c)
    BY <1>q, <2>2 DEF GridToIn, EdSent, ClientPost, ClientDone, ClientGoto, bus, entry
  <2> QED
    BY <1>5, <2>1, <2>2 DEF ClientStep
<1>6. CASE UNCHANGED vars
  BY <1>q, <1>6 DEF vars, bus, entry
<1> QED
  BY <1>1, <1>2, <1>3, <1>4, <1>5, <1>6 DEF Next

\* The queues, the threads and the fan-outs of canHandler and tcpServer
\* implement the abstract switch.
THEOREM ImplementsBus == Spec => BusSpec
<1>1. Init => Bus!Init
  <2> SUFFICES ASSUME Init PROVE Bus!Init
    OBVIOUS
  <2> QED
    BY DEF Init, Bus!Init
<1> QED
  BY <1>1, StepIsBusStep, FramesKeepOrder, PTL DEF Spec, BusSpec, Bus!Spec

-----------------------------------------------------------------------------
(* No frame is forgotten.                                                  *)

\* Whom a frame is really told to, of those to whom it is promised.
Told(f) == {c \in OwedTo(f) : ~NotShared(f, c)}

Arrives(f, c) == f \in In(rcvd[c]) \/ Due(f, c)

CoverInv ==
  /\ RouteInv
  /\ \A f \in posted : \A c \in Told(f) : Arrives(f, c)
  /\ \A f \in posted : f.src # "bus" => f \in In(outQ) \cup In(wire) \cup dropped

LEMMA Owed ==
  ASSUME NEW f \in Frame, NEW c \in Told(f)
  PROVE  /\ c \in Clients
         /\ f.src = "bus" => c \in ReaderTargets(f)
         /\ f.src \in Grid => c # f.src /\ (c \in Ed => c \in ReaderTargets(f))
         /\ f.src \notin {"bus"} \cup Grid => c \in Grid
  BY Names DEF Told, OwedTo, NotShared, ReaderTargets, ServerTargets, Clients

\* Nothing leaves, nothing enters: whatever was due must stay due.
LEMMA CoverKept ==
  ASSUME CoverInv, RouteInv', UNCHANGED <<rcvd, posted, outQ, wire, dropped>>,
         \A f \in posted, c \in Clients : c \in Told(f) /\ Due(f, c) => Due(f, c)'
  PROVE  CoverInv'
<1>1. \A f \in posted : \A c \in Told(f) : Arrives(f, c)'
  BY Owed DEF CoverInv, RouteInv, TypeOK, Arrives
<1> QED
  BY <1>1 DEF CoverInv

\* A new frame enters, on its way to everybody it is owed to.
LEMMA CoverNew ==
  ASSUME CoverInv, RouteInv', NEW n \in Frame, posted' = posted \cup {n},
         UNCHANGED <<rcvd, wire, dropped>>,
         In(outQ)' = In(outQ) \cup (IF n.src = "bus" THEN {} ELSE {n}),
         \A c \in Told(n) : Due(n, c)',
         \A f \in posted, c \in Clients : c \in Told(f) /\ Due(f, c) => Due(f, c)'
  PROVE  CoverInv'
<1>1. \A f \in posted : \A c \in Told(f) : Arrives(f, c)'
  BY Owed DEF CoverInv, RouteInv, TypeOK, Arrives
<1>2. \A c \in Told(n) : Arrives(n, c)'
  BY DEF Arrives
<1>3. \A f \in posted' :
        f.src # "bus" => f \in In(outQ)' \cup In(wire)' \cup dropped'
  BY DEF CoverInv
<1> QED
  BY <1>1, <1>2, <1>3 DEF CoverInv

LEMMA CoverVisit ==
  ASSUME CoverInv, NEW t \in Senders, NEW c \in Clients, Visit(t, c)
  PROVE  CoverInv'
<1>1. UNCHANGED <<inQ, outQ, reader, client, what, wire, posted, dropped>>
  BY DEF Visit, bus, entry, senders
<1>2. /\ rcvd'[c] = Append(rcvd[c], what[t]) /\ rcvd[c] \in Seq(Frame)
      /\ \A d \in Clients : d # c => rcvd'[d] = rcvd[d]
  BY DEF Visit, CoverInv, RouteInv, TypeOK
<1>3. In(rcvd[c])' = In(rcvd[c]) \cup {what[t]}
  BY <1>2, VisitRoute, InAppend DEF CoverInv
<1>4. /\ todo'[t] = todo[t] \ {c}
      /\ \A s \in Senders : s # t => todo'[s] = todo[s]
  BY DEF Visit, CoverInv, RouteInv, TypeOK
<1>5. ASSUME NEW f \in posted, NEW d \in Told(f) PROVE Arrives(f, d)'
  <2>1. d \in Clients /\ Arrives(f, d)
    BY Owed DEF CoverInv, RouteInv, TypeOK
  <2>2. CASE f \in In(rcvd[d])
    BY <1>2, <1>3, <2>1, <2>2 DEF Arrives
  <2>3. CASE d = c /\ f = what[t]
    BY <1>3, <2>3 DEF Arrives
  <2>4. CASE Due(f, d) /\ ~(d = c /\ f = what[t])
    BY <1>1, <1>4, <2>4 DEF Arrives, Due, Senders
  <2> QED
    BY <2>1, <2>2, <2>3, <2>4 DEF Arrives
<1>6. RouteInv'
  BY RouteVisit DEF CoverInv
<1> QED
  BY <1>1, <1>5, <1>6 DEF CoverInv

LEMMA CoverReader == ASSUME CoverInv, Reader PROVE CoverInv'
<1> USE DEF bus, entry, senders, ReaderGoto
<1>i. RouteInv
  BY DEF CoverInv
<1>r. RouteInv'
  BY <1>i, RouteReader
<1>1. CASE \/ ReaderWait \/ ReaderWake \/ ReaderEmpty \/ ReaderAnswered \/ ReaderRtrDone
           \/ ReaderHandle
  <2>1. /\ UNCHANGED <<inQ, outQ, todo, rcvd, wire, dropped, posted, client, what>>
        /\ reader \in {"handle", "answer", "route"} => reader' \in {"handle", "answer", "route"}
    BY <1>1
    DEF ReaderWait, ReaderWake, ReaderEmpty, ReaderAnswered, ReaderRtrDone, ReaderHandle
  <2>2. \A f \in posted, c \in Clients : Due(f, c) => Due(f, c)'
    BY <2>1 DEF Due
  <2> QED
    BY <1>r, <2>1, <2>2, CoverKept
<1>2. CASE ReaderPop
  <2>1. /\ UNCHANGED <<outQ, todo, rcvd, wire, dropped, posted, client>>
        /\ reader = "next" /\ reader' = "handle"
        /\ what' = [what EXCEPT !["reader"] = Head(inQ)]
        /\ inQ \in Seq(Frame) /\ inQ # <<>> /\ inQ' = Tail(inQ)
    BY <1>i, <1>2 DEF ReaderPop, RouteInv, TypeOK
  <2>2. In(inQ) = {Head(inQ)} \cup In(inQ)'
    BY <2>1, InTail
  <2>3. what'["reader"] = Head(inQ) /\ \A t \in Senders : t # "reader" => what'[t] = what[t]
    BY <1>i, <2>1 DEF RouteInv, TypeOK, Senders
  <2>4. todo["reader"] = {}
    BY <1>i, <2>1 DEF RouteInv, FansRoute, TypeOK
  <2>5. \A f \in posted, c \in Clients : Due(f, c) => Due(f, c)'
    BY <2>1, <2>2, <2>3, <2>4, Names DEF Due, Senders
  <2> QED
    BY <1>r, <2>1, <2>5, CoverKept
<1>3. CASE ReaderAnswer \/ ReaderRtr
  <2>0. PICK r \in Frame : r = New("node", "data")
    BY <1>i, NewFrame DEF RouteInv, Sources, Kinds
  <2>1. r \in Frame /\ r.src = "node" /\ posted' = posted \cup {r}
    BY <1>i, <1>3, <2>0, NewFrame, EnterNumbered
    DEF RouteInv, Sources, Kinds, ReaderAnswer, ReaderRtr, Answer
  <2>2. /\ what' = [what EXCEPT !["answer"] = r]
        /\ todo' = [todo EXCEPT !["answer"] = OutTargets(r)]
        /\ outQ' = Append(outQ, r) /\ UNCHANGED <<inQ, client, rcvd, wire, dropped>>
        /\ \/ reader = "handle" /\ reader' = "answer"
           \/ reader = "rtr" /\ reader' = "rtrAnswer"
    BY <1>3, <2>0 DEF ReaderAnswer, ReaderRtr, Answer, PutOut
  <2>3. what'["answer"] = r /\ \A t \in Senders : t # "answer" => what'[t] = what[t]
    BY <1>i, <2>2 DEF RouteInv, TypeOK, Senders
  <2>4. todo'["answer"] = Grid /\ \A t \in Senders : t # "answer" => todo'[t] = todo[t]
    BY <1>i, <2>1, <2>2, Names DEF RouteInv, TypeOK, Senders, OutTargets
  <2>5. In(outQ)' = In(outQ) \cup {r}
    BY <1>i, <2>1, <2>2, InAppend DEF RouteInv, TypeOK
  <2>6. \A c \in Told(r) : Due(r, c)'
    BY <2>1, <2>3, <2>4, Owed, Names DEF Due
  <2>7. todo["answer"] = {}
    BY <1>i, <2>2 DEF RouteInv, FansRoute, Answering, TypeOK
  <2>8. \A f \in posted, c \in Clients : Due(f, c) => Due(f, c)'
    BY <2>2, <2>3, <2>4, <2>7, Names DEF Due, Senders
  <2> QED
    BY <1>r, <2>1, <2>2, <2>5, <2>6, <2>8, CoverNew
<1>4. CASE ReaderRoute
  <2>1. /\ UNCHANGED <<inQ, outQ, rcvd, wire, dropped, posted, client, what>>
        /\ reader = "route" /\ reader' = "spread"
        /\ todo' = [todo EXCEPT !["reader"] = ReaderTargets(what["reader"])]
    BY <1>4 DEF ReaderRoute
  <2>2. /\ todo'["reader"] = ReaderTargets(what["reader"])
        /\ \A t \in Senders : t # "reader" => todo'[t] = todo[t]
    BY <1>i, <2>1 DEF RouteInv, TypeOK, Senders
  <2>3. what["reader"] \in Frame /\ what["reader"].src \in FromIn /\ todo["reader"] = {}
    BY <1>i, <2>1 DEF RouteInv, HandsRoute, FansRoute, Holding, TypeOK, Senders
  <2>4. \A c \in Told(what["reader"]) :
          ViaReader(what["reader"], c) => c \in ReaderTargets(what["reader"])
    BY <2>3, Owed DEF ViaReader, FromIn
  <2>5. \A f \in posted, c \in Clients : c \in Told(f) /\ Due(f, c) => Due(f, c)'
    BY <2>1, <2>2, <2>3, <2>4, Names DEF Due, Senders
  <2> QED
    BY <1>r, <2>1, <2>5, CoverKept
<1>5. CASE ReaderSpreadDone
  <2>1. /\ UNCHANGED <<inQ, outQ, todo, rcvd, wire, dropped, posted, client>>
        /\ reader = "spread" /\ todo["reader"] = {}
        /\ what' = [what EXCEPT !["reader"] = NoFrame]
    BY <1>5 DEF ReaderSpreadDone
  <2>2. \A t \in Senders : t # "reader" => what'[t] = what[t]
    BY <1>i, <2>1 DEF RouteInv, TypeOK, Senders
  <2>3. \A f \in posted, c \in Clients : Due(f, c) => Due(f, c)'
    BY <2>1, <2>2, Names DEF Due, Senders
  <2> QED
    BY <1>r, <2>1, <2>3, CoverKept
<1>6. ASSUME NEW c \in Clients, Visit("reader", c) \/ Visit("answer", c) PROVE CoverInv'
  BY <1>6, CoverVisit DEF Senders
<1> QED
  BY <1>1, <1>2, <1>3, <1>4, <1>5, <1>6 DEF Reader

LEMMA CoverWriter == ASSUME CoverInv, Writer PROVE CoverInv'
<1>1. /\ RouteInv /\ RouteInv'
      /\ UNCHANGED <<inQ, reader, todo, rcvd, posted, client, what>>
  BY RouteWriter
  DEF CoverInv, Writer, WriterSend, WriterWait, WriterWake, WriterEmpty, WriterGoto, entry, senders
<1>2. \A f \in posted : \A c \in Told(f) : Arrives(f, c)'
  BY <1>1 DEF CoverInv, Arrives, Due
<1>3. CASE WriterSend
  <2>1. outQ \in Seq(Frame) /\ outQ # <<>> /\ outQ' = Tail(outQ) /\ wire \in Seq(Frame)
    BY <1>1, <1>3 DEF WriterSend, RouteInv, TypeOK
  <2>2. Head(outQ) \in Frame /\ In(outQ) = {Head(outQ)} \cup In(outQ)'
    BY <2>1, InTail, QueueParts
  <2>3. In(Append(wire, Head(outQ))) = In(wire) \cup {Head(outQ)}
    BY <2>1, <2>2, InAppend
  <2>4. In(wire)' \cup dropped' = In(wire) \cup dropped \cup {Head(outQ)}
    <3>1. CASE stopped
      BY <1>3, <3>1 DEF WriterSend
    <3>2. CASE ~stopped
      BY <1>3, <2>3, <3>2 DEF WriterSend
    <3> QED
      BY <3>1, <3>2
  <2> QED
    BY <1>1, <1>2, <2>2, <2>4 DEF CoverInv
<1>4. CASE WriterWait \/ WriterWake \/ WriterEmpty
  <2>1. UNCHANGED <<outQ, wire, dropped>>
    BY <1>4 DEF WriterWait, WriterWake, WriterEmpty, WriterGoto, bus
  <2> QED
    BY <1>1, <1>2, <2>1 DEF CoverInv
<1> QED
  BY <1>3, <1>4 DEF Writer

LEMMA CoverBus == ASSUME CoverInv, NEW k \in BusFrames, BusFrame(k) PROVE CoverInv'
<1>i. RouteInv /\ RouteInv'
  BY RouteBus DEF CoverInv
<1>0. PICK f \in Frame : f = New("bus", k)
  BY <1>i, NewFrame, RouterAssumption DEF RouteInv, Sources
<1>1. f.src = "bus" /\ posted' = posted \cup {f}
  BY <1>i, <1>0, NewFrame, EnterNumbered, RouterAssumption DEF RouteInv, Sources, BusFrame
<1>2. /\ UNCHANGED <<outQ, todo, rcvd, wire, dropped, client, what>>
      /\ inQ \in Seq(Frame) /\ inQ' = Append(inQ, f)
      /\ reader \in {"top", "waiting", "woken"}
  BY <1>i, <1>0 DEF BusFrame, PutIn, HoldsIn, bus, senders, RouteInv, TypeOK
<1>3. In(inQ)' = In(inQ) \cup {f}
  BY <1>2, InAppend
<1>4. \A c \in Told(f) : Due(f, c)'
  BY <1>1, <1>3 DEF Due, ViaReader
<1>5. \A x \in posted, c \in Clients : Due(x, c) => Due(x, c)'
  BY <1>2, <1>3 DEF Due
<1>6. In(outQ)' = In(outQ) \cup (IF f.src = "bus" THEN {} ELSE {f})
  BY <1>1, <1>2
<1> QED
  BY <1>i, <1>1, <1>2, <1>4, <1>5, <1>6, CoverNew

LEMMA CoverSend == ASSUME CoverInv, NEW c \in Threads, ClientSend(c) PROVE CoverInv'
<1>i. RouteInv /\ RouteInv'
  BY RouteSend DEF CoverInv
<1>0. PICK k \in Kinds, p \in {"toIn", "out"}, T \in SUBSET Clients : Sends(c, k, p, T)
  BY <1>i, SendCases
<1>1. PICK f \in Frame : f = New(c, k)
  BY <1>i, NewFrame DEF RouteInv, Sources
<1>2. f.src = c /\ posted' = posted \cup {f}
  BY <1>i, <1>0, <1>1, NewFrame, EnterNumbered DEF Sends, RouteInv, Sources
<1>3. /\ what' = [what EXCEPT ![c] = f] /\ outQ' = Append(outQ, f) /\ client[c] = "idle"
      /\ UNCHANGED <<inQ, reader, rcvd, wire, dropped>>
  BY <1>0, <1>1 DEF Sends, PutOut, bus
<1>4. what'[c] = f /\ \A t \in Senders : t # c => what'[t] = what[t]
  BY <1>i, <1>3 DEF RouteInv, TypeOK, Senders
<1>5. todo'[c] = T /\ \A t \in Senders : t # c => todo'[t] = todo[t]
  BY <1>i, <1>0 DEF Sends, RouteInv, TypeOK, Senders
<1>6. client'[c] = p /\ \A d \in Threads : d # c => client'[d] = client[d]
  BY <1>i, <1>0 DEF Sends, RouteInv, TypeOK
<1>7. In(outQ)' = In(outQ) \cup {f}
  BY <1>i, <1>3, InAppend DEF RouteInv, TypeOK
<1>8. \A d \in Told(f) : Due(f, d)'
  <2> SUFFICES ASSUME NEW d \in Told(f) PROVE Due(f, d)'
    OBVIOUS
  <2>1. CASE c \notin Grid
    BY <1>0, <1>2, <1>4, <1>5, <2>1, Owed, Names DEF Due, Sends
  <2>2. CASE c \in Grid
    BY <1>0, <1>2, <1>4, <1>6, <2>2, Owed DEF Due, Sends
  <2> QED
    BY <2>1, <2>2
<1>9. \A x \in posted, d \in Clients : Due(x, d) => Due(x, d)'
  <2>1. todo[c] = {}
    BY <1>i, <1>3 DEF RouteInv, FansRoute, TypeOK
  <2> QED
    BY <1>3, <1>4, <1>5, <1>6, <2>1, Names DEF Due, Senders
<1>10. In(outQ)' = In(outQ) \cup (IF f.src = "bus" THEN {} ELSE {f})
  BY <1>2, <1>7, Names
<1> QED
  BY <1>i, <1>2, <1>3, <1>8, <1>9, <1>10, CoverNew

LEMMA CoverClient == ASSUME CoverInv, NEW c \in Threads, ClientStep(c) PROVE CoverInv'
<1> USE DEF bus, entry, senders, ClientGoto
<1>i. RouteInv /\ RouteInv'
  BY RouteClient DEF CoverInv
<1>1. CASE GridToIn(c)
  <2>1. /\ UNCHANGED <<outQ, what, todo, rcvd, wire, dropped, posted>>
        /\ inQ \in Seq(Frame) /\ inQ' = Append(inQ, what[c]) /\ client[c] = "toIn"
        /\ client' = [client EXCEPT ![c] = "post"]
        /\ reader \in {"top", "waiting", "woken"}
    BY <1>i, <1>1 DEF GridToIn, PutIn, HoldsIn, RouteInv, TypeOK
  <2>2. In(inQ)' = In(inQ) \cup {what[c]}
    BY <1>i, <2>1, InAppend DEF RouteInv, TypeOK, Senders
  <2>3. client'[c] = "post" /\ \A d \in Threads : d # c => client'[d] = client[d]
    BY <1>i, <2>1 DEF RouteInv, TypeOK
  <2>4. \A x \in posted, d \in Clients : Due(x, d) => Due(x, d)'
    BY <2>1, <2>2, <2>3, Names DEF Due, ViaReader, Clients
  <2> QED
    BY <1>i, <2>1, <2>4, CoverKept
<1>2. CASE EdSent(c)
  <2>1. UNCHANGED <<inQ, outQ, reader, what, todo, rcvd, wire, dropped, posted>>
        /\ client[c] = "out"
    BY <1>2 DEF EdSent
  <2>2. \A d \in Threads : d # c => client'[d] = client[d]
    BY <1>i, <1>2 DEF EdSent, RouteInv, TypeOK
  <2>3. \A x \in posted, d \in Clients : Due(x, d) => Due(x, d)'
    BY <2>1, <2>2, Names DEF Due
  <2> QED
    BY <1>i, <2>1, <2>3, CoverKept
<1>3. CASE ClientPost(c)
  <2>1. /\ UNCHANGED <<inQ, outQ, reader, what, rcvd, wire, dropped, posted>>
        /\ client[c] = "post" /\ todo[c] = {}
    BY <1>i, <1>3 DEF ClientPost, RouteInv, FansRoute, TypeOK, Senders
  <2>2. \A d \in Threads : d # c => client'[d] = client[d]
    BY <1>i, <1>3 DEF ClientPost, RouteInv, TypeOK
  <2>3. /\ todo'[c] = PostTargets(c, what[c])
        /\ \A t \in Senders : t # c => todo'[t] = todo[t]
    BY <1>i, <1>3 DEF ClientPost, RouteInv, TypeOK, Senders
  <2>4. c \in Grid => PostTargets(c, what[c]) = Grid \ {c}
    BY DEF PostTargets
  <2>5. \A g \in Grid : g # c => client'[g] = client[g]
    BY <2>2, Names
  <2>6. \A t \in Senders : todo[t] \subseteq todo'[t]
    BY <2>1, <2>3
  <2>7. ASSUME NEW x \in posted, NEW d \in Clients, Due(x, d) PROVE Due(x, d)'
    <3>1. CASE \/ x \in In(inQ) /\ ViaReader(x, d)
               \/ /\ reader \in {"handle", "answer", "route"}
                  /\ x = what["reader"] /\ ViaReader(x, d)
      BY <2>1, <3>1 DEF Due
    <3>2. CASE \E t \in Senders : x = what[t] /\ d \in todo[t]
      BY <2>1, <2>6, <3>2 DEF Due, Senders
    <3>3. ASSUME NEW g \in Grid, x = what[g], d # g,
                 client[g] = "toIn" \/ (client[g] = "post" /\ d \in Grid)
          PROVE  Due(x, d)'
      <4>1. CASE g = c
        BY <2>1, <2>3, <2>4, <3>3, <4>1 DEF Due
      <4>2. CASE g # c
        BY <2>1, <2>5, <3>3, <4>2 DEF Due
      <4> QED
        BY <4>1, <4>2
    <3> QED
      BY <2>7, <3>1, <3>2, <3>3 DEF Due, Senders
  <2> QED
    BY <1>i, <2>1, <2>7, CoverKept
<1>4. CASE ClientDone(c)
  <2>1. /\ UNCHANGED <<inQ, outQ, reader, todo, rcvd, wire, dropped, posted>>
        /\ client[c] = "others" /\ todo[c] = {}
    BY <1>4 DEF ClientDone
  <2>2. \A d \in Threads : d # c => client'[d] = client[d]
    BY <1>i, <1>4 DEF ClientDone, RouteInv, TypeOK
  <2>3. \A t \in Senders : t # c => what'[t] = what[t]
    BY <1>i, <1>4 DEF ClientDone, RouteInv, TypeOK, Senders
  <2>4. \A x \in posted, d \in Clients : Due(x, d) => Due(x, d)'
    BY <2>1, <2>2, <2>3, Names DEF Due, Senders
  <2> QED
    BY <1>i, <2>1, <2>4, CoverKept
<1>5. ASSUME NEW d \in Clients, Visit(c, d) PROVE CoverInv'
  BY <1>5, CoverVisit DEF Senders
<1> QED
  BY <1>1, <1>2, <1>3, <1>4, <1>5 DEF ClientStep

LEMMA CoverStep == CoverInv /\ [Next]_vars => CoverInv'
<1>1. ASSUME CoverInv, UNCHANGED vars PROVE CoverInv'
  <2>1. /\ UNCHANGED <<inQ, outQ, reader, client, what, todo, wire, rcvd, posted, dropped>>
        /\ RouteInv'
    BY <1>1, RouteStep DEF vars, bus, entry, senders, CoverInv
  <2>2. \A x \in posted, d \in Clients : Due(x, d) => Due(x, d)'
    BY <2>1 DEF Due
  <2> QED
    BY <1>1, <2>1, <2>2, CoverKept
<1> QED
  BY <1>1, CoverReader, CoverWriter, CoverBus, CoverSend, CoverClient DEF Next

\* What left the queues and every thread has arrived at all whom the comments
\* promise it, but for the other throttles of a turnout command, who never get
\* it, and is on the bus unless the bus was stopped.
THEOREM NoFrameForgotten == Spec => []Complete
<1>1. Init => CoverInv
  BY RouteInit DEF Init, CoverInv
<1>2. CoverInv => Complete
  <2> SUFFICES ASSUME CoverInv, NEW f \in posted \ InFlight
               PROVE  /\ \A c \in OwedTo(f) : f \in ReceivedBy(c) <=> ~NotShared(f, c)
                      /\ f.src # "bus" => f \in OnWire \cup dropped
    BY DEF Complete
  <2>1. f \in Frame /\ f \notin In(inQ) /\ f \notin In(outQ) /\ \A t \in Senders : f # what[t]
    BY DEF InFlight, In, CoverInv, RouteInv, TypeOK
  <2>2. \A c \in Clients : ~Due(f, c)
    BY <2>1, Names DEF Due, Senders
  <2>3. \A c \in Told(f) : f \in In(rcvd[c])
    BY <2>1, <2>2, Owed DEF CoverInv, Arrives
  <2>4. \A c \in Ed : f \in In(rcvd[c]) => f.src \notin Ed
    BY Names DEF CoverInv, RouteInv, SinksRoute, FromIn
  <2> QED
    BY <2>1, <2>3, <2>4 DEF CoverInv, In, ReceivedBy, OnWire, Told, NotShared
<1> QED
  BY <1>1, <1>2, CoverStep, PTL DEF Spec
=============================================================================
