----------------------------- MODULE CanRouter -----------------------------
(***************************************************************************)
(* How a frame travels through CANPiWi: canHandler's two queues and its    *)
(* threads, the fan-out of tcpServer, and the sending side of the clients. *)
(*                                                                         *)
(*   run_in            CAN bus -> in_msgs                                  *)
(*   run_queue_reader  in_msgs -> event handler -> clients of all servers  *)
(*   run_out           out_msgs -> CAN bus                                 *)
(*   a GRID client     out_msgs, then in_msgs, then the other GRID clients *)
(*   an ED client      out_msgs, then the GRID clients                     *)
(*   other threads     as an ED client: the keep-alive of a throttle, its  *)
(*                     CBUS reader (STMOD), the push button, the sweep     *)
(*                                                                         *)
(* The queue reader holds m_mutex_in, and the queue writer m_mutex, from   *)
(* the wake-up until the queue is empty; every other critical section is   *)
(* one step. A condition variable works as in MessageQueue.                *)
(*                                                                         *)
(* A throttle and the node send from several threads, and a put to the out *)
(* queue unlocks before its fan-out: the fan-outs of two threads overtake  *)
(* each other, so that order is a matter of the thread, not of its owner.  *)
(*                                                                         *)
(* Both servers run and their clients stay connected; the node is out of   *)
(* setup mode. The order in which a fan-out visits clients is left open.   *)
(***************************************************************************)
EXTENDS Naturals, Sequences, FiniteSets

CONSTANTS Ed, Grid,    \* connected clients of the ED and of the GRID server
          Helper,      \* the other threads that send, of throttles and node
          BusFrames,   \* the kinds of frames the CAN bus sends,
          GridFrames,  \* GRID clients send,
          EdFrames,    \* and throttles send
          MaxFrames    \* bound of the model: frames they send altogether

(* What a frame is to the router. Standard frames: a query makes the event *)
(* handler answer with one frame (QNN, RQNPN, NVRD ...), halt is HLT, go   *)
(* is BON or ARST, turnout is the ASON or ASOF of a throttle, data is any  *)
(* other. rtr is a standard remote frame, ext any extended frame.          *)
Kinds == {"data", "query", "halt", "go", "turnout", "rtr", "ext"}

ASSUME RouterAssumption ==
  /\ Ed \cap Grid = {} /\ Helper \cap (Ed \cup Grid) = {}
  /\ {"bus", "node", "wire", "reader", "answer"} \cap (Ed \cup Grid \cup Helper) = {}
  /\ MaxFrames \in Nat
  /\ BusFrames \subseteq Kinds /\ GridFrames \subseteq Kinds
  /\ EdFrames \subseteq {"data", "turnout"}

Clients == Ed \cup Grid

\* The threads outside canHandler's queues that send; a client stands for its
\* receiver, which is the only sending thread of a GRID client.
Threads == Clients \cup Helper

\* A frame's source is the thread that sent it, "node" the queue reader.
Sources == {"bus", "node"} \cup Threads

\* The activities that fan a frame out: the queue reader, the answer it may
\* send while it handles a frame, and the sending threads.
Senders == {"reader", "answer"} \cup Threads

Frame == [src : Sources, seq : Nat, kind : Kinds]
NoFrame == [src |-> "node", seq |-> 0, kind |-> "data"]

Standard(f) == f.kind # "ext"

VARIABLES
  inQ,      \* in_msgs
  outQ,     \* out_msgs
  stopped,  \* cbus_stopped
  reader,   \* program point of run_queue_reader
  writer,   \* program point of run_out
  client,   \* [Threads -> program point of the sending thread]
  what,     \* [Senders -> the frame being handled or fanned out]
  todo,     \* [Senders -> the clients its fan-out has still to visit]
  wire,     \* frames written to the CAN bus
  rcvd,     \* [Clients -> frames handed to the client]
  sent,     \* frames that entered so far, each under its queue's mutex
  posted,   \* history: every frame that entered
  dropped   \* history: frames the writer discarded

bus == <<stopped, wire, dropped>>
entry == <<sent, posted>>
senders == <<client, what>>
vars == <<inQ, outQ, reader, writer, todo, rcvd, bus, entry, senders>>

ReaderPoints == {"top", "waiting", "woken", "next", "handle", "answer",
                 "route", "spread", "rtr", "rtrAnswer"}
WriterPoints == {"top", "waiting", "woken", "drain"}
ClientPoints == {"idle", "out", "toIn", "post", "others"}

TypeOK ==
  /\ inQ \in Seq(Frame) /\ outQ \in Seq(Frame)
  /\ stopped \in BOOLEAN
  /\ reader \in ReaderPoints /\ writer \in WriterPoints
  /\ client \in [Threads -> ClientPoints]
  /\ what \in [Senders -> Frame]
  /\ todo \in [Senders -> SUBSET Clients]
  /\ wire \in Seq(Frame)
  /\ rcvd \in [Clients -> Seq(Frame)]
  /\ sent \in Nat
  /\ posted \subseteq Frame /\ dropped \subseteq Frame

Init ==
  /\ inQ = <<>> /\ outQ = <<>> /\ stopped = FALSE
  /\ reader = "top" /\ writer = "top"
  /\ client = [c \in Threads |-> "idle"]
  /\ what = [t \in Senders |-> NoFrame]
  /\ todo = [t \in Senders |-> {}]
  /\ wire = <<>> /\ rcvd = [c \in Clients |-> <<>>]
  /\ sent = 0
  /\ posted = {} /\ dropped = {}

-----------------------------------------------------------------------------
(* The two queues and the fan-outs.                                        *)

HoldsIn == reader \notin {"top", "waiting", "woken"}
HoldsOut == writer = "drain"

\* The bound: the node's own answers do not count.
MayEnter == Cardinality({f \in posted : f.src # "node"}) < MaxFrames

\* A new frame of source s, numbered as it enters.
New(s, k) == [src |-> s, seq |-> sent + 1, kind |-> k]
Enter(f) ==
  /\ sent' = f.seq
  /\ posted' = posted \cup {f}

\* put_to_out_queue up to the unlock.
PutOut(f) ==
  /\ ~HoldsOut
  /\ outQ' = Append(outQ, f)
  /\ writer' = IF writer = "waiting" THEN "woken" ELSE writer

PutIn(f) ==
  /\ ~HoldsIn
  /\ inQ' = Append(inQ, f)
  /\ reader' = IF reader = "waiting" THEN "woken" ELSE reader

\* The fan-out of put_to_out_queue: GRID servers, unless a GRID client sent f.
OutTargets(f) == IF f.src \in Grid THEN {} ELSE Grid

\* addCanMessage of both servers: extended frames are not for throttles.
ServerTargets(f) == (IF Standard(f) THEN Ed ELSE {}) \cup Grid

\* Mutant: the queue reader treats frames of GRID clients like any other.
EchoTargets(f) == ServerTargets(f)

\* Mutant: frames of GRID clients are kept from every server.
GridDropped(f) == IF f.src \in Grid THEN {} ELSE ServerTargets(f)

\* "do not send message from GRID to GRID"
ReaderTargets(f) ==
  IF f.src \in Grid THEN ServerTargets(f) \ Grid ELSE ServerTargets(f)

\* postMessageToAllClients of the sender's server: every other client of it,
\* but on the ED server nothing that is RTR or standard.
PostTargets(c, f) ==
  IF c \in Grid THEN Grid \ {c}
  ELSE IF f.kind = "rtr" \/ Standard(f) THEN {} ELSE Ed \ {c}

\* canMessage: tcpClient queues the frame for the throttle, a GRID client
\* writes it to its socket; the client has it, in the order of the calls.
Visit(t, c) ==
  /\ c \in todo[t]
  /\ rcvd' = [rcvd EXCEPT ![c] = Append(@, what[t])]
  /\ todo' = [todo EXCEPT ![t] = @ \ {c}]
  /\ UNCHANGED <<inQ, outQ, reader, writer, bus, entry, senders>>

-----------------------------------------------------------------------------
(* run_in                                                                  *)

BusFrame(k) ==
  LET f == New("bus", k) IN
  /\ MayEnter
  /\ Enter(f) /\ PutIn(f)
  /\ UNCHANGED <<outQ, writer, todo, rcvd, bus, senders>>

-----------------------------------------------------------------------------
(* run_out                                                                 *)

WriterGoto(from, to) ==
  /\ writer = from /\ writer' = to
  /\ UNCHANGED <<inQ, outQ, reader, todo, rcvd, bus, entry, senders>>

WriterWait == WriterGoto("top", "waiting")
WriterWake == WriterGoto("woken", "drain")

\* Mutant: the test for an empty queue is forgotten, front() is no frame.
WriterUntested ==
  /\ writer = "drain" /\ outQ = <<>>
  /\ wire' = Append(wire, outQ)
  /\ UNCHANGED <<inQ, outQ, reader, writer, todo, rcvd, stopped, dropped, entry, senders>>

WriterEmpty == outQ = <<>> /\ WriterGoto("drain", "top")

\* Mutant: a frame that may not be sent is left in the queue.
WriterKeep ==
  /\ writer = "drain" /\ outQ # <<>> /\ ~stopped
  /\ outQ' = Tail(outQ)
  /\ wire' = Append(wire, Head(outQ))
  /\ UNCHANGED <<inQ, reader, writer, todo, rcvd, stopped, dropped, entry, senders>>

WriterSend ==
  /\ writer = "drain" /\ outQ # <<>>
  /\ outQ' = Tail(outQ)
  /\ IF stopped
     THEN dropped' = dropped \cup {Head(outQ)} /\ UNCHANGED wire
     ELSE wire' = Append(wire, Head(outQ)) /\ UNCHANGED dropped
  /\ UNCHANGED <<inQ, reader, writer, todo, rcvd, stopped, entry, senders>>

-----------------------------------------------------------------------------
(* run_queue_reader                                                        *)

ReaderGoto(from, to) ==
  /\ reader = from /\ reader' = to
  /\ UNCHANGED <<inQ, outQ, writer, todo, rcvd, bus, entry, senders>>

ReaderWait == ReaderGoto("top", "waiting")
ReaderWake == ReaderGoto("woken", "next")
ReaderEmpty == inQ = <<>> /\ ReaderGoto("next", "top")

\* Mutant: the newest frame is handled first.
ReaderPopBack ==
  /\ reader = "next" /\ inQ # <<>>
  /\ inQ' = SubSeq(inQ, 1, Len(inQ) - 1)
  /\ what' = [what EXCEPT !["reader"] = inQ[Len(inQ)]]
  /\ reader' = "handle"
  /\ UNCHANGED <<outQ, writer, client, todo, rcvd, bus, entry>>

ReaderPop ==
  /\ reader = "next" /\ inQ # <<>>
  /\ inQ' = Tail(inQ)
  /\ what' = [what EXCEPT !["reader"] = Head(inQ)]
  /\ reader' = "handle"
  /\ UNCHANGED <<outQ, writer, client, todo, rcvd, bus, entry>>

\* handleCBUSEvents for the frames it does not answer.
ReaderHandle ==
  /\ reader = "handle" /\ what["reader"].kind # "query"
  /\ stopped' = CASE what["reader"].kind = "halt" -> TRUE
                  [] what["reader"].kind = "go" -> FALSE
                  [] OTHER -> stopped
  /\ reader' = "route"
  /\ UNCHANGED <<inQ, outQ, writer, todo, rcvd, wire, dropped, entry, senders>>

\* put_to_out_queue of an answer of the node, called with m_mutex_in held;
\* its fan-out follows at program point `to`.
Answer(from, to) ==
  LET r == New("node", "data") IN
  /\ reader = from /\ reader' = to
  /\ Enter(r) /\ PutOut(r)
  /\ what' = [what EXCEPT !["answer"] = r]
  /\ todo' = [todo EXCEPT !["answer"] = OutTargets(r)]
  /\ UNCHANGED <<inQ, client, rcvd, bus>>

ReaderAnswer == what["reader"].kind = "query" /\ Answer("handle", "answer")
ReaderAnswered == todo["answer"] = {} /\ ReaderGoto("answer", "route")

ReaderRoute ==
  /\ reader = "route" /\ reader' = "spread"
  /\ todo' = [todo EXCEPT !["reader"] = ReaderTargets(what["reader"])]
  /\ UNCHANGED <<inQ, outQ, writer, rcvd, bus, entry, senders>>

ReaderSpreadDone ==
  /\ reader = "spread" /\ todo["reader"] = {}
  /\ reader' = IF what["reader"].kind = "rtr" THEN "rtr" ELSE "next"
  /\ what' = [what EXCEPT !["reader"] = NoFrame]
  /\ UNCHANGED <<inQ, outQ, writer, client, todo, rcvd, bus, entry>>

\* "Check if some other node is doing auto enum and answer"
ReaderRtr == Answer("rtr", "rtrAnswer")
ReaderRtrDone == todo["answer"] = {} /\ ReaderGoto("rtrAnswer", "next")

-----------------------------------------------------------------------------
(* The sending threads.                                                    *)

ClientGoto(c, from, to) ==
  /\ client[c] = from /\ client' = [client EXCEPT ![c] = to]
  /\ UNCHANGED <<inQ, outQ, reader, writer, what, rcvd, bus, entry>>

\* tcpClientGridConnect::handleClientGridMessage, after the parse.
GridSend(g, k) ==
  LET f == New(g, k) IN
  /\ client[g] = "idle" /\ MayEnter
  /\ Enter(f) /\ PutOut(f)
  /\ what' = [what EXCEPT ![g] = f]
  /\ client' = [client EXCEPT ![g] = "toIn"]
  /\ UNCHANGED <<inQ, reader, todo, rcvd, bus>>

GridToIn(g) ==
  /\ client[g] = "toIn" /\ PutIn(what[g])
  /\ client' = [client EXCEPT ![g] = "post"]
  /\ UNCHANGED <<outQ, writer, what, todo, rcvd, bus, entry>>

\* sendCbusMessage for a command of the throttle, or a frame of another thread
\* (DKEEP, STMOD, RQNN ...).
EdSend(e, k) ==
  LET f == New(e, k) IN
  /\ client[e] = "idle" /\ MayEnter
  /\ Enter(f) /\ PutOut(f)
  /\ what' = [what EXCEPT ![e] = f]
  /\ todo' = [todo EXCEPT ![e] = OutTargets(f)]
  /\ client' = [client EXCEPT ![e] = "out"]
  /\ UNCHANGED <<inQ, reader, rcvd, bus>>

\* After a turnout command handleTurnout tells the other throttles.
EdSent(e) ==
  /\ todo[e] = {} /\ UNCHANGED todo
  /\ ClientGoto(e, "out", IF what[e].kind = "turnout" THEN "post" ELSE "others")

ClientPost(c) ==
  /\ ClientGoto(c, "post", "others")
  /\ todo' = [todo EXCEPT ![c] = PostTargets(c, what[c])]

ClientDone(c) ==
  /\ client[c] = "others" /\ todo[c] = {}
  /\ client' = [client EXCEPT ![c] = "idle"]
  /\ what' = [what EXCEPT ![c] = NoFrame]
  /\ UNCHANGED <<inQ, outQ, reader, writer, todo, rcvd, bus, entry>>

-----------------------------------------------------------------------------
Reader ==
  \/ ReaderWait \/ ReaderWake \/ ReaderEmpty \/ ReaderPop \/ ReaderHandle
  \/ ReaderAnswer \/ ReaderAnswered \/ ReaderRoute \/ ReaderSpreadDone
  \/ ReaderRtr \/ ReaderRtrDone
  \/ \E c \in Clients : Visit("reader", c) \/ Visit("answer", c)

Writer == WriterWait \/ WriterWake \/ WriterSend \/ WriterEmpty

\* What a client's thread does once it has a frame to send.
ClientStep(c) ==
  \/ GridToIn(c) \/ EdSent(c) \/ ClientPost(c) \/ ClientDone(c)
  \/ \E d \in Clients : Visit(c, d)

ClientSend(c) ==
  \/ c \in Grid /\ \E k \in GridFrames : GridSend(c, k)
  \/ c \in Ed /\ \E k \in EdFrames : EdSend(c, k)
  \/ c \in Helper /\ EdSend(c, "data")

Next ==
  \/ Reader \/ Writer
  \/ \E k \in BusFrames : BusFrame(k)
  \/ \E c \in Threads : ClientSend(c) \/ ClientStep(c)

Spec == Init /\ [][Next]_vars

\* Every thread that can run does, and a thread that keeps asking for a
\* mutex gets it. No source owes a frame.
Fairness ==
  /\ WF_vars(Reader) /\ SF_vars(ReaderAnswer) /\ SF_vars(ReaderRtr)
  /\ WF_vars(Writer)
  /\ \A c \in Threads : WF_vars(ClientStep(c)) /\ SF_vars(GridToIn(c))

FairSpec == Spec /\ Fairness

-----------------------------------------------------------------------------
(* Properties.                                                             *)

InFlight ==
  {inQ[i] : i \in DOMAIN inQ} \cup {outQ[i] : i \in DOMAIN outQ}
    \cup {what[t] : t \in Senders}
OnWire == {wire[i] : i \in DOMAIN wire}
ReceivedBy(c) == {rcvd[c][i] : i \in DOMAIN rcvd[c]}

(* A GridConnect program never gets its own frame back, on whichever of    *)
(* the three ways (out queue, in queue, other clients) it travelled.       *)
NoEcho == \A g \in Grid : \A i \in DOMAIN rcvd[g] : rcvd[g][i].src # g

(* The bus gets the frames in the order in which the threads put them in,  *)
(* whoever sent them. A client gets no frame twice, although a GRID frame  *)
(* takes three ways, and those of one thread in the order it sent them;    *)
(* those of two threads of one throttle, or of the node, may be swapped.   *)
InPushOrder(s) == \A i, j \in DOMAIN s : i < j => s[i].seq < s[j].seq
InSourceOrder(s) ==
  \A i, j \in DOMAIN s : i < j /\ s[i].src = s[j].src => s[i].seq < s[j].seq

OrderKept == InPushOrder(wire) /\ \A c \in Clients : InSourceOrder(rcvd[c])

(* Whom the comments of the code promise a frame: GRID clients everything  *)
(* from elsewhere, throttles every standard frame of the bus and of GRID   *)
(* clients, and the other throttles the event of a turnout command ("send  *)
(* to other EDs", "send to the other clients").                            *)
OwedTo(f) ==
  CASE f.src \in {"bus"} \cup Grid ->
         (IF Standard(f) THEN Ed ELSE {}) \cup (Grid \ {f.src})
    [] f.src \in Ed /\ f.kind = "turnout" -> Grid \cup (Ed \ {f.src})
    [] OTHER -> Grid

\* The copies that are promised and never made: postMessageToAllClients of the
\* ED server returns early for the frames it is for.
NotShared(f, c) == f.src \in Ed /\ c \in Ed

(* When a frame has left the queues and every thread, all whom it is       *)
(* promised have it, but for exactly that exception: no path through the   *)
(* fan-outs forgets one. Only a stopped bus may miss it.                   *)
Complete ==
  \A f \in posted \ InFlight :
    /\ \A c \in OwedTo(f) : f \in ReceivedBy(c) <=> ~NotShared(f, c)
    /\ f.src # "bus" => f \in OnWire \cup dropped

(* No thread is stuck: the queue reader, which answers with m_mutex_in     *)
(* held and needs m_mutex, and every client thread, which takes the two    *)
(* one after the other, all get back to where they wait for work.          *)
ThreadsComeHome ==
  /\ HoldsIn ~> ~HoldsIn
  /\ HoldsOut ~> ~HoldsOut
  /\ \A c \in Threads : client[c] # "idle" ~> client[c] = "idle"

(* The router implements the abstract switch. A throttle may hear of       *)
(* others' turnout commands only.                                          *)
MayReach ==
  { r \in Sources \X Kinds \X (Clients \cup {"wire"}) :
      /\ r[3] # r[1]
      /\ r[3] = "wire" => r[1] # "bus"
      /\ r[3] \in Ed => \/ r[1] \in {"bus"} \cup Grid /\ r[2] # "ext"
                        \/ r[1] \in Ed /\ r[2] = "turnout" }

Bus == INSTANCE FrameBus WITH
  Frame <- Frame, Sink <- Clients \cup {"wire"}, Reach <- MayReach, Sorted <- {"wire"},
  posted <- posted,
  got <- [d \in Clients \cup {"wire"} |-> IF d = "wire" THEN wire ELSE rcvd[d]]
BusSpec == Bus!Spec
=============================================================================
