---------------------------- MODULE MessageQueue ----------------------------
(***************************************************************************)
(* The one hand-over between threads that CANPiWi uses everywhere: a       *)
(* std::queue under a pthread mutex with one condition variable, several   *)
(* threads that put and one that takes.                                    *)
(*                                                                         *)
(*   canHandler::in_msgs           put: run_in, put_to_incoming_queue      *)
(*                                 take: run_queue_reader      (drains)    *)
(*   canHandler::out_msgs          put: put_to_out_queue                   *)
(*                                 take: run_out               (drains)    *)
(*   tcpClient::in_msgs            put: canMessage                         *)
(*                                 take: processCbusQueue      (takes one) *)
(*   tcpClientGridConnect::in_grid_msgs     put: run                       *)
(*                                 take: run_in_grid_msgs      (takes one) *)
(*                                                                         *)
(* The taker waits on the condition variable BEFORE it looks at the queue, *)
(* and it looks at the queue once per wake-up: a signal sent while it is   *)
(* anywhere else is lost.                                                  *)
(***************************************************************************)
EXTENDS Naturals, Sequences, FiniteSets

CONSTANTS Producers,  \* the threads that put
          None,       \* no thread: the mutex is free
          MaxPuts     \* bound of the model: messages each producer puts

ASSUME QueueAssumption ==
  /\ None \notin Producers
  /\ "taker" \notin Producers /\ None # "taker"
  /\ MaxPuts \in Nat

VARIABLES
  drains,    \* TRUE: a wake-up empties the queue; FALSE: it takes one message
  queue,     \* the std::queue
  mutex,     \* the thread that holds the mutex, or None
  ppc,       \* [Producers -> program point of the put]
  cpc,       \* program point of the taker
  running,   \* the flag the taker's loop tests, cleared by stop()
  puts,      \* [Producers -> messages put so far]
  accepted,  \* history: messages in the order they entered the queue
  taken      \* history: messages in the order the taker got them

vars == <<drains, queue, mutex, ppc, cpc, running, puts, accepted, taken>>
data == <<drains, queue, puts, accepted, taken>>

Message == Producers \X (1 .. MaxPuts)

ProducerPoints == {"idle", "push", "signal", "unlock"}
TakerPoints ==
  {"top", "lock", "wait", "waiting", "woken", "check", "unlock", "exit"}

TypeOK ==
  /\ drains \in BOOLEAN
  /\ queue \in Seq(Message)
  /\ mutex \in Producers \cup {"taker", None}
  /\ ppc \in [Producers -> ProducerPoints]
  /\ cpc \in TakerPoints
  /\ running \in BOOLEAN
  /\ puts \in [Producers -> 0 .. MaxPuts]
  /\ accepted \in Seq(Message)
  /\ taken \in Seq(Message)

\* Either kind of taker; which one it is never changes.
Init ==
  /\ drains \in BOOLEAN
  /\ queue = <<>> /\ mutex = None
  /\ ppc = [p \in Producers |-> "idle"] /\ cpc = "top"
  /\ running = TRUE
  /\ puts = [p \in Producers |-> 0]
  /\ accepted = <<>> /\ taken = <<>>

-----------------------------------------------------------------------------
(* The put: lock, push, signal, unlock.                                    *)

PutLock(p) ==
  /\ ppc[p] = "idle" /\ puts[p] < MaxPuts
  /\ mutex = None
  /\ mutex' = p
  /\ ppc' = [ppc EXCEPT ![p] = "push"]
  /\ UNCHANGED <<data, cpc, running>>

PutPush(p) ==
  LET m == <<p, puts[p] + 1>> IN
  /\ ppc[p] = "push"
  /\ queue' = Append(queue, m)
  /\ accepted' = Append(accepted, m)
  /\ puts' = [puts EXCEPT ![p] = @ + 1]
  /\ ppc' = [ppc EXCEPT ![p] = "signal"]
  /\ UNCHANGED <<drains, mutex, cpc, running, taken>>

\* Mutant: the put forgets to signal.
PutNoSignal(p) ==
  /\ ppc[p] = "signal"
  /\ ppc' = [ppc EXCEPT ![p] = "unlock"]
  /\ UNCHANGED <<data, mutex, cpc, running>>

\* pthread_cond_signal wakes the taker if it waits and is forgotten otherwise.
PutSignal(p) ==
  /\ ppc[p] = "signal"
  /\ cpc' = IF cpc = "waiting" THEN "woken" ELSE cpc
  /\ ppc' = [ppc EXCEPT ![p] = "unlock"]
  /\ UNCHANGED <<data, mutex, running>>

PutUnlock(p) ==
  /\ ppc[p] = "unlock"
  /\ mutex' = None
  /\ ppc' = [ppc EXCEPT ![p] = "idle"]
  /\ UNCHANGED <<data, cpc, running>>

-----------------------------------------------------------------------------
(* The taker's loop.                                                       *)

\* while (running): the flag is read without the mutex.
TakeLoop ==
  /\ cpc = "top"
  /\ cpc' = IF running THEN "lock" ELSE "exit"
  /\ UNCHANGED <<data, mutex, ppc, running>>

TakeLock ==
  /\ cpc = "lock" /\ mutex = None
  /\ mutex' = "taker"
  /\ cpc' = "wait"
  /\ UNCHANGED <<data, ppc, running>>

\* pthread_cond_wait, called without looking at the queue: it releases the
\* mutex and blocks in one step.
TakeWait ==
  /\ cpc = "wait"
  /\ mutex' = None
  /\ cpc' = "waiting"
  /\ UNCHANGED <<data, ppc, running>>

\* pthread_cond_wait may return without a signal.
SpuriousWakeup ==
  /\ cpc = "waiting"
  /\ cpc' = "woken"
  /\ UNCHANGED <<data, mutex, ppc, running>>

TakeRelock ==
  /\ cpc = "woken" /\ mutex = None
  /\ mutex' = "taker"
  /\ cpc' = "check"
  /\ UNCHANGED <<data, ppc, running>>

\* Mutant: the front is read and not popped.
TakeNoPop ==
  /\ cpc = "check" /\ queue # <<>>
  /\ taken' = Append(taken, Head(queue))
  /\ cpc' = "unlock"
  /\ UNCHANGED <<drains, queue, mutex, ppc, running, puts, accepted>>

TakePop ==
  /\ cpc = "check" /\ queue # <<>>
  /\ taken' = Append(taken, Head(queue))
  /\ queue' = Tail(queue)
  /\ cpc' = IF drains THEN "check" ELSE "unlock"
  /\ UNCHANGED <<drains, mutex, ppc, running, puts, accepted>>

\* Mutant: the test for an empty queue is forgotten, front() is no message.
TakeUntested ==
  /\ cpc = "check" /\ queue = <<>>
  /\ taken' = Append(taken, <<None, 0>>)
  /\ cpc' = "unlock"
  /\ UNCHANGED <<drains, queue, mutex, ppc, running, puts, accepted>>

TakeEmpty ==
  /\ cpc = "check" /\ queue = <<>>
  /\ cpc' = "unlock"
  /\ UNCHANGED <<data, mutex, ppc, running>>

TakeUnlock ==
  /\ cpc = "unlock"
  /\ mutex' = None
  /\ cpc' = "top"
  /\ UNCHANGED <<data, ppc, running>>

\* stop() or the end of the connection: the flag only, no signal.
Stop ==
  /\ running
  /\ running' = FALSE
  /\ UNCHANGED <<data, mutex, ppc, cpc>>

Put(p) == PutLock(p) \/ PutPush(p) \/ PutSignal(p) \/ PutUnlock(p)

Take ==
  \/ TakeLoop \/ TakeLock \/ TakeWait \/ TakeRelock
  \/ TakePop \/ TakeEmpty \/ TakeUnlock

Next == Take \/ SpuriousWakeup \/ Stop \/ \E p \in Producers : Put(p)

Spec == Init /\ [][Next]_vars

\* The scheduler runs every thread that can run, and a thread that keeps
\* asking for the mutex gets it. Neither a spurious wake-up nor a stop is
\* owed to anybody, and no thread owes a further put.
Fairness ==
  /\ WF_vars(Take)
  /\ SF_vars(TakeLock) /\ SF_vars(TakeRelock)
  /\ \A p \in Producers : WF_vars(PutPush(p) \/ PutSignal(p) \/ PutUnlock(p))

FairSpec == Spec /\ Fairness

-----------------------------------------------------------------------------
(* Properties.                                                             *)

InPut(p) == ppc[p] \in {"push", "signal", "unlock"}
InTake == cpc \in {"wait", "check", "unlock"}

(* The std::queue is never touched by two threads at once: whoever is      *)
(* between lock and unlock holds the mutex, so a put and a take, or two    *)
(* puts, never overlap (canHandler.cpp:146-151, 525-551).                  *)
MutualExclusion ==
  /\ \A p \in Producers : InPut(p) => mutex = p
  /\ InTake => mutex = "taker"

(* No message is lost, duplicated or overtaken inside the hand-over: what  *)
(* was taken followed by what is still queued is exactly what was put.     *)
NothingLost == accepted = taken \o queue

(* The messages of one thread reach the taker in the order the thread put  *)
(* them, however the threads interleave.                                   *)
ProducerOrder ==
  \A i, j \in DOMAIN taken :
    i < j /\ taken[i][1] = taken[j][1] => taken[i][2] < taken[j][2]

(* A wake-up of a draining taker leaves nothing behind: it gives the mutex *)
(* back only on an empty queue ("release the lock because the queue is     *)
(* empty", canHandler.cpp:462), so a message it misses was put after that. *)
DrainedOnUnlock == drains /\ cpc = "unlock" => queue = <<>>

(* A message put while the taker waits gets the taker going: at least one  *)
(* more message is taken, and a draining taker empties the queue, with     *)
(* everything that an earlier lost signal stranded in it.                  *)
PutWhileWaiting(p) == cpc = "waiting" /\ ppc[p] = "signal" /\ running

WakeupTakes ==
  \A p \in Producers, n \in 0 .. MaxPuts * Cardinality(Producers) :
    (PutWhileWaiting(p) /\ Len(taken) = n)
      ~> \/ Len(taken) > n /\ (drains => queue = <<>>)
         \/ ~running

(* The hand-over implements the abstract channel.                          *)
Channel == INSTANCE FifoChannel WITH accepted <- accepted, delivered <- taken
ChannelSpec == Channel!Spec

(* What the comments of the loops say: "block this thread until another    *)
(* there is something in the queue" (canHandler.cpp:370), then "consume    *)
(* all messages" (canHandler.cpp:378). A queued message is taken.          *)
QueuedIsTaken == queue # <<>> ~> (queue = <<>> \/ ~running)
=============================================================================
