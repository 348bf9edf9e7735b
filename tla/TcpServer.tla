----------------------------- MODULE TcpServer -----------------------------
(***************************************************************************)
(* The life of the clients of one TCP server (tcpServer): the thread that  *)
(* accepts connections, one thread for each client, the fan-outs that      *)
(* visit the clients, and the shutdown. They share the map of clients and  *)
(* the member tempClient, with no lock.                                    *)
(*                                                                         *)
(* A client is named by its id, the value of counter when it was accepted; *)
(* the model counts from one. Nothing is assumed about the schedule: the   *)
(* races it may lose are recorded in raced, and a step that uses a deleted *)
(* client or an erased iterator has no defined outcome and ends the model  *)
(* (undefined).                                                            *)
(***************************************************************************)
EXTENDS Naturals

CONSTANT MaxClients  \* bound of the model: connections accepted

ASSUME ServerAssumption == MaxClients \in Nat \ {0}

Ids == 1..MaxClients
None == 0

\* overtaken: a connection was accepted before the thread of this one had read
\* tempClient; early: the client was removed before it was inserted;
\* underfoot: it went out of the map while a walk stood at it; late: it was
\* started when the shutdown had passed it.
Races == {"overtaken", "early", "underfoot", "late"}

VARIABLES
  running,   \* tcpServer::running
  acceptor,  \* tcpServer::run: "accept", "insert" or "exit"
  counter,   \* the id of the next client
  temp,      \* tempClient
  clients,   \* the ids in the map
  thread,    \* [Ids -> the thread created for the client]
  serves,    \* [Ids -> the client whose start() that thread has called]
  object,    \* [Ids -> "none", "live" or "deleted"]
  up,        \* [Ids -> running of the client]
  peer,      \* [Ids -> the other side of the connection is there]
  visit,     \* the client a fan-out stands at, or None
  halt,      \* the client the shutdown stands at, or None
  phase,     \* the shutdown: "up", "stopping" or "down"
  raced,     \* history: pairs of a client and a race it was lost to
  undefined  \* something deleted has been used

server == <<running, acceptor, counter, temp, clients>>
threads == <<thread, serves, object, up, peer>>
walks == <<visit, halt, phase>>
faults == <<raced, undefined>>
serverVars == <<server, threads, walks, faults>>

ServerTypeOK ==
  /\ running \in BOOLEAN /\ acceptor \in {"accept", "insert", "exit"}
  /\ counter \in 1..(MaxClients + 1) /\ temp \in Ids \cup {None}
  /\ clients \subseteq Ids
  /\ thread \in [Ids -> {"none", "born", "recv", "closing", "done", "cancelled"}]
  /\ serves \in [Ids -> Ids \cup {None}]
  /\ object \in [Ids -> {"none", "live", "deleted"}]
  /\ up \in [Ids -> BOOLEAN] /\ peer \in [Ids -> BOOLEAN]
  /\ visit \in Ids \cup {None} /\ halt \in Ids \cup {None}
  /\ phase \in {"up", "stopping", "down"}
  /\ raced \subseteq Ids \X Races /\ undefined \in BOOLEAN

ServerInit ==
  /\ running = TRUE /\ acceptor = "accept" /\ counter = 1 /\ temp = None
  /\ clients = {}
  /\ thread = [i \in Ids |-> "none"] /\ serves = [i \in Ids |-> None]
  /\ object = [i \in Ids |-> "none"]
  /\ up = [i \in Ids |-> FALSE] /\ peer = [i \in Ids |-> FALSE]
  /\ visit = None /\ halt = None /\ phase = "up"
  /\ raced = {} /\ undefined = FALSE

\* The client that has a thread and is not in the map yet.
Inserting(c) == acceptor = "insert" /\ c = counter

-----------------------------------------------------------------------------
(* tcpServer::run.                                                         *)

MayAccept == ~undefined /\ acceptor = "accept" /\ counter <= MaxClients

\* Threads that have not read tempClient will miss their own client there.
Overtakes == raced' = raced \cup {i \in Ids : thread[i] = "born"} \X {"overtaken"}

\* Mutant: tempClient is set after the thread is created.
AcceptThreadFirst ==
  /\ MayAccept
  /\ object' = [object EXCEPT ![counter] = "live"]
  /\ peer' = [peer EXCEPT ![counter] = TRUE]
  /\ thread' = [thread EXCEPT ![counter] = "born"]
  /\ serves' = [serves EXCEPT ![counter] = temp]
  /\ temp' = counter
  /\ acceptor' = "insert" /\ Overtakes
  /\ UNCHANGED <<running, counter, clients, up, walks, undefined>>

\* A client is created, published in tempClient and given a thread.
Accept ==
  /\ MayAccept
  /\ object' = [object EXCEPT ![counter] = "live"]
  /\ peer' = [peer EXCEPT ![counter] = TRUE]
  /\ temp' = counter
  /\ thread' = [thread EXCEPT ![counter] = "born"]
  /\ acceptor' = "insert" /\ Overtakes
  /\ UNCHANGED <<running, counter, clients, serves, up, walks, undefined>>

\* The client enters the map. A server that has been stopped ends here, with
\* the connection it was waiting for, and cancels the threads of all clients.
Insert ==
  /\ ~undefined /\ acceptor = "insert"
  /\ clients' = clients \cup {counter}
  /\ counter' = counter + 1
  /\ IF running
       THEN acceptor' = "accept" /\ UNCHANGED thread
       ELSE /\ acceptor' = "exit"
            /\ thread' = [i \in Ids |-> IF thread[i] \in {"born", "recv", "closing"}
                                          THEN "cancelled" ELSE thread[i]]
  /\ UNCHANGED <<running, temp, serves, object, up, peer, walks, faults>>

-----------------------------------------------------------------------------
(* The thread of a client.                                                 *)

\* The shutdown has passed c, or it has gone out of the map.
Passed(c) == ~Inserting(c) /\ (c \notin clients \/ c <= halt)

\* run_client: the thread starts what tempClient points to.
ThreadStart(i) ==
  /\ ~undefined /\ thread[i] = "born" /\ acceptor # "exit"
  /\ LET c == IF serves[i] = None THEN temp ELSE serves[i] IN
       /\ object[c] = "live"
       /\ serves' = [serves EXCEPT ![i] = c]
       /\ up' = [up EXCEPT ![c] = TRUE]
       /\ raced' = raced \cup {x \in {<<c, "late">>} : Passed(c)}
  /\ thread' = [thread EXCEPT ![i] = "recv"]
  /\ UNCHANGED <<server, object, peer, walks, undefined>>

PeerCloses(c) ==
  /\ ~undefined /\ peer[c]
  /\ peer' = [peer EXCEPT ![c] = FALSE]
  /\ UNCHANGED <<server, thread, serves, object, up, walks, faults>>

\* recv returns: the peer is gone, or it has sent something after stop.
RecvEnds(i) ==
  /\ ~undefined /\ thread[i] = "recv" /\ object[serves[i]] = "live"
  /\ ~peer[serves[i]] \/ ~up[serves[i]]
  /\ thread' = [thread EXCEPT ![i] = "closing"]
  /\ up' = [up EXCEPT ![serves[i]] = FALSE]
  /\ UNCHANGED <<server, serves, object, peer, walks, faults>>

\* One or two seconds after recv.
Removal(i) ==
  /\ ~undefined /\ thread[i] = "closing" /\ object[serves[i]] = "live"
  /\ object' = [object EXCEPT ![serves[i]] = "deleted"]
  /\ thread' = [thread EXCEPT ![i] = "done"]
  /\ LET c == serves[i] IN
       raced' = raced \cup {x \in {<<c, "early">>} : Inserting(c)}
                      \cup {x \in {<<c, "underfoot">>} : c \in {visit, halt}}
  /\ UNCHANGED <<running, acceptor, counter, temp, serves, up, peer, walks, undefined>>

\* Mutant: the client is not taken out of the map.
RemoveDeleteOnly(i) == Removal(i) /\ UNCHANGED clients

\* removeClient: out of the map, if it is in it, and deleted.
RemoveClient(i) == Removal(i) /\ clients' = clients \ {serves[i]}

-----------------------------------------------------------------------------
(* Fan-outs (addCanMessage) and the shutdown (removeClients) go through    *)
(* the map in the order of the ids.                                        *)

\* n comes after c in the map, None after the last client.
Follows(n, c) ==
  IF n = None THEN \A i \in clients : i <= c
  ELSE n \in clients /\ n > c /\ \A i \in clients : i > c => n <= i

\* A walk stands at a client that is deleted, or at an erased iterator.
Lost(w) == w # None /\ (w \notin clients \/ object[w] = "deleted")

FanStart ==
  /\ ~undefined /\ visit = None
  /\ \E n \in clients \cup {None} : Follows(n, None) /\ visit' = n
  /\ UNCHANGED <<server, threads, halt, phase, faults>>

FanVisit ==
  /\ ~undefined /\ visit # None /\ ~Lost(visit)
  /\ \E n \in clients \cup {None} : Follows(n, visit) /\ visit' = n
  /\ UNCHANGED <<server, threads, halt, phase, faults>>

\* Mutant: the map is cleared, and no client stopped.
StopCleared ==
  /\ ~undefined /\ phase # "down" /\ ~Lost(halt)
  /\ phase' = "down" /\ running' = FALSE /\ clients' = {} /\ halt' = None
  /\ raced' = raced \cup ({visit} \ {None}) \X {"underfoot"}
  /\ UNCHANGED <<acceptor, counter, temp, threads, visit, undefined>>

\* stop of the next client in the map, which takes a second or more for a
\* throttle; after the last one the map is cleared.
Stop ==
  /\ ~undefined /\ phase # "down" /\ ~Lost(halt)
  /\ \E n \in clients \cup {None} :
       /\ Follows(n, halt)
       /\ halt' = n
       /\ IF n # None
            THEN /\ phase' = "stopping"
                 /\ up' = [up EXCEPT ![n] = FALSE]
                 /\ UNCHANGED <<running, clients, raced>>
            ELSE /\ phase' = "down" /\ running' = FALSE /\ clients' = {}
                 /\ raced' = raced \cup ({visit} \ {None}) \X {"underfoot"}
                 /\ UNCHANGED up
  /\ UNCHANGED <<acceptor, counter, temp, thread, serves, object, peer, visit, undefined>>

-----------------------------------------------------------------------------
(* What has no defined outcome: a thread starts or goes on with a deleted  *)
(* client, a walk goes on from where nothing is any more.                  *)

StartsDeleted(i) == thread[i] = "born" /\ acceptor # "exit" /\ object[temp] = "deleted"
ServesDeleted(i) == thread[i] \in {"recv", "closing"} /\ object[serves[i]] = "deleted"

Undefine ==
  /\ ~undefined
  /\ Lost(visit) \/ Lost(halt) \/ \E i \in Ids : StartsDeleted(i) \/ ServesDeleted(i)
  /\ undefined' = TRUE
  /\ UNCHANGED <<server, threads, walks, raced>>

ServerNext ==
  \/ Accept \/ Insert \/ FanStart \/ FanVisit \/ Stop \/ Undefine
  \/ \E i \in Ids : ThreadStart(i) \/ PeerCloses(i) \/ RecvEnds(i) \/ RemoveClient(i)

ServerSpec == ServerInit /\ [][ServerNext]_serverVars

-----------------------------------------------------------------------------
(* Properties.                                                             *)

Raced(c, kinds) == \E k \in kinds : <<c, k>> \in raced

\* Although all threads read their client from the one member tempClient, each
\* serves the client it was created for; or, if other connections were accepted
\* before it read, one of those, never an earlier one.
OwnClient ==
  \A i \in Ids : thread[i] \in {"recv", "closing", "done"} =>
    serves[i] = i \/ (serves[i] > i /\ Raced(i, {"overtaken"}))

\* The map leads to no deleted client but one that was removed before it was
\* inserted, and a walk stands at none but such a one and one that was removed
\* under it. The program reaches undefined behaviour by these races and by
\* overtaken threads, and in no other way.
NoneDangling ==
  /\ \A c \in clients : object[c] = "live" \/ Raced(c, {"early"})
  /\ \A w \in {visit, halt} \ {None} : Lost(w) => Raced(w, {"early", "underfoot"})
  /\ undefined => \E c \in Ids : Raced(c, {"overtaken", "early", "underfoot"})

\* Every client that runs is in the map, where fan-outs and the shutdown find
\* it, except for the moment between the start of its thread and the insert,
\* and unless its thread started when the shutdown had passed it.
RunningIsKnown ==
  \A c \in Ids : up[c] /\ object[c] = "live" =>
    c \in clients \/ Inserting(c) \/ Raced(c, {"late"})

\* As long as the server runs, a client whose peer has gone is removed, unless
\* its thread was overtaken and serves another one.
GonePeerIsRemoved ==
  \A c \in Ids : object[c] = "live" /\ ~peer[c] ~>
    object[c] = "deleted" \/ ~running \/ undefined \/ Raced(c, {"overtaken"})

=============================================================================
