------------------------------ MODULE Sessions ------------------------------
(***************************************************************************)
(* Locomotive sessions: what a throttle (ED) holds, the registry of all    *)
(* sessions that outlives its connection, and the sweep that stops and     *)
(* releases the locomotives of throttles that do not come back.            *)
(*                                                                         *)
(* A connection has three threads: the receiver (tcpClient::run), the CBUS *)
(* reader (processCbusQueue) and the keep-alive (sendKeepAlive). The       *)
(* session thread (sessionHandler::run) sweeps the registry, and main      *)
(* stops the clients at the end. The command station is external: it       *)
(* answers RLOC with PLOC to every throttle, and KLOC frees the locomotive.*)
(*                                                                         *)
(* A device may open a connection while its last one is still there, and   *)
(* an answer may come after the receiver has ceased to wait for it. The    *)
(* races this may lose are recorded in raced; a step that uses a deleted   *)
(* session has no defined outcome and ends the model (undefined).          *)
(*                                                                         *)
(* Time is abstract: a session is late once more than orphan_timeout has   *)
(* passed since the last keep-alive to its throttle. That takes seconds,   *)
(* so no thread is inside a handler meanwhile, unless the handler sleeps.  *)
(***************************************************************************)
EXTENDS Naturals, Sequences, FiniteSets, SequencesExt

CONSTANTS
  Conns,       \* connections, past and future
  IpOf,        \* [Conns -> the address a connection comes from]
  Locos,       \* locomotives
  Wants,       \* [Conns -> the locomotives its user may ask for]
  MaxUid,      \* bound of the model: edSession objects created
  MaxSid,      \* bound of the model: sessions the command station grants
  MaxCommands, \* bound of the model: commands under way when one is requested
  Serialized   \* TRUE: no thread changes the registry during a sweep

ASSUME SessionsAssumption ==
  /\ MaxUid \in Nat /\ MaxSid \in Nat /\ MaxCommands \in Nat /\ 0 \notin Locos
  /\ Wants \in [Conns -> SUBSET Locos]
  /\ Serialized \in BOOLEAN

\* What may happen to a session. shared: given up by one connection while
\* another one, that is up, uses it; crossed: the next request was written into
\* it while its PLOC was being handled; tardy: it got its number while a
\* release of all slept; hurried: it became an orphan while its PLOC was being
\* handled.
Races == {"shared", "crossed", "tardy", "hurried"}

VARIABLES
  reg,     \* sessionHandler::sessions, the set of the uids in the vector:
           \* sessions are pushed at its end in ascending order of their uid
  uids,    \* sessionids, the last uid
  freed,   \* the uids whose edSession was deleted
  obj,     \* [uid -> the edSession]
  phase,   \* [Conns -> "new", "up", "down" (recv failed), "gone" (deleted)]
  cur,     \* [Conns -> tcpClient::edsession, the session of the next request]
  held,    \* [Conns -> tcpClient::sessions, a function from locos to uids]
  recv,    \* [Conns -> the receiver: "idle", "wait", "release" or "clear"]
  target,  \* [Conns -> the locos the receiver releases]
  cbus,    \* [Conns -> the CBUS reader: "idle", "got", "new" or "exit"]
  inbox,   \* [Conns -> the PLOCs not yet read]
  alive,   \* [Conns -> TRUE: the keep-alive may still visit]
  ending,  \* [Conns -> tcpClient::stop: "no", "sleep" (before it deletes the
           \* sessions) or "done"]
  sweep,   \* the session thread: 0 asleep, else the position of its iterator,
           \* Cardinality(reg) + 1 at the end of the vector
  victim,  \* the session the sweep is releasing, or 0
  strayed, \* the session behind which the iterator of the sweep has passed
           \* the end of the registry, or 0
  stopped, \* TRUE: sessionHandler::stop was called, the program ends
  toCs,    \* commands on their way to the command station
  engines, \* the command station: [Locos -> its session, or 0]
  sids,    \* the sessions granted so far
  killed,  \* history: the sessions KLOC was sent for
  raced,   \* history: pairs of a uid and a race it was lost to
  undefined  \* a deleted session or a missing map entry has been used

registry == <<reg, uids, freed>>
clients == <<phase, cur, held, recv, target, cbus, inbox, alive, ending>>
sweeper == <<sweep, victim, strayed, stopped>>
station == <<toCs, engines, sids, killed>>
faults == <<raced, undefined>>
vars == <<registry, obj, clients, sweeper, station, faults>>

Uid == 1 .. MaxUid
EdSession == [ip : {IpOf[c] : c \in Conns}, loco : Locos \cup {0},
              sid : 0 .. MaxSid, orphan : BOOLEAN, late : BOOLEAN]
Command == [op : {"RLOC"}, loco : Locos, sid : {0}]
           \cup [op : {"KLOC"}, loco : {0}, sid : 1 .. MaxSid]
Answer == [loco : Locos, sid : 1 .. MaxSid]

\* A fresh edSession of connection c: no loco, no session (0 for both).
NewSession(c) ==
  [ip |-> IpOf[c], loco |-> 0, sid |-> 0, orphan |-> FALSE, late |-> FALSE]

IsSet(u) == obj[u].sid # 0
Without(f, S) == [l \in DOMAIN f \ S |-> f[l]]

\* std::map::insert: an entry that is there stays.
Inserted(f, l, u) ==
  [k \in DOMAIN f \cup {l} |-> IF k \in DOMAIN f THEN f[k] ELSE u]
HeldBy(c) == {held[c][l] : l \in DOMAIN held[c]}
Maps(n) == UNION {[L -> 1 .. n] : L \in SUBSET Locos}

\* The assumption the module is about: see Serialized.
RegistryFree == sweep = 0 \/ ~Serialized

Rloc(l) == [op |-> "RLOC", loco |-> l, sid |-> 0]
Kloc(s) == [op |-> "KLOC", loco |-> 0, sid |-> s]

RegistryOK ==
  /\ uids \in 0 .. MaxUid /\ reg \subseteq 1 .. uids
  /\ freed \subseteq 1 .. uids
  /\ obj \in [1 .. uids -> EdSession]

ClientsOK ==
  /\ phase \in [Conns -> {"new", "up", "down", "gone"}]
  /\ cur \in [Conns -> 0 .. uids] /\ held \in [Conns -> Maps(uids)]
  /\ recv \in [Conns -> {"idle", "wait", "release", "clear"}]
  /\ target \in [Conns -> SUBSET Locos]
  /\ cbus \in [Conns -> {"idle", "got", "new", "exit"}]
  /\ inbox \in [Conns -> Seq(Answer)]
  /\ alive \in [Conns -> BOOLEAN]
  /\ ending \in [Conns -> {"no", "sleep", "done"}]

SweeperOK ==
  /\ sweep \in 0 .. MaxUid + 1 /\ victim \in 0 .. uids
  /\ strayed \in 0 .. uids /\ stopped \in BOOLEAN

StationOK ==
  /\ toCs \in Seq(Command)
  /\ engines \in [Locos -> 0 .. MaxSid] /\ sids \in 0 .. MaxSid
  /\ killed \subseteq 1 .. MaxSid

FaultsOK == raced \subseteq (1 .. uids) \X Races /\ undefined \in BOOLEAN

TypeOK == RegistryOK /\ ClientsOK /\ SweeperOK /\ StationOK /\ FaultsOK

Init ==
  /\ reg = {} /\ uids = 0 /\ freed = {} /\ obj = <<>>
  /\ phase = [c \in Conns |-> "new"] /\ cur = [c \in Conns |-> 0]
  /\ held = [c \in Conns |-> <<>>]
  /\ recv = [c \in Conns |-> "idle"] /\ target = [c \in Conns |-> {}]
  /\ cbus = [c \in Conns |-> "idle"] /\ inbox = [c \in Conns |-> <<>>]
  /\ alive = [c \in Conns |-> FALSE] /\ ending = [c \in Conns |-> "no"]
  /\ sweep = 0 /\ victim = 0 /\ strayed = 0 /\ stopped = FALSE
  /\ toCs = <<>> /\ engines = [l \in Locos |-> 0]
  /\ sids = 0 /\ killed = {}
  /\ raced = {} /\ undefined = FALSE

-----------------------------------------------------------------------------
(* Sessions that several threads may use.                                  *)

Live(c) == phase[c] \in {"up", "down"}

\* tcpClient::running.
Running(c) == phase[c] = "up" /\ ending[c] = "no"

Usable(S) == S \cap freed = {}

\* What the threads of c may look at.
Used(c) == HeldBy(c) \cup {cur[c]}

\* The keep-alive visits the map, or the session of the next request.
Visited(c) == IF DOMAIN held[c] = {} THEN {cur[c]} ELSE HeldBy(c)

\* The sessions a CBUS reader is writing into the answer to its throttle.
Acknowledged == {cur[c] : c \in {d \in Conns : Live(d) /\ cbus[d] = "new"}}

Lost(S, race) == raced' = raced \cup S \X {race}
SharedOf(c, S) ==
  S \cap UNION {Used(d) : d \in {e \in Conns \ {c} : phase[e] = "up"}}

\* deleteEDSession for each session of S, which c gives up.
Delete(c, S) ==
  /\ reg' = reg \ S
  /\ freed' = freed \cup (S \cap reg)
  /\ undefined' = (S \cap Acknowledged # {})
  /\ Lost(SharedOf(c, S), "shared")

-----------------------------------------------------------------------------
(* A connection comes and goes.                                            *)

\* retrieveAllEDSession: the registered sessions of the address, and the map
\* the new client makes of them; a second session of a loco is not inserted.
Retrieved(c) == {u \in reg : obj[u].ip = IpOf[c]}
FirstOf(S, l) == CHOOSE u \in S :
  obj[u].loco = l /\ \A v \in S : obj[v].loco = l => u <= v
MapOf(S) == [l \in {obj[u].loco : u \in S} |-> FirstOf(S, l)]

\* createEDSession: cur[c] is created; the others are o.
Create(c, o) ==
  /\ uids < MaxUid
  /\ uids' = uids + 1
  /\ obj' = [u \in 1 .. uids + 1 |-> IF u <= uids THEN o[u] ELSE NewSession(c)]
  /\ cur' = [cur EXCEPT ![c] = uids + 1]

Adopted(c) == [u \in DOMAIN obj |->
  IF u \in Retrieved(c) THEN [obj[u] EXCEPT !.orphan = FALSE] ELSE obj[u]]

MayConnect(c) == phase[c] = "new" /\ RegistryFree

\* Mutant: the unset sessions of the address are kept.
ConnectKeepUnset(c) ==
  LET m == MapOf(Retrieved(c)) IN
  /\ MayConnect(c)
  /\ held' = [held EXCEPT ![c] = Without(m, {0})]
  /\ Create(c, Adopted(c)) /\ reg' = reg \cup {uids'}
  /\ phase' = [phase EXCEPT ![c] = "up"] /\ alive' = [alive EXCEPT ![c] = TRUE]
  /\ UNCHANGED <<freed, recv, target, cbus, inbox, ending, sweeper, station,
                 faults>>

\* The constructor of tcpClient: take over the sessions of the address,
\* delete the unset ones among them, create the session of the next request.
Connect(c) ==
  LET m == MapOf(Retrieved(c))
      unset == {l \in DOMAIN m : ~IsSet(m[l])}
      S == {m[l] : l \in unset}
  IN
  /\ MayConnect(c)
  /\ held' = [held EXCEPT ![c] = Without(m, unset)]
  /\ Create(c, Adopted(c))
  /\ reg' = (reg \ S) \cup {uids + 1}
  /\ freed' = freed \cup S
  /\ Lost(SharedOf(c, S), "shared")
  /\ phase' = [phase EXCEPT ![c] = "up"] /\ alive' = [alive EXCEPT ![c] = TRUE]
  /\ UNCHANGED <<recv, target, cbus, inbox, ending, sweeper, station, undefined>>

\* recv returns 0 or fails: every session of the throttle becomes an orphan.
Disconnect(c) ==
  /\ phase[c] = "up" /\ recv[c] = "idle" /\ Usable(HeldBy(c))
  /\ obj' = [u \in DOMAIN obj |->
       IF u \in HeldBy(c) THEN [obj[u] EXCEPT !.orphan = TRUE] ELSE obj[u]]
  /\ phase' = [phase EXCEPT ![c] = "down"]
  /\ raced' = raced \cup SharedOf(c, HeldBy(c)) \X {"shared"}
                    \cup (HeldBy(c) \cap Acknowledged) \X {"hurried"}
  /\ UNCHANGED <<registry, cur, held, recv, target, cbus, inbox, alive, ending,
                 sweeper, station, undefined>>

\* Two seconds later the other threads are cancelled and the client deleted.
Gone(c) ==
  /\ phase[c] = "down" /\ recv[c] = "idle" /\ ending[c] # "sleep"
  /\ cbus[c] \in {"idle", "exit"} /\ ~alive[c]
  /\ phase' = [phase EXCEPT ![c] = "gone"]
  /\ cur' = [cur EXCEPT ![c] = 0] /\ held' = [held EXCEPT ![c] = <<>>]
  /\ cbus' = [cbus EXCEPT ![c] = "exit"] /\ inbox' = [inbox EXCEPT ![c] = <<>>]
  /\ UNCHANGED <<registry, obj, recv, target, alive, ending, sweeper, station,
                 faults>>

-----------------------------------------------------------------------------
(* The receiver: the throttle asks for a locomotive, or gives some back.   *)
(* Once running is false it handles at most the buffer it waits for.       *)

\* The receiver has done with a buffer.
Handled(c) ==
  /\ recv' = [recv EXCEPT ![c] = "idle"]
  /\ target' = [target EXCEPT ![c] = {}]
  /\ phase' = [phase EXCEPT ![c] = IF ending[c] = "no" THEN @ ELSE "down"]

\* A buffer that touches no session, after stop().
Leave(c) ==
  /\ phase[c] = "up" /\ recv[c] = "idle" /\ ending[c] # "no"
  /\ Handled(c)
  /\ UNCHANGED <<registry, obj, cur, held, cbus, inbox, alive, ending, sweeper,
                 station, faults>>

\* handleCreateSession, for a loco the throttle does not hold yet.
Request(c, l) ==
  /\ phase[c] = "up" /\ recv[c] = "idle" /\ l \notin DOMAIN held[c]
  /\ Usable({cur[c]}) /\ Len(toCs) < MaxCommands
  /\ obj' = [obj EXCEPT ![cur[c]].loco = l]
  /\ Lost(IF cbus[c] = "idle" THEN {} ELSE {cur[c]}, "crossed")
  /\ toCs' = Append(toCs, Rloc(l))
  /\ recv' = [recv EXCEPT ![c] = "wait"]
  /\ UNCHANGED <<registry, phase, cur, held, target, cbus, inbox, alive, ending, sweeper,
                 engines, sids, killed, undefined>>

\* The receiver waits until the session is in the map, two seconds at most:
\* the answer may come later, or be for a request that is no longer the last.
WaitOver(c) ==
  /\ recv[c] = "wait"
  /\ Handled(c)
  /\ UNCHANGED <<registry, obj, cur, held, cbus, inbox, alive, ending, sweeper,
                 station, faults>>

SendKlocs(S) ==
  /\ toCs' = toCs \o SetToSeq({Kloc(s) : s \in S})
  /\ killed' = killed \cup S

\* handleReleaseSession, for one locomotive or for all: KLOC first ...
MayRelease(c, L) ==
  /\ phase[c] = "up" /\ recv[c] = "idle" /\ Len(toCs) < MaxCommands
  /\ Usable({held[c][l] : l \in L})

\* Mutant: the locomotives are not released on the bus.
ReleaseSilently(c, L, how) ==
  /\ MayRelease(c, L)
  /\ recv' = [recv EXCEPT ![c] = how]
  /\ target' = [target EXCEPT ![c] = L]
  /\ UNCHANGED <<registry, obj, phase, cur, held, cbus, inbox, alive, ending,
                 sweeper, station, faults>>

Release(c, L, how) ==
  /\ MayRelease(c, L)
  /\ SendKlocs({obj[held[c][l]].sid : l \in L} \ {0})
  /\ recv' = [recv EXCEPT ![c] = how]
  /\ target' = [target EXCEPT ![c] = L]
  /\ UNCHANGED <<registry, obj, phase, cur, held, cbus, inbox, alive, ending,
                 sweeper, engines, sids, faults>>

ReleaseOne(c, l) == Release(c, {l}, "release")
ReleaseAll(c) == Release(c, DOMAIN held[c], "clear")

\* What is deleted after the wait: all that the throttle then holds, if all
\* were to be released.
Doomed(c) == IF recv[c] = "clear" THEN DOMAIN held[c] ELSE target[c]

MayDelete(c) ==
  /\ recv[c] \in {"release", "clear"} /\ RegistryFree
  /\ Doomed(c) \subseteq DOMAIN held[c]
  /\ Usable({held[c][l] : l \in Doomed(c)})

\* Mutant: the session leaves the registry but not the throttle's map.
ReleasedStillHeld(c) ==
  /\ MayDelete(c)
  /\ Delete(c, {held[c][l] : l \in Doomed(c)})
  /\ Handled(c)
  /\ UNCHANGED <<uids, obj, cur, held, cbus, inbox, alive, ending, sweeper,
                 station>>

\* ... and after 200 or 500 ms the session is deleted.
Released(c) ==
  /\ MayDelete(c)
  /\ Delete(c, {held[c][l] : l \in Doomed(c)})
  /\ held' = [held EXCEPT ![c] = Without(@, Doomed(c))]
  /\ Handled(c)
  /\ UNCHANGED <<uids, obj, cur, cbus, inbox, alive, ending, sweeper, station>>

-----------------------------------------------------------------------------
(* The CBUS reader: handleCBUS for PLOC.                                   *)

\* Does the PLOC answer the last request of this throttle? Once running is
\* false the thread handles at most one more message.
Ploc(c) ==
  /\ Live(c) /\ cbus[c] = "idle" /\ inbox[c] # <<>> /\ Usable({cur[c]})
  /\ IF obj[cur[c]].loco = Head(inbox[c]).loco
     THEN cbus' = [cbus EXCEPT ![c] = "got"] /\ UNCHANGED inbox
     ELSE /\ inbox' = [inbox EXCEPT ![c] = Tail(@)]
          /\ cbus' = [cbus EXCEPT ![c] = IF Running(c) THEN "idle" ELSE "exit"]
  /\ UNCHANGED <<registry, obj, phase, cur, held, recv, target, alive, ending,
                 sweeper, station, faults>>

\* The session gets its number and enters the throttle's map.
PlocAccept(c) ==
  LET p == Head(inbox[c]) IN
  /\ cbus[c] = "got" /\ Usable({cur[c]})
  /\ obj' = [obj EXCEPT ![cur[c]].sid = p.sid]
  /\ held' = [held EXCEPT ![c] = Inserted(@, p.loco, cur[c])]
  /\ Lost(IF recv[c] = "clear" THEN {cur[c]} ELSE {}, "tardy")
  /\ inbox' = [inbox EXCEPT ![c] = Tail(@)]
  /\ cbus' = [cbus EXCEPT ![c] = "new"]
  /\ UNCHANGED <<registry, phase, cur, recv, target, alive, ending, sweeper,
                 station, undefined>>

\* Mutant: the session of the next request is left for later.
PlocNextLater(c) ==
  /\ cbus[c] = "new"
  /\ RegistryFree
  /\ cbus' = [cbus EXCEPT ![c] = IF Running(c) THEN "idle" ELSE "exit"]
  /\ UNCHANGED <<registry, obj, phase, cur, held, recv, target, inbox, alive,
                 ending, sweeper, station, faults>>

\* The throttle has been told: the session of the next request.
PlocNext(c) ==
  /\ cbus[c] = "new"
  /\ RegistryFree
  /\ Create(c, obj) /\ reg' = reg \cup {uids + 1}
  /\ cbus' = [cbus EXCEPT ![c] = IF Running(c) THEN "idle" ELSE "exit"]
  /\ UNCHANGED <<freed, phase, held, recv, target, inbox, alive, ending, sweeper,
                 station, faults>>

-----------------------------------------------------------------------------
(* The keep-alive: it tests running, and then visits the sessions. One     *)
(* visit may come when running has been cleared meanwhile.                 *)

\* The sessions S have had no keep-alive for nine seconds.
KeepAlive(c, S) ==
  /\ alive[c] /\ Usable(Visited(c))
  /\ obj' = [u \in DOMAIN obj |->
       IF u \in S THEN [obj[u] EXCEPT !.orphan = FALSE, !.late = FALSE] ELSE obj[u]]
  /\ alive' = [alive EXCEPT ![c] = Running(c)]
  /\ UNCHANGED <<registry, phase, cur, held, recv, target, cbus, inbox, ending,
                 sweeper, station, faults>>

KeepAliveEnds(c) ==
  /\ alive[c] /\ ~Running(c)
  /\ alive' = [alive EXCEPT ![c] = FALSE]
  /\ UNCHANGED <<registry, obj, phase, cur, held, recv, target, cbus, inbox,
                 ending, sweeper, station, faults>>

-----------------------------------------------------------------------------
(* The session thread: sendKeepAliveForOrphanSessions.                     *)

Position(u) == Cardinality({v \in reg : v <= u})
AtIterator == {u \in reg : Position(u) = sweep}

SweepStart ==
  /\ sweep = 0 /\ ~stopped
  /\ sweep' = 1
  /\ UNCHANGED <<registry, obj, clients, victim, strayed, stopped, station, faults>>

\* The loop ends at the end of the registry. If the registry has shrunk below
\* the iterator, it reads on.
SweepEnd ==
  /\ sweep > Cardinality(reg) /\ victim = 0
  /\ sweep' = 0
  /\ undefined' = (sweep # Cardinality(reg) + 1)
  /\ UNCHANGED <<registry, obj, clients, victim, strayed, stopped, station, raced>>

Overdue(u) == obj[u].orphan /\ obj[u].late

\* Mutant: the sweep gives up at the first session that is not overdue.
SweepStop(u) ==
  /\ u \in AtIterator /\ victim = 0 /\ ~Overdue(u)
  /\ sweep' = 0
  /\ UNCHANGED <<registry, obj, clients, victim, strayed, stopped, station, faults>>

SweepPass(u) ==
  /\ u \in AtIterator /\ victim = 0 /\ ~Overdue(u)
  /\ sweep' = sweep + 1
  /\ UNCHANGED <<registry, obj, clients, victim, strayed, stopped, station, faults>>

\* Stop the locomotive and release it; sending takes the queue's mutex and
\* visits every GridConnect program.
SweepKill(u) ==
  /\ u \in AtIterator /\ victim = 0 /\ Overdue(u)
  /\ victim' = u
  /\ toCs' = Append(toCs, Kloc(obj[u].sid))
  /\ killed' = killed \cup {obj[u].sid}
  /\ UNCHANGED <<registry, obj, clients, sweep, strayed, stopped, engines, sids,
                 faults>>

\* sessions.erase(it); it++: the iterator skips one session. If the erased
\* one was the last, it passes the end, and what the loop does has no defined
\* outcome.
SweepErase ==
  /\ victim # 0
  /\ reg' = reg \ AtIterator
  /\ victim' = 0
  /\ IF sweep < Cardinality(reg)
     THEN sweep' = sweep + 1 /\ UNCHANGED <<strayed, undefined>>
     ELSE sweep' = 0 /\ strayed' = victim /\ undefined' = TRUE
  /\ UNCHANGED <<uids, freed, obj, clients, stopped, station, raced>>

-----------------------------------------------------------------------------
(* The end of the program: main stops the session thread and then each     *)
(* client of the ED server, one after the other.                           *)

StopSweep ==
  /\ ~stopped /\ stopped' = TRUE
  /\ UNCHANGED <<registry, obj, clients, sweep, victim, strayed, station, faults>>

\* tcpClient::stop, whatever the threads of the client are doing: the session
\* of the next request is released and deleted, KLOC is sent for all others ...
StopClient(c) ==
  LET rest == Without(held[c], {obj[cur[c]].loco}) IN
  /\ stopped /\ Live(c) /\ ending[c] = "no"
  /\ \A d \in Conns : ending[d] # "sleep"
  /\ RegistryFree /\ Usable(Used(c))
  /\ Delete(c, {cur[c]})
  /\ SendKlocs({obj[u].sid : u \in {cur[c]} \cup {rest[l] : l \in DOMAIN rest}} \ {0})
  /\ held' = [held EXCEPT ![c] = rest]
  /\ ending' = [ending EXCEPT ![c] = "sleep"]
  /\ UNCHANGED <<uids, obj, phase, cur, recv, target, cbus, inbox, alive, sweeper,
                 engines, sids>>

\* ... which are deleted after 500 ms.
StopDelete(c) ==
  /\ ending[c] = "sleep" /\ RegistryFree /\ Usable(HeldBy(c))
  /\ Delete(c, HeldBy(c))
  /\ held' = [held EXCEPT ![c] = <<>>]
  /\ ending' = [ending EXCEPT ![c] = "done"]
  /\ UNCHANGED <<uids, obj, phase, cur, recv, target, cbus, inbox, alive, sweeper,
                 station>>

-----------------------------------------------------------------------------
(* Time and the command station.                                           *)

Kept(u) == \E c \in Conns : Running(c) /\ u \in Visited(c)

\* More than orphan_timeout since the last keep-alive. Once it is stopped the
\* session thread does not ask again.
Elapse(u) ==
  /\ u \in reg /\ ~obj[u].late /\ ~Kept(u) /\ ~stopped
  /\ \A c \in Conns : cbus[c] \in {"idle", "exit"} /\ (alive[c] => Running(c))
  /\ obj' = [obj EXCEPT ![u].late = TRUE]
  /\ UNCHANGED <<registry, clients, sweeper, station, faults>>

\* RLOC of a free locomotive: PLOC to every throttle; of a taken one: ERR,
\* which the throttles only log.
StationGrant ==
  /\ toCs # <<>> /\ Head(toCs).op = "RLOC" /\ engines[Head(toCs).loco] = 0
  /\ sids < MaxSid
  /\ sids' = sids + 1
  /\ engines' = [engines EXCEPT ![Head(toCs).loco] = sids + 1]
  /\ inbox' = [c \in Conns |->
       IF phase[c] \in {"up", "down"}
       THEN Append(inbox[c], [loco |-> Head(toCs).loco, sid |-> sids + 1])
       ELSE inbox[c]]
  /\ toCs' = Tail(toCs)
  /\ UNCHANGED <<registry, obj, phase, cur, held, recv, target, cbus, alive,
                 ending, sweeper, killed, faults>>

StationRefuse ==
  /\ toCs # <<>> /\ Head(toCs).op = "RLOC"
  /\ engines[Head(toCs).loco] # 0 \/ sids = MaxSid
  /\ toCs' = Tail(toCs)
  /\ UNCHANGED <<registry, obj, clients, sweeper, engines, sids, killed, faults>>

StationRelease ==
  /\ toCs # <<>> /\ Head(toCs).op = "KLOC"
  /\ engines' = [l \in Locos |->
       IF engines[l] = Head(toCs).sid THEN 0 ELSE engines[l]]
  /\ toCs' = Tail(toCs)
  /\ UNCHANGED <<registry, obj, clients, sweeper, sids, killed, faults>>

Receiver(c) ==
  \/ Disconnect(c) \/ Leave(c) \/ WaitOver(c) \/ Released(c)
  \/ \E l \in Wants[c] : Request(c, l)
  \/ \E l \in DOMAIN held[c] : ReleaseOne(c, l)
  \/ ReleaseAll(c)

CbusReader(c) == Ploc(c) \/ PlocAccept(c) \/ PlocNext(c)

KeepAliveThread(c) ==
  KeepAliveEnds(c) \/ \E S \in SUBSET Visited(c) : KeepAlive(c, S)

Sweep ==
  \/ SweepStart \/ SweepEnd \/ SweepErase
  \/ \E u \in reg : SweepPass(u) \/ SweepKill(u)

Main == StopSweep \/ \E c \in Conns : StopClient(c) \/ StopDelete(c)

Station == StationGrant \/ StationRefuse \/ StationRelease

Step ==
  \/ \E c \in Conns : \/ Connect(c) \/ Gone(c)
                      \/ Receiver(c) \/ CbusReader(c) \/ KeepAliveThread(c)
  \/ \E u \in DOMAIN obj : Elapse(u)
  \/ Sweep \/ Main \/ Station

Next == ~undefined /\ Step

Spec == Init /\ [][Next]_vars

\* The session thread runs and time passes; a closed connection is cleaned up.
\* A reader that waits for the end of a sweep finds the half second after it.
Fairness ==
  /\ WF_vars(~undefined /\ Sweep)
  /\ \A u \in Uid : WF_vars(~undefined /\ u \in DOMAIN obj /\ Elapse(u))
  /\ \A c \in Conns :
       /\ SF_vars(~undefined /\ CbusReader(c)) /\ WF_vars(~undefined /\ Gone(c))
       /\ WF_vars(~undefined /\ KeepAliveThread(c))

FairSpec == Spec /\ Fairness

-----------------------------------------------------------------------------
(* Properties.                                                             *)

(* What a connected throttle drives is its own: the session is registered  *)
(* under the locomotive the throttle knows it by, has a number of the      *)
(* command station, and is not an orphan the sweep could take away, and    *)
(* there is a session for its next request. The exceptions are those       *)
(* another connection of the address gave up while this one used them (it  *)
(* closed, released or stopped after this one had taken them over, or      *)
(* connected and deleted the unset one), and the locomotive of a session   *)
(* into which the receiver wrote a request while its PLOC was handled.     *)
HeldIsSound ==
  ~undefined => \A c \in Conns : phase[c] = "up" =>
    /\ Running(c) /\ cbus[c] # "new" /\ <<cur[c], "shared">> \notin raced
         => cur[c] \in reg
    /\ \A l \in DOMAIN held[c] :
         LET u == held[c][l] IN
         /\ IsSet(u)
         /\ <<u, "crossed">> \notin raced => obj[u].loco = l
         /\ <<u, "shared">> \notin raced => u \in reg /\ ~obj[u].orphan

(* A session that has a number leaves the registry only after KLOC was     *)
(* sent for it, however late its answer came and whichever connection,     *)
(* sweep or shutdown deletes it: no locomotive stays taken because its     *)
(* session is forgotten (sessionHandler.cpp:143-149, tcpClient.cpp:682-    *)
(* 717). The exception is the session that got its number during the 500   *)
(* ms of a release-all.                                                    *)
ForgottenIsReleased ==
  \A u \in DOMAIN obj :
    IsSet(u) /\ u \notin reg /\ <<u, "tardy">> \notin raced => obj[u].sid \in killed

(* The sweep's erase-and-increment hits the last session, where its        *)
(* iterator passes the end, in one case only: the connection was lost      *)
(* while the PLOC of that session was being handled. Behind every other    *)
(* orphan there is a session its connection or a later one has created.    *)
SweepInBounds == strayed # 0 => <<strayed, "hurried">> \in raced

(* An orphan does not stay until the program ends: the sweep takes it,     *)
(* however many sessions its iterator skips, or a new connection adopts it.*)
OrphanIsSwept ==
  \A u \in Uid :
    (u \in reg /\ obj[u].orphan)
      ~> (u \notin reg \/ ~obj[u].orphan \/ stopped \/ undefined)
=============================================================================
