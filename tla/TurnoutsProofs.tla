--------------------------- MODULE TurnoutsProofs ---------------------------
(***************************************************************************)
(* The server: what the map of clients, the one tempClient and the threads *)
(* keep in step, for any number of connections and every schedule, and     *)
(* which races it takes to break that.                                     *)
(*                                                                         *)
(* The ED server with its turnout table: every step of it is a step of     *)
(* TcpServer or leaves the server alone, so that all of this holds of it   *)
(* too; and the table is the layout's once every queue is empty (Quiet).   *)
(***************************************************************************)
EXTENDS Turnouts, TLAPS

-----------------------------------------------------------------------------
(* The server.                                                             *)

\* The clients created so far.
Created == {i \in Ids : i < counter \/ Inserting(i)}

CreatedInv ==
  /\ acceptor = "insert" => counter \in Ids
  /\ \A i \in Ids : i \notin Created =>
       thread[i] = "none" /\ object[i] = "none" /\ ~up[i]
  /\ \A i \in Created : thread[i] # "none" /\ object[i] \in {"live", "deleted"}
  /\ clients \subseteq Created /\ \A i \in clients : ~Inserting(i)

\* A thread that has not read tempClient finds its own client there, or has
\* been overtaken.
ThreadInv ==
  \A i \in Ids :
    /\ thread[i] \in {"none", "born"} => serves[i] = None
    /\ thread[i] = "born" =>
         temp \in Created /\ (temp = i \/ (temp > i /\ Raced(i, {"overtaken"})))
    /\ thread[i] \in {"recv", "closing", "done"} =>
         serves[i] \in Created
         /\ (serves[i] = i \/ (serves[i] > i /\ Raced(i, {"overtaken"})))

\* A client is deleted at the end of its own thread, or an overtaken thread
\* served it as well; it is in the map no more, or was not yet in it.
DeletedInv ==
  \A c \in Ids : object[c] = "deleted" =>
    /\ thread[c] = "done" \/ \E k \in Ids : Raced(k, {"overtaken"})
    /\ c \in clients \/ Inserting(c) => Raced(c, {"early"})

\* Until the shutdown has ended, whoever exists can be found.
MapInv ==
  phase # "down" =>
    \A c \in Created : object[c] = "live" => c \in clients \/ Inserting(c)

\* After it, none runs that was in the map and not started late.
KnownInv ==
  \A c \in Ids : up[c] /\ object[c] = "live" =>
    c \in clients \/ Inserting(c) \/ Raced(c, {"late"})

\* The walks stand at clients that are or were in the map; the shutdown has
\* stopped those behind it.
WalkInv ==
  /\ \A w \in {visit, halt} \ {None} :
       /\ w \in Created /\ ~Inserting(w)
       /\ Lost(w) => Raced(w, {"early", "underfoot"})
  /\ \A c \in clients : c <= halt /\ up[c] => Raced(c, {"late"})

ServerInv ==
  /\ ServerTypeOK /\ CreatedInv /\ ThreadInv /\ DeletedInv /\ MapInv /\ KnownInv /\ WalkInv
  /\ undefined => \E c \in Ids : Raced(c, {"overtaken", "early", "underfoot"})

LEMMA RacedIs ==
  \A c, a, b, d :
    /\ Raced(c, {a}) <=> <<c, a>> \in raced
    /\ Raced(c, {a, b}) <=> <<c, a>> \in raced \/ <<c, b>> \in raced
    /\ Raced(c, {a, b, d}) <=> <<c, a>> \in raced \/ <<c, b>> \in raced \/ <<c, d>> \in raced
  BY DEF Raced

LEMMA IdsAre == Ids \subseteq Nat /\ None = 0 /\ \A c \in Ids : c # None /\ c >= 1
  BY ServerAssumption DEF Ids, None

\* What has raced stays so.
LEMMA RacesStay ==
  ASSUME raced \subseteq raced'
  PROVE  \A c, kinds : Raced(c, kinds) => Raced(c, kinds)'
  BY DEF Raced

LEMMA InitServerInv == ServerInit => ServerInv
<1> SUFFICES ASSUME ServerInit PROVE ServerInv
  OBVIOUS
<1> USE DEF ServerInit
<1>1. ServerTypeOK
  <2>1. 1 \in 1..(MaxClients + 1)
    BY ServerAssumption
  <2> QED
    BY <2>1 DEF ServerTypeOK
<1>2. Created = {} /\ \A c : ~Inserting(c)
  <2>1. \A c \in Ids : ~(c < counter) /\ \A d : ~Inserting(d)
    BY IdsAre DEF Inserting
  <2>2. \A c : ~Inserting(c)
    BY DEF Inserting
  <2> QED
    BY <2>1, <2>2 DEF Created
<1>3. CreatedInv /\ ThreadInv /\ DeletedInv /\ MapInv /\ KnownInv
  BY <1>2 DEF CreatedInv, ThreadInv, DeletedInv, MapInv, KnownInv
<1>4. WalkInv
  BY DEF WalkInv
<1> QED
  BY <1>1, <1>3, <1>4 DEF ServerInv

\* A client is created: the threads that wait to read tempClient are overtaken.
LEMMA AcceptServerInv == ASSUME ServerInv, Accept PROVE ServerInv'
<1> USE DEF ServerInv
<1>1. /\ ~undefined /\ acceptor = "accept" /\ counter \in Ids
      /\ acceptor' = "insert" /\ temp' = counter
      /\ object' = [object EXCEPT ![counter] = "live"]
      /\ peer' = [peer EXCEPT ![counter] = TRUE]
      /\ thread' = [thread EXCEPT ![counter] = "born"]
      /\ raced' = raced \cup {i \in Ids : thread[i] = "born"} \X {"overtaken"}
      /\ UNCHANGED <<running, counter, clients, serves, up, visit, halt, phase, undefined>>
  <2>1. counter \in Ids
    BY ServerAssumption DEF Accept, MayAccept, ServerTypeOK, Ids
  <2> QED
    BY <2>1 DEF Accept, MayAccept, Overtakes, walks
<1>2. /\ raced \subseteq raced' /\ \A c, kinds : Raced(c, kinds) => Raced(c, kinds)'
      /\ \A i \in Ids : thread[i] = "born" => Raced(i, {"overtaken"})'
  <2>1. raced \subseteq raced'
    BY <1>1
  <2>2. \A i \in Ids : thread[i] = "born" => <<i, "overtaken">> \in raced'
    BY <1>1
  <2> QED
    BY <2>1, <2>2, RacesStay DEF Raced
<1>3. /\ counter \notin Created /\ Created' = Created \cup {counter}
      /\ \A c : Inserting(c)' <=> c = counter
      /\ \A c : ~Inserting(c)
      /\ \A c \in Created : c < counter
  BY <1>1, IdsAre DEF Created, Inserting
<1>4. /\ object'[counter] = "live" /\ thread'[counter] = "born"
      /\ \A c \in Ids : c # counter => object'[c] = object[c] /\ thread'[c] = thread[c]
  BY <1>1 DEF ServerTypeOK
<1>5. /\ thread[counter] = "none" /\ object[counter] = "none" /\ ~up[counter]
      /\ counter \notin clients
  BY <1>1, <1>3 DEF CreatedInv
<1>6. ServerTypeOK'
  BY <1>1 DEF ServerTypeOK, Races
<1>7. CreatedInv'
  BY <1>1, <1>3, <1>4, <1>5 DEF CreatedInv
<1>8. ThreadInv'
  <2>1. ASSUME NEW i \in Ids, thread'[i] = "born"
        PROVE  temp' \in Created' /\ (temp' = i \/ (temp' > i /\ Raced(i, {"overtaken"})'))
    <3>1. CASE i = counter
      BY <1>1, <1>3, <3>1
    <3>2. CASE i # counter
      <4>1. thread[i] = "born" /\ i \in Created
        BY <1>4, <2>1, <3>2 DEF CreatedInv
      <4> QED
        BY <1>1, <1>2, <1>3, <4>1, IdsAre
    <3> QED
      BY <3>1, <3>2
  <2>2. ASSUME NEW i \in Ids
        PROVE  /\ thread'[i] \in {"none", "born"} => serves'[i] = None
               /\ thread'[i] \in {"recv", "closing", "done"} =>
                    serves'[i] \in Created'
                    /\ (serves'[i] = i \/ (serves'[i] > i /\ Raced(i, {"overtaken"})'))
    <3>1. CASE i = counter
      BY <1>1, <1>4, <1>5, <3>1 DEF ThreadInv
    <3>2. CASE i # counter
      BY <1>1, <1>2, <1>3, <1>4, <3>2 DEF ThreadInv
    <3> QED
      BY <3>1, <3>2
  <2> QED
    BY <2>1, <2>2 DEF ThreadInv
<1>9. DeletedInv'
  <2>1. SUFFICES ASSUME NEW c \in Ids, object'[c] = "deleted"
                 PROVE  /\ thread'[c] = "done" \/ \E k \in Ids : Raced(k, {"overtaken"})'
                        /\ c \in clients' \/ Inserting(c)' => Raced(c, {"early"})'
    BY DEF DeletedInv
  <2>2. c # counter /\ object[c] = "deleted" /\ thread'[c] = thread[c]
    BY <1>4, <2>1
  <2> QED
    BY <1>1, <1>2, <1>3, <2>2 DEF DeletedInv
<1>10. MapInv'
  BY <1>1, <1>3, <1>4 DEF MapInv
<1>11. KnownInv'
  BY <1>1, <1>2, <1>3, <1>4 DEF KnownInv
<1>12. WalkInv'
  <2>1. \A w \in {visit, halt} \ {None} : w # counter /\ w \in Ids
    BY <1>3, <1>1 DEF WalkInv, Created
  <2>2. \A w \in {visit, halt} \ {None} : Lost(w)' <=> Lost(w)
    BY <1>1, <1>4, <2>1 DEF Lost
  <2> QED
    BY <1>1, <1>2, <1>3, <2>1, <2>2 DEF WalkInv
<1> QED
  BY <1>1, <1>6, <1>7, <1>8, <1>9, <1>10, <1>11, <1>12

LEMMA InsertServerInv == ASSUME ServerInv, Insert PROVE ServerInv'
<1> USE DEF ServerInv
<1>1. /\ acceptor = "insert" /\ counter \in Ids /\ counter \in Nat
      /\ clients' = clients \cup {counter} /\ counter' = counter + 1
      /\ acceptor' \in {"accept", "exit"}
      /\ UNCHANGED <<running, temp, serves, object, up, peer, visit, halt, phase, raced,
                     undefined>>
  BY IdsAre DEF Insert, CreatedInv, walks, faults
<1>2. \A c \in Ids : \/ thread'[c] = thread[c]
                     \/ thread[c] \in {"born", "recv", "closing"} /\ thread'[c] = "cancelled"
  BY DEF Insert, ServerTypeOK
<1>3. \A c, kinds : Raced(c, kinds)' <=> Raced(c, kinds)
  BY <1>1 DEF Raced
<1>4. /\ \A c : ~Inserting(c)' /\ Created' = Created
      /\ \A c : Inserting(c) <=> c = counter
  <2>1. /\ \A c : ~Inserting(c)'
        /\ \A c : Inserting(c) <=> c = counter
    BY <1>1 DEF Inserting
  <2>2. \A c \in Ids : c < counter' <=> c < counter \/ c = counter
    BY <1>1, IdsAre
  <2> QED
    BY <1>1, <2>1, <2>2 DEF Created
<1>5. ServerTypeOK'
  <2>1. counter' \in 1..(MaxClients + 1) /\ clients' \subseteq Ids
    BY <1>1, ServerAssumption DEF ServerTypeOK, Ids
  <2>2. thread' \in [Ids -> {"none", "born", "recv", "closing", "done", "cancelled"}]
    BY DEF Insert, ServerTypeOK
  <2> QED
    BY <1>1, <2>1, <2>2 DEF ServerTypeOK
<1>6. CreatedInv'
  <2>1. counter \in Created /\ counter \notin clients
    BY <1>1, <1>4 DEF Created, CreatedInv
  <2>2. \A i \in Created : i \in Ids
    BY DEF Created
  <2> QED
    BY <1>1, <1>2, <1>4, <2>1, <2>2 DEF CreatedInv
<1>7. ThreadInv'
  BY <1>1, <1>2, <1>3, <1>4 DEF ThreadInv
<1>8. DeletedInv'
  BY <1>1, <1>2, <1>3, <1>4 DEF DeletedInv
<1>9. MapInv'
  BY <1>1, <1>4 DEF MapInv
<1>10. KnownInv'
  BY <1>1, <1>3, <1>4 DEF KnownInv
<1>11. WalkInv'
  <2>1. \A w \in {visit, halt} \ {None} : w \in Nat /\ w < counter
    BY <1>1, <1>4, IdsAre DEF WalkInv, Created
  <2>2. \A w \in {visit, halt} \ {None} : Lost(w)' => Lost(w)
    BY <1>1 DEF Lost
  <2>3. ~(counter <= halt)
    <3>1. CASE halt = None
      BY <1>1, <3>1, IdsAre
    <3>2. CASE halt # None
      BY <1>1, <2>1, <3>2
    <3> QED
      BY <3>1, <3>2
  <2> QED
    BY <1>1, <1>3, <1>4, <2>2, <2>3 DEF WalkInv
<1> QED
  BY <1>1, <1>3, <1>5, <1>6, <1>7, <1>8, <1>9, <1>10, <1>11

\* A thread that starts finds a live client, and that is its own or a later one.
LEMMA StartServerInv ==
  ASSUME ServerInv, NEW i \in Ids, ThreadStart(i)
  PROVE  ServerInv'
<1> USE DEF ServerInv
<1>1. /\ thread[i] = "born" /\ object[temp] = "live" /\ temp \in Created /\ temp \in Ids
      /\ temp = i \/ (temp > i /\ Raced(i, {"overtaken"}))
      /\ serves' = [serves EXCEPT ![i] = temp]
      /\ up' = [up EXCEPT ![temp] = TRUE]
      /\ thread' = [thread EXCEPT ![i] = "recv"]
      /\ raced' = raced \cup {x \in {<<temp, "late">>} : Passed(temp)}
      /\ UNCHANGED <<server, object, peer, walks, undefined>>
  BY DEF ThreadStart, ThreadInv, Created
<1>2. UNCHANGED <<running, acceptor, counter, temp, clients, object, peer, visit, halt, phase,
                  undefined>>
  BY <1>1 DEF server, walks
<1>3. /\ \A c, kinds : Raced(c, kinds) => Raced(c, kinds)'
      /\ Passed(temp) => Raced(temp, {"late"})'
  <2>1. raced \subseteq raced' /\ (Passed(temp) => <<temp, "late">> \in raced')
    BY <1>1
  <2>2. Passed(temp) => Raced(temp, {"late"})'
    BY <1>2, <2>1 DEF Raced
  <2> QED
    BY <2>1, <2>2, RacesStay
<1>4. Created' = Created /\ \A c : Inserting(c)' <=> Inserting(c)
  BY <1>2 DEF Created, Inserting
<1>5. /\ \A c \in Ids : thread'[c] = IF c = i THEN "recv" ELSE thread[c]
      /\ \A c \in Ids : serves'[c] = IF c = i THEN temp ELSE serves[c]
      /\ \A c \in Ids : up'[c] <=> up[c] \/ c = temp
  BY <1>1 DEF ServerTypeOK
<1>6. ServerTypeOK'
  <2>1. raced' \subseteq Ids \X Races
    BY <1>1 DEF ServerTypeOK, Races
  <2> QED
    BY <1>1, <1>2, <2>1 DEF ServerTypeOK
<1>7. CreatedInv'
  BY <1>1, <1>2, <1>4, <1>5 DEF CreatedInv
<1>8. ThreadInv'
  BY <1>1, <1>2, <1>3, <1>4, <1>5 DEF ThreadInv
<1>9. DeletedInv'
  BY <1>1, <1>2, <1>3, <1>4, <1>5 DEF DeletedInv
<1>10. MapInv'
  BY <1>2, <1>4 DEF MapInv
<1>11. KnownInv'
  BY <1>1, <1>2, <1>3, <1>4, <1>5 DEF KnownInv, Passed
<1>12. WalkInv'
  <2>1. \A w : Lost(w)' <=> Lost(w)
    BY <1>2 DEF Lost
  <2>2. \A c \in clients : ~Inserting(c) /\ c \in Ids
    BY DEF CreatedInv, Created
  <2> QED
    BY <1>1, <1>2, <1>3, <1>4, <1>5, <2>1, <2>2 DEF WalkInv, Passed
<1> QED
  BY <1>2, <1>3, <1>6, <1>7, <1>8, <1>9, <1>10, <1>11, <1>12

\* The peer closes, recv returns, or what is undefined happens.
LEMMA EndServerInv ==
  ASSUME ServerInv, Undefine \/ \E i \in Ids : PeerCloses(i) \/ RecvEnds(i)
  PROVE  ServerInv'
<1> USE DEF ServerInv
<1>1. /\ UNCHANGED <<running, acceptor, counter, temp, clients, object, serves, visit, halt,
                     phase, raced>>
      /\ \A c \in Ids : \/ thread'[c] = thread[c]
                        \/ thread[c] = "recv" /\ thread'[c] = "closing"
      /\ \A c \in Ids : up'[c] => up[c]
      /\ undefined' # undefined => Undefine
  BY DEF Undefine, PeerCloses, RecvEnds, server, threads, walks, faults, ServerTypeOK
<1>2. /\ Created' = Created /\ \A c : Inserting(c)' <=> Inserting(c)
      /\ \A c, kinds : Raced(c, kinds)' <=> Raced(c, kinds)
      /\ \A w : Lost(w)' <=> Lost(w)
  BY <1>1 DEF Created, Inserting, Raced, Lost
<1>3. ServerTypeOK'
  BY DEF Undefine, PeerCloses, RecvEnds, server, threads, walks, faults, ServerTypeOK
<1>4. CreatedInv'
  BY <1>1, <1>2 DEF CreatedInv, Created
<1>5. ThreadInv'
  BY <1>1, <1>2 DEF ThreadInv
<1>6. DeletedInv'
  BY <1>1, <1>2 DEF DeletedInv
<1>7. MapInv' /\ KnownInv' /\ WalkInv'
  BY <1>1, <1>2 DEF MapInv, KnownInv, WalkInv, CreatedInv, Created
<1>8. ASSUME Undefine
      PROVE  \E c \in Ids : Raced(c, {"overtaken", "early", "underfoot"})
  <2>1. \A c, k : Raced(c, {k}) /\ k \in {"overtaken", "early", "underfoot"} =>
          Raced(c, {"overtaken", "early", "underfoot"})
    BY DEF Raced
  <2>2. \A c : Raced(c, {"early", "underfoot"}) => Raced(c, {"overtaken", "early", "underfoot"})
    BY DEF Raced
  <2>3. ASSUME NEW w \in {visit, halt}, Lost(w)
        PROVE  \E c \in Ids : Raced(c, {"overtaken", "early", "underfoot"})
    BY <2>2, <2>3 DEF Lost, WalkInv, Created
  <2>4. ASSUME NEW i \in Ids, StartsDeleted(i) \/ ServesDeleted(i)
        PROVE  \E c \in Ids : Raced(c, {"overtaken"})
    <3>1. CASE StartsDeleted(i)
      BY <3>1 DEF StartsDeleted, ThreadInv, DeletedInv, Created
    <3>2. CASE ServesDeleted(i)
      BY <3>2 DEF ServesDeleted, ThreadInv, DeletedInv, Created
    <3> QED
      BY <2>4, <3>1, <3>2
  <2>5. \/ \E w \in {visit, halt} : Lost(w)
        \/ \E i \in Ids : StartsDeleted(i) \/ ServesDeleted(i)
    BY <1>8 DEF Undefine
  <2> QED
    BY <2>1, <2>3, <2>4, <2>5
<1> QED
  BY <1>1, <1>2, <1>3, <1>4, <1>5, <1>6, <1>7, <1>8

LEMMA RemoveServerInv ==
  ASSUME ServerInv, NEW i \in Ids, RemoveClient(i)
  PROVE  ServerInv'
<1> USE DEF ServerInv
<1> DEFINE c == serves[i]
<1>1. /\ thread[i] = "closing" /\ c \in Created /\ c \in Ids /\ object[c] = "live" /\ ~undefined
      /\ c = i \/ (c > i /\ Raced(i, {"overtaken"}))
      /\ object' = [object EXCEPT ![c] = "deleted"]
      /\ thread' = [thread EXCEPT ![i] = "done"]
      /\ clients' = clients \ {c}
      /\ raced' = raced \cup {x \in {<<c, "early">>} : Inserting(c)}
                        \cup {x \in {<<c, "underfoot">>} : c \in {visit, halt}}
      /\ UNCHANGED <<running, acceptor, counter, temp, serves, up, peer, visit, halt, phase,
                     undefined>>
  BY DEF RemoveClient, Removal, ThreadInv, Created, walks
<1>2. /\ \A d, kinds : Raced(d, kinds) => Raced(d, kinds)'
      /\ Inserting(c) => Raced(c, {"early"})'
      /\ c \in {visit, halt} => Raced(c, {"early", "underfoot"})'
  <2>1. /\ raced \subseteq raced' /\ (Inserting(c) => <<c, "early">> \in raced')
        /\ (c \in {visit, halt} => <<c, "underfoot">> \in raced')
    BY <1>1
  <2>2. Inserting(c) => Raced(c, {"early"})'
    BY <1>1, <2>1 DEF Raced
  <2>3. c \in {visit, halt} => Raced(c, {"early", "underfoot"})'
    BY <1>1, <2>1 DEF Raced
  <2> QED
    BY <2>1, <2>2, <2>3, RacesStay
<1>3. Created' = Created /\ \A d : Inserting(d)' <=> Inserting(d)
  BY <1>1 DEF Created, Inserting
<1>4. /\ \A d \in Ids : object'[d] = IF d = c THEN "deleted" ELSE object[d]
      /\ \A d \in Ids : thread'[d] = IF d = i THEN "done" ELSE thread[d]
  BY <1>1 DEF ServerTypeOK
<1>5. ServerTypeOK'
  <2>1. raced' \subseteq Ids \X Races
    BY <1>1 DEF ServerTypeOK, Races
  <2> QED
    BY <1>1, <2>1 DEF ServerTypeOK
<1>6. CreatedInv'
  BY <1>1, <1>3, <1>4 DEF CreatedInv
<1>7. ThreadInv'
  BY <1>1, <1>2, <1>3, <1>4 DEF ThreadInv
<1>8. DeletedInv'
  BY <1>1, <1>2, <1>3, <1>4 DEF DeletedInv
<1>9. MapInv'
  BY <1>1, <1>3, <1>4 DEF MapInv, Created
<1>10. KnownInv'
  BY <1>1, <1>2, <1>3, <1>4 DEF KnownInv
<1>11. WalkInv'
  <2>1. \A w \in {visit, halt} \ {None} : Lost(w)' => Lost(w) \/ w = c
    BY <1>1, <1>4 DEF Lost, WalkInv, Created
  <2> QED
    BY <1>1, <1>2, <1>3, <2>1 DEF WalkInv
<1> QED
  BY <1>1, <1>2, <1>5, <1>6, <1>7, <1>8, <1>9, <1>10, <1>11

LEMMA FanServerInv ==
  ASSUME ServerInv, FanStart \/ FanVisit
  PROVE  ServerInv'
<1> USE DEF ServerInv
<1>1. /\ visit' \in clients \cup {None}
      /\ UNCHANGED <<server, threads, halt, phase, faults>>
  BY DEF FanStart, FanVisit
<1>2. UNCHANGED <<running, acceptor, counter, temp, clients, object, peer, halt, phase,
                  thread, serves, up, raced, undefined>>
  BY <1>1 DEF server, threads, faults
<1>3. /\ Created' = Created /\ \A c : Inserting(c)' <=> Inserting(c)
      /\ \A c, kinds : Raced(c, kinds)' <=> Raced(c, kinds)
      /\ \A w : Lost(w)' <=> Lost(w)
  BY <1>2 DEF Created, Inserting, Raced, Lost
<1>4. ServerTypeOK'
  BY <1>1, <1>2 DEF ServerTypeOK
<1>5. CreatedInv' /\ ThreadInv'
  BY <1>2, <1>3 DEF CreatedInv, ThreadInv
<1>6. DeletedInv' /\ MapInv' /\ KnownInv'
  BY <1>2, <1>3 DEF DeletedInv, MapInv, KnownInv
<1>7. WalkInv'
  <2>1. ASSUME NEW w \in clients
        PROVE  /\ w \in Created /\ ~Inserting(w)
               /\ Lost(w) => Raced(w, {"early", "underfoot"})
    <3>1. w \in Created /\ ~Inserting(w) /\ w \in Ids
      BY <2>1 DEF CreatedInv, Created
    <3>2. Lost(w) => Raced(w, {"early"})
      BY <2>1, <3>1 DEF Lost, DeletedInv
    <3> QED
      BY <3>1, <3>2 DEF Raced
  <2> QED
    BY <1>1, <1>2, <1>3, <2>1 DEF WalkInv
<1> QED
  BY <1>2, <1>3, <1>4, <1>5, <1>6, <1>7

\* The shutdown stops the client after the one it stands at, or, after the last
\* one, clears the map under a fan-out.
LEMMA StopServerInv == ASSUME ServerInv, Stop PROVE ServerInv'
<1> USE DEF ServerInv
<1>1. PICK n \in clients \cup {None} :
        /\ Follows(n, halt) /\ halt' = n
        /\ IF n # None
             THEN /\ phase' = "stopping"
                  /\ up' = [up EXCEPT ![n] = FALSE]
                  /\ UNCHANGED <<running, clients, raced>>
             ELSE /\ phase' = "down" /\ running' = FALSE /\ clients' = {}
                  /\ raced' = raced \cup ({visit} \ {None}) \X {"underfoot"}
                  /\ UNCHANGED up
  BY DEF Stop
<1>2. UNCHANGED <<acceptor, counter, temp, thread, serves, object, peer, visit, undefined>>
  BY DEF Stop
<1>3. /\ Created' = Created /\ \A c : Inserting(c)' <=> Inserting(c)
      /\ \A c, kinds : Raced(c, kinds) => Raced(c, kinds)'
  <2>1. raced \subseteq raced'
    BY <1>1
  <2> QED
    BY <1>2, <2>1, RacesStay DEF Created, Inserting
<1>4. \A c \in clients : c \in Created /\ c \in Ids /\ c # None
  BY IdsAre DEF CreatedInv, Created
<1>5. phase # "down"
  BY DEF Stop
<1>6. CASE n # None
  <2>1. /\ n \in clients /\ n \in Ids /\ phase' = "stopping"
        /\ UNCHANGED <<running, clients, raced>>
        /\ \A c \in Ids : up'[c] <=> up[c] /\ c # n
        /\ up' \in [Ids -> BOOLEAN]
    BY <1>1, <1>4, <1>6 DEF ServerTypeOK
  <2>2. ServerTypeOK'
    BY <1>1, <1>2, <2>1 DEF ServerTypeOK
  <2>3. CreatedInv' /\ ThreadInv' /\ DeletedInv' /\ MapInv' /\ KnownInv'
    <3>1. CreatedInv' /\ ThreadInv'
      BY <1>2, <1>3, <2>1 DEF CreatedInv, ThreadInv
    <3> QED
      BY <1>2, <1>3, <1>5, <2>1, <3>1 DEF DeletedInv, MapInv, KnownInv
  <2>4. \A c \in clients : c <= n /\ c # n => c <= halt
    <3>1. \A c \in clients : c > halt => n <= c
      BY <1>1, <1>6 DEF Follows
    <3>2. halt \in Nat
      BY IdsAre DEF ServerTypeOK
    <3> QED
      BY <1>4, <2>1, <3>1, <3>2, IdsAre
  <2>5. WalkInv'
    <3>1. n \in Created /\ ~Inserting(n)
      BY <2>1 DEF CreatedInv
    <3>2. Lost(n)' => Raced(n, {"early"})
      BY <1>2, <2>1 DEF Lost, DeletedInv
    <3>3. \A w : Lost(w)' <=> Lost(w)
      BY <1>2, <2>1 DEF Lost
    <3>4. Lost(n)' => Raced(n, {"early", "underfoot"})'
      BY <1>3, <3>2 DEF Raced
    <3> QED
      BY <1>1, <1>2, <1>3, <1>4, <2>1, <2>4, <3>1, <3>3, <3>4 DEF WalkInv
  <2> QED
    BY <1>2, <1>3, <2>2, <2>3, <2>5
<1>7. CASE n = None
  <2>1. /\ phase' = "down" /\ running' = FALSE /\ clients' = {} /\ halt' = None
        /\ raced' = raced \cup ({visit} \ {None}) \X {"underfoot"}
        /\ up' = up /\ \A c \in clients : c <= halt
    BY <1>1, <1>7 DEF Follows, None
  <2>2. ServerTypeOK'
    <3>1. raced' \subseteq Ids \X Races
      BY <2>1 DEF ServerTypeOK, Races
    <3> QED
      BY <1>2, <2>1, <3>1 DEF ServerTypeOK
  <2>3. CreatedInv' /\ ThreadInv'
    BY <1>2, <1>3, <2>1 DEF CreatedInv, ThreadInv
  <2>4. DeletedInv' /\ MapInv'
    BY <1>2, <1>3, <2>1 DEF DeletedInv, MapInv
  <2>5. KnownInv'
    BY <1>2, <1>3, <1>4, <2>1 DEF KnownInv, WalkInv
  <2>6. WalkInv'
    <3>1. visit # None => <<visit, "underfoot">> \in raced'
      BY <2>1
    <3>2. visit # None => Raced(visit, {"early", "underfoot"})'
      BY <1>2, <3>1 DEF Raced
    <3> QED
      BY <1>2, <1>3, <2>1, <3>2 DEF WalkInv
  <2> QED
    BY <1>2, <1>3, <2>2, <2>3, <2>4, <2>5, <2>6
<1> QED
  BY <1>6, <1>7

LEMMA StepServerInv == ServerInv /\ [ServerNext]_serverVars => ServerInv'
<1> SUFFICES ASSUME ServerInv, [ServerNext]_serverVars PROVE ServerInv'
  OBVIOUS
<1>1. CASE UNCHANGED serverVars
  <2>1. UNCHANGED <<running, acceptor, counter, temp, clients, thread, serves, object, up, peer,
                    visit, halt, phase, raced, undefined>>
    BY <1>1 DEF serverVars, server, threads, walks, faults
  <2>2. /\ Created' = Created /\ \A c : Inserting(c)' <=> Inserting(c)
        /\ \A c, kinds : Raced(c, kinds)' <=> Raced(c, kinds)
        /\ \A w : Lost(w)' <=> Lost(w)
    BY <2>1 DEF Created, Inserting, Raced, Lost
  <2>3. ServerTypeOK' /\ CreatedInv' /\ ThreadInv'
    BY <2>1, <2>2 DEF ServerInv, ServerTypeOK, CreatedInv, ThreadInv
  <2>4. DeletedInv' /\ MapInv' /\ KnownInv' /\ WalkInv'
    BY <2>1, <2>2 DEF ServerInv, DeletedInv, MapInv, KnownInv, WalkInv
  <2> QED
    BY <2>1, <2>2, <2>3, <2>4 DEF ServerInv
<1>2. CASE Accept
  BY <1>2, AcceptServerInv
<1>3. CASE Insert
  BY <1>3, InsertServerInv
<1>4. CASE FanStart \/ FanVisit
  BY <1>4, FanServerInv
<1>5. CASE Stop
  BY <1>5, StopServerInv
<1>6. CASE \E i \in Ids : ThreadStart(i)
  BY <1>6, StartServerInv
<1>7. CASE Undefine \/ \E i \in Ids : PeerCloses(i) \/ RecvEnds(i)
  BY <1>7, EndServerInv
<1>8. CASE \E i \in Ids : RemoveClient(i)
  BY <1>8, RemoveServerInv
<1> QED
  BY <1>1, <1>2, <1>3, <1>4, <1>5, <1>6, <1>7, <1>8 DEF ServerNext

LEMMA AlwaysServerInv == ServerSpec => []ServerInv
  BY InitServerInv, StepServerInv, PTL DEF ServerSpec

LEMMA ServerInvShows == ServerInv => OwnClient /\ NoneDangling /\ RunningIsKnown
<1> SUFFICES ASSUME ServerInv PROVE OwnClient /\ NoneDangling /\ RunningIsKnown
  OBVIOUS
<1>1. OwnClient
  BY DEF ServerInv, OwnClient, ThreadInv
<1>2. NoneDangling
  <2>1. ASSUME NEW c \in clients
        PROVE  object[c] = "live" \/ Raced(c, {"early"})
    <3>1. c \in Created /\ c \in Ids
      BY DEF ServerInv, CreatedInv, Created
    <3> QED
      BY <3>1 DEF ServerInv, CreatedInv, DeletedInv
  <2> QED
    BY <2>1 DEF ServerInv, NoneDangling, WalkInv
<1>3. RunningIsKnown
  BY DEF ServerInv, RunningIsKnown, KnownInv
<1> QED
  BY <1>1, <1>2, <1>3

\* The state of a server: flags, clients, threads and walks.
THEOREM ServerTyped == ServerSpec => []ServerTypeOK
  BY AlwaysServerInv, PTL DEF ServerInv

\* The thread of a client serves it (run_client, tcpServer.cpp:170), or was
\* overtaken by later connections (105-155) and serves one of those.
THEOREM ThreadsFindTheirClient == ServerSpec => []OwnClient
  BY AlwaysServerInv, ServerInvShows, PTL

\* The map and the walks of tcpServer lead to live clients, and undefined
\* behaviour is reached, by three races only.
THEOREM MapLeadsToLiveClients == ServerSpec => []NoneDangling
  BY AlwaysServerInv, ServerInvShows, PTL

\* No client runs that is not in the map (removeClients, removeClient), but one
\* that is being inserted and one that started behind the shutdown.
THEOREM RunningClientsAreKnown == ServerSpec => []RunningIsKnown
  BY AlwaysServerInv, ServerInvShows, PTL

-----------------------------------------------------------------------------
(* The ED server.                                                          *)

\* The event that is being passed on is still to come to client c.
ToCome(c, t) == visit # None /\ event.tcode = t /\ c >= visit

\* The last event of its turnout in a client's queue.
LastOfIts(q, n) == \A m \in DOMAIN q : m > n => q[m].tcode # q[n].tcode

Reads(c) == up[c] /\ object[c] = "live"
Runs(c) == object[c] = "live" /\ (up[c] \/ WillRun(c))

\* A client that reads, or will, has the newest event of a turnout last in its
\* queue, unless that one is still to come.
NewestLast ==
  \A c \in Ids : Runs(c) =>
    \A n \in DOMAIN queue[c] : LastOfIts(queue[c], n) =>
      \/ queue[c][n].state = layout[queue[c][n].tcode]
      \/ ToCome(c, queue[c][n].tcode)

\* The table is behind the layout only while some client that reads has an
\* event of the turnout before it.
Behind(t) ==
  \/ \E c \in Ids : Reads(c) /\ \E n \in DOMAIN queue[c] : queue[c][n].tcode = t
  \/ \E c \in clients : Reads(c) /\ ToCome(c, t)

TableInv ==
  /\ \A t \in DOMAIN table :
       witness[t] # {} /\ table[t] # layout[t] => Behind(t)
  /\ \A t \in Tcodes : witness[t] \subseteq Reading

\* Each event comes to each client once.
OnceEach ==
  \A c \in Ids :
    /\ visit # None /\ c >= visit => Len(queue[c]) < events
    /\ c >= counter => queue[c] = <<>>

Carried == visit # None => event \in Events /\ event.state = layout[event.tcode]

TurnoutInv ==
  /\ ServerInv /\ TypeOK /\ OnceEach /\ Carried
  /\ phase # "down" => NewestLast /\ TableInv

LEMMA StepIsServerStep == [Next]_vars => [ServerNext]_serverVars
<1>1. CASE EdAccept
  BY <1>1 DEF EdAccept, ServerNext
<1>2. CASE EdStop
  BY <1>2 DEF EdStop, ServerNext
<1>3. CASE Serve
  BY <1>3 DEF Serve, ServerNext
<1>4. CASE EdVisit
  BY <1>4 DEF EdVisit, ServerNext
<1>5. ASSUME NEW i \in Ids, EdRecvEnds(i) \/ EdRemove(i) \/ HandleEvent(i)
      PROVE  [ServerNext]_serverVars
  BY <1>5 DEF EdRecvEnds, EdRemove, HandleEvent, ServerNext
<1>6. ASSUME NEW e \in Events, BusEvent(e)
      PROVE  [ServerNext]_serverVars
  BY <1>6 DEF BusEvent, ServerNext
<1>7. ASSUME NEW c \in Ids, NEW t \in Tcodes,
             Toggle(c, t) \/ \E s \in States : Command(c, t, s)
      PROVE  [ServerNext]_serverVars
  BY <1>7 DEF Toggle, Command
<1>8. CASE UNCHANGED vars
  BY <1>8 DEF vars
<1> QED
  BY <1>1, <1>2, <1>3, <1>4, <1>5, <1>6, <1>7, <1>8 DEF Next

\* The ED server implements the server: accept, client threads, fan-outs and
\* shutdown go on as if there were no turnouts.
THEOREM ImplementsServer == Spec => ServerSpec
<1>1. Init => ServerInit
  BY DEF Init
<1> QED
  BY <1>1, StepIsServerStep, PTL DEF Spec, ServerSpec

\* The ED server with its turnouts serves, finds and knows its clients as any
\* server does (ClientEd through tcpServer.cpp).
THEOREM EdServerIsSafe == Spec => [](OwnClient /\ NoneDangling /\ RunningIsKnown)
  BY ImplementsServer, AlwaysServerInv, ServerInvShows, PTL

-----------------------------------------------------------------------------
(* The table of turnouts.                                                  *)

\* The next client a fan-out comes to is the next one in the map.
LEMMA FanStarts ==
  ASSUME ServerInv, FanStart
  PROVE  /\ visit = None /\ UNCHANGED <<clients, up, object, thread, temp, counter, phase>>
         /\ visit' # None => visit' \in Ids
         /\ \A c \in clients : visit' # None /\ visit' <= c
<1>1. clients \subseteq Ids /\ Ids \subseteq Nat /\ \A c \in Ids : c # 0
  BY ServerAssumption DEF ServerInv, ServerTypeOK, Ids
<1>2. PICK n \in clients \cup {None} : Follows(n, None) /\ visit' = n
  BY DEF FanStart
<1>3. visit = None /\ UNCHANGED <<clients, up, object, thread, temp, counter, phase>>
  BY DEF FanStart, server, threads
<1>4. \A c \in clients : n # None /\ n <= c
  BY <1>1, <1>2 DEF Follows, None
<1> QED
  BY <1>1, <1>2, <1>3, <1>4

LEMMA FanVisits ==
  ASSUME ServerInv, FanVisit
  PROVE  /\ visit \in clients /\ visit # None
         /\ UNCHANGED <<clients, up, object, thread, temp, counter, phase>>
         /\ visit' # None => visit' \in clients /\ visit' > visit
         /\ \A c \in clients : c > visit => visit' # None /\ visit' <= c
<1>1. clients \subseteq Ids /\ Ids \subseteq Nat /\ \A c \in Ids : c # 0
  BY ServerAssumption DEF ServerInv, ServerTypeOK, Ids
<1>2. PICK n \in clients \cup {None} : Follows(n, visit) /\ visit' = n
  BY DEF FanVisit
<1>3. visit # None /\ visit \in clients
      /\ UNCHANGED <<clients, up, object, thread, temp, counter, phase>>
  BY DEF FanVisit, server, threads, Lost
<1>4. \A c \in clients : c > visit => n # None /\ n <= c
  BY <1>1, <1>2, <1>3 DEF Follows, None
<1>5. n # None => n \in clients /\ n > visit
  BY <1>2 DEF Follows
<1> QED
  BY <1>2, <1>3, <1>4, <1>5

\* Who reads or will read is in the map or about to enter it.
LEMMA ReadersKnown ==
  ASSUME ServerInv, phase # "down", NEW c \in Ids, Runs(c)
  PROVE  c \in clients \/ (c = counter /\ acceptor = "insert")
<1>1. c \in Created
  BY DEF ServerInv, CreatedInv, ThreadInv, Runs, WillRun
<1> QED
  BY <1>1 DEF ServerInv, MapInv, Inserting, Runs

LEMMA InMapBefore ==
  ASSUME ServerInv
  PROVE  /\ counter \in Nat /\ Ids \subseteq Nat
         /\ \A c \in clients : c \in Ids /\ c < counter
<1>1. counter \in Nat /\ Ids \subseteq Nat /\ clients \subseteq Ids
  BY ServerAssumption DEF ServerInv, ServerTypeOK, Ids
<1>2. \A c \in clients : c \in Created /\ ~Inserting(c)
  BY <1>1 DEF ServerInv, CreatedInv
<1> QED
  BY <1>1, <1>2 DEF Created

LEMMA SetTyped ==
  ASSUME NEW tab \in Tables, NEW t \in Tcodes, NEW s \in States
  PROVE  /\ Set(tab, t, s) \in Tables
         /\ DOMAIN Set(tab, t, s) = DOMAIN tab
         /\ \A u \in DOMAIN tab : Set(tab, t, s)[u] = IF u = t THEN s ELSE tab[u]
<1>1. PICK T \in SUBSET Tcodes : tab \in [T -> States \cup {"unknown"}]
  BY DEF Tables
<1>2. Set(tab, t, s) \in [T -> States \cup {"unknown"}]
  BY <1>1 DEF Set
<1>3. \A u \in T : Set(tab, t, s)[u] = IF u = t THEN s ELSE tab[u]
  BY <1>1 DEF Set
<1> QED
  BY <1>1, <1>2, <1>3 DEF Tables

LEMMA AddedTyped ==
  ASSUME table \in Tables, NEW t \in Tcodes
  PROVE  /\ Added(t) \in Tables /\ DOMAIN Added(t) = DOMAIN table \cup {t}
         /\ \A u \in DOMAIN table : Added(t)[u] = table[u]
<1>1. PICK T \in SUBSET Tcodes : table \in [T -> States \cup {"unknown"}]
  BY DEF Tables
<1>2. Added(t) \in [T \cup {t} -> States \cup {"unknown"}]
  BY <1>1 DEF Added
<1>3. \A u \in T : Added(t)[u] = table[u]
  BY <1>1 DEF Added
<1> QED
  BY <1>1, <1>2, <1>3 DEF Tables

LEMMA LoadedTyped == Loaded \in Tables /\ Empty \in Tables
<1>1. Loaded \in [FileCodes -> States \cup {"unknown"}] /\ FileCodes \in SUBSET Tcodes
  BY TurnoutAssumption DEF Loaded
<1>2. Empty \in [{} -> States \cup {"unknown"}]
  BY DEF Empty
<1> QED
  BY <1>1, <1>2 DEF Tables

LEMMA CommandIs ==
  ASSUME NEW c \in Ids, NEW t \in Tcodes,
         Toggle(c, t) \/ \E s \in States : Command(c, t, s)
  PROVE  \E s \in States : Command(c, t, s)
  BY DEF Toggle, States

LEMMA ForsakenTyped ==
  ASSUME TypeOK, NEW c
  PROVE  Forsaken(c) \in [Tcodes -> SUBSET Ids]
  BY DEF TypeOK, Forsaken

LEMMA InitTyped == Init => TypeOK /\ OnceEach
<1> SUFFICES ASSUME Init PROVE TypeOK /\ OnceEach
  OBVIOUS
<1>1. ServerTypeOK
  BY InitServerInv DEF Init, ServerInv
<1>2. table \in Tables
  BY LoadedTyped DEF Init
<1>3. queue \in [Ids -> Seq(Events)] /\ \A c \in Ids : Len(queue[c]) <= events
  BY DEF Init
<1>4. /\ event \in Events \cup {NoEvent} /\ events \in 0..MaxEvents
      /\ witness \in [Tcodes -> SUBSET Ids] /\ layout \in [Tcodes -> States]
      /\ hasFile \in BOOLEAN
  BY TurnoutAssumption DEF Init
<1>5. OnceEach
  BY DEF Init, ServerInit, OnceEach
<1> QED
  BY <1>1, <1>2, <1>3, <1>4, <1>5 DEF TypeOK

LEMMA StepTyped ==
  ASSUME ServerInv, ServerInv', TypeOK, OnceEach, Carried, [Next]_vars
  PROVE  TypeOK' /\ OnceEach'
<1>0. ServerTypeOK'
  BY DEF ServerInv
<1>1. CASE EdAccept
  <2>1. table' \in Tables
    BY <1>1, LoadedTyped DEF TypeOK, EdAccept, Reloaded
  <2>2. TypeOK'
    BY <1>0, <1>1, <2>1 DEF TypeOK, EdAccept
  <2>3. OnceEach'
    BY <1>1 DEF OnceEach, EdAccept, Accept, walks
  <2> QED
    BY <2>2, <2>3
<1>2. CASE EdStop
  <2>1. TypeOK'
    BY <1>0, <1>2, ForsakenTyped DEF TypeOK, EdStop
  <2>2. OnceEach'
    BY <1>2 DEF OnceEach, EdStop, Stop
  <2> QED
    BY <2>1, <2>2
<1>3. CASE Serve
  <2>1. TypeOK'
    BY <1>0, <1>3 DEF TypeOK, Serve, tableVars
  <2>2. UNCHANGED visit /\ counter' >= counter
    BY <1>3, InMapBefore
    DEF Serve, Insert, ThreadStart, PeerCloses, Undefine, server, threads, walks
  <2>3. \A c \in Ids : c >= counter' => c >= counter
    <3>1. counter' \in Nat /\ counter \in Nat /\ Ids \subseteq Nat
      BY <1>0, ServerAssumption DEF ServerInv, ServerTypeOK, Ids
    <3> QED
      BY <2>2, <3>1
  <2>4. OnceEach'
    BY <1>3, <2>2, <2>3 DEF OnceEach, Serve, tableVars
  <2> QED
    BY <2>1, <2>4
<1>4. CASE EdVisit
  <2>1. /\ event \in Events /\ visit \in clients /\ visit \in Ids /\ UNCHANGED tableVars
        /\ queue' = [queue EXCEPT ![visit] = Append(queue[visit], event)]
        /\ event' = IF visit' = None THEN NoEvent ELSE event
        /\ UNCHANGED <<counter, clients>>
    BY <1>4, FanVisits, InMapBefore DEF EdVisit, Carried
  <2>2. /\ queue' \in [Ids -> Seq(Events)] /\ event' \in Events \cup {NoEvent}
        /\ Len(queue'[visit]) = Len(queue[visit]) + 1
        /\ \A c \in Ids : c # visit => queue'[c] = queue[c]
    BY <2>1 DEF TypeOK
  <2>3. /\ events \in Nat /\ \A c \in Ids : Len(queue[c]) \in Nat
        /\ visit \in Nat /\ counter \in Nat /\ Ids \subseteq Nat /\ visit < counter
    BY <2>1, InMapBefore, TurnoutAssumption DEF TypeOK
  <2>4. Len(queue[visit]) < events
    BY <2>1, <2>3, FanVisits, <1>4 DEF OnceEach, EdVisit
  <2>5. \A c \in Ids : Len(queue'[c]) <= events
    BY <2>1, <2>2, <2>3, <2>4 DEF TypeOK
  <2>6. TypeOK'
    BY <1>0, <2>1, <2>2, <2>5 DEF TypeOK, tableVars
  <2>7. ASSUME NEW c \in Ids, visit' # None, c >= visit'
        PROVE  Len(queue'[c]) < events
    <3>1. visit' > visit /\ visit' \in Nat /\ visit # None
      BY <1>4, <2>1, <2>3, <2>7, FanVisits, InMapBefore DEF EdVisit
    <3>2. c # visit /\ c >= visit
      BY <2>3, <2>7, <3>1
    <3> QED
      BY <2>2, <3>1, <3>2 DEF OnceEach
  <2>8. \A c \in Ids : c >= counter => c # visit
    BY <2>3
  <2>9. OnceEach'
    BY <2>1, <2>2, <2>7, <2>8 DEF OnceEach, tableVars
  <2> QED
    BY <2>6, <2>9
<1>5. ASSUME NEW i \in Ids, EdRecvEnds(i) \/ EdRemove(i)
      PROVE  TypeOK' /\ OnceEach'
  <2>1. TypeOK'
    BY <1>0, <1>5, ForsakenTyped DEF TypeOK, EdRecvEnds, EdRemove
  <2>2. OnceEach'
    BY <1>5 DEF OnceEach, EdRecvEnds, RecvEnds, EdRemove, RemoveClient, Removal, server, walks
  <2> QED
    BY <2>1, <2>2
<1>6. ASSUME NEW i \in Ids, HandleEvent(i)
      PROVE  TypeOK' /\ OnceEach'
  <2>1. queue[i] \in Seq(Events) /\ queue[i] # <<>>
    BY <1>6 DEF HandleEvent, TypeOK
  <2>2. /\ Head(queue[i]) \in Events /\ Tail(queue[i]) \in Seq(Events)
        /\ Len(Tail(queue[i])) < Len(queue[i]) /\ Len(queue[i]) \in Nat
        /\ Len(Tail(queue[i])) \in Nat
    BY <2>1
  <2>3. table' \in Tables
    BY <1>6, <2>2, SetTyped DEF HandleEvent, TypeOK, Events
  <2>4. /\ queue' = [queue EXCEPT ![i] = Tail(queue[i])]
        /\ UNCHANGED <<hasFile, layout, event, witness, events>>
        /\ UNCHANGED <<visit, counter>>
    BY <1>6 DEF HandleEvent, serverVars, server, walks
  <2>5. /\ queue' \in [Ids -> Seq(Events)] /\ queue'[i] = Tail(queue[i])
        /\ \A c \in Ids : c # i => queue'[c] = queue[c]
    BY <2>2, <2>4 DEF TypeOK
  <2>6. events \in Nat
    BY TurnoutAssumption DEF TypeOK
  <2>7. \A c \in Ids : Len(queue'[c]) <= events
    BY <2>2, <2>5, <2>6 DEF TypeOK
  <2>8. TypeOK'
    BY <1>0, <2>3, <2>4, <2>5, <2>7 DEF TypeOK
  <2>9. OnceEach'
    BY <2>1, <2>2, <2>4, <2>5, <2>6 DEF OnceEach
  <2> QED
    BY <2>8, <2>9
<1>7. ASSUME NEW e \in Events, BusEvent(e)
      PROVE  TypeOK' /\ OnceEach'
  <2>1. events \in Nat /\ MaxEvents \in Nat /\ events' = events + 1 /\ events' <= MaxEvents
    BY <1>7, TurnoutAssumption DEF TypeOK, BusEvent
  <2>2. /\ event' \in Events \cup {NoEvent}
        /\ witness' \in [Tcodes -> SUBSET Ids] /\ layout' \in [Tcodes -> States]
        /\ UNCHANGED <<hasFile, table, queue>>
    BY <1>7, InMapBefore DEF TypeOK, BusEvent, Events, Reading
  <2>3. \A c \in Ids : Len(queue[c]) \in Nat /\ Len(queue[c]) <= events
    BY DEF TypeOK
  <2>4. \A c \in Ids : Len(queue'[c]) < events'
    BY <2>1, <2>2, <2>3
  <2>5. TypeOK'
    BY <1>0, <2>1, <2>2, <2>3 DEF TypeOK
  <2>6. OnceEach'
    BY <1>7, <2>2, <2>4, FanStarts DEF OnceEach, BusEvent
  <2> QED
    BY <2>5, <2>6
<1>8. ASSUME NEW c \in Ids, NEW t \in Tcodes, NEW s \in States, Command(c, t, s)
      PROVE  TypeOK' /\ OnceEach'
  <2>1. events \in Nat /\ MaxEvents \in Nat /\ events' = events + 1 /\ events' <= MaxEvents
    BY <1>8, TurnoutAssumption DEF TypeOK, Command
  <2>2. table' \in Tables
    BY <1>8, AddedTyped, SetTyped DEF TypeOK, Command
  <2>3. /\ witness' \in [Tcodes -> SUBSET Ids] /\ layout' \in [Tcodes -> States]
        /\ UNCHANGED <<hasFile, queue, event>> /\ UNCHANGED <<visit, counter>>
    BY <1>8, InMapBefore DEF TypeOK, Command, Reading, serverVars, server, walks
  <2>4. \A d \in Ids : Len(queue[d]) \in Nat /\ Len(queue[d]) <= events
    BY DEF TypeOK
  <2>5. TypeOK'
    BY <1>0, <2>1, <2>2, <2>3, <2>4 DEF TypeOK
  <2>6. OnceEach'
    BY <2>1, <2>3, <2>4 DEF OnceEach
  <2> QED
    BY <2>5, <2>6
<1>9. CASE UNCHANGED vars
  BY <1>0, <1>9 DEF vars, tableVars, serverVars, server, walks, TypeOK, OnceEach
<1> QED
  BY <1>1, <1>2, <1>3, <1>4, <1>5, <1>6, <1>7, <1>8, <1>9, CommandIs DEF Next

\* Nobody reads with an event unread when the table is quiet.
LEMMA QuietQueues ==
  ASSUME Quiet, Idle
  PROVE  visit = None /\ \A c \in Ids : Runs(c) => queue[c] = <<>>
  BY DEF Idle, Runs

LEMMA CarriedStays ==
  ASSUME Quiet, TypeOK, ServerInv, Carried, [Next]_vars
  PROVE  Carried'
<1>1. ASSUME NEW e \in Events, BusEvent(e) PROVE Carried'
  <2>1. layout'[e.tcode] = e.state /\ (visit' # None => event' = e)
    BY <1>1 DEF BusEvent, TypeOK, Events
  <2> QED
    BY <2>1 DEF Carried
<1>2. CASE EdVisit
  BY <1>2, FanVisits DEF EdVisit, tableVars, Carried
<1>3. ASSUME NEW c \in Ids, NEW t \in Tcodes, NEW s \in States, Command(c, t, s)
      PROVE  Carried'
  BY <1>3, QuietQueues DEF Command, serverVars, walks, Carried
<1>4. ASSUME UNCHANGED <<visit, event, layout>> PROVE Carried'
  BY <1>4 DEF Carried
<1>5. ASSUME NEW i \in Ids, EdRecvEnds(i) \/ EdRemove(i) \/ HandleEvent(i) PROVE Carried'
  BY <1>4, <1>5 DEF EdRecvEnds, RecvEnds, EdRemove, RemoveClient, Removal, HandleEvent,
    serverVars, walks
<1>6. ASSUME EdAccept \/ EdStop \/ Serve \/ UNCHANGED vars PROVE Carried'
  BY <1>4, <1>6 DEF EdAccept, Accept, EdStop, Stop, Serve, Insert, ThreadStart, PeerCloses,
    Undefine, server, threads, walks, vars, serverVars, tableVars
<1> QED
  BY <1>1, <1>2, <1>3, <1>5, <1>6, CommandIs DEF Next

\* Whoever starts reading has an empty queue or was waiting to read.
LEMMA NewestStays ==
  ASSUME NewestLast, UNCHANGED <<queue, layout, event, visit>>,
         \A c \in Ids : Runs(c)' => Runs(c) \/ queue[c] = <<>>
  PROVE  NewestLast'
  BY DEF NewestLast, ToCome

LEMMA NewestServe ==
  ASSUME ServerInv, ServerInv', OnceEach, NewestLast,
         EdAccept \/ EdStop \/ Serve \/ \E i \in Ids : EdRecvEnds(i) \/ EdRemove(i)
  PROVE  NewestLast'
<1>1. UNCHANGED <<queue, layout, event, visit>>
  BY DEF EdAccept, Accept, EdStop, Stop, Serve, Insert, ThreadStart, PeerCloses, EdRecvEnds,
    RecvEnds, EdRemove, RemoveClient, Removal, Undefine, server, threads, walks, tableVars
<1>2. CASE EdAccept
  <2>1. queue[counter] = <<>> /\ UNCHANGED up /\ temp' = counter
    BY <1>2, InMapBefore, ServerAssumption
    DEF OnceEach, EdAccept, Accept, MayAccept, Ids, ServerInv, ServerTypeOK
  <2>2. \A c \in Ids : c # counter => object'[c] = object[c]
    BY <1>2 DEF EdAccept, Accept, ServerInv, ServerTypeOK
  <2>3. \A c \in Ids : Runs(c)' => Runs(c) \/ c = counter
    BY <2>1, <2>2 DEF Runs, WillRun
  <2> QED
    BY <1>1, <2>1, <2>3, NewestStays
<1>3. ASSUME \A c \in Ids : /\ object'[c] = "live" => object[c] = "live"
                            /\ up'[c] => up[c]
                            /\ thread'[c] = "born" => thread[c] = "born",
             UNCHANGED temp
      PROVE  NewestLast'
  <2>1. \A c \in Ids : Runs(c)' => Runs(c)
    BY <1>3 DEF Runs, WillRun
  <2> QED
    BY <1>1, <2>1, NewestStays
<1>4. CASE EdStop
  BY <1>3, <1>4 DEF EdStop, Stop, ServerInv, ServerTypeOK
<1>5. ASSUME NEW i \in Ids, EdRecvEnds(i) PROVE NewestLast'
  BY <1>3, <1>5 DEF EdRecvEnds, RecvEnds, server, ServerInv, ServerTypeOK
<1>6. ASSUME NEW i \in Ids, EdRemove(i) PROVE NewestLast'
  BY <1>3, <1>6 DEF EdRemove, RemoveClient, Removal, ServerInv, ServerTypeOK
<1>7. CASE Serve
  <2>1. ASSUME NEW i \in Ids, ThreadStart(i) PROVE NewestLast'
    <3>1. /\ thread[i] = "born" /\ object[temp] = "live" /\ UNCHANGED <<temp, object>>
          /\ \A c \in Ids : up'[c] => up[c] \/ c = temp
          /\ \A c \in Ids : thread'[c] = "born" => thread[c] = "born"
      BY <2>1 DEF ThreadStart, server, ServerInv, ThreadInv, ServerTypeOK
    <3>2. \A c \in Ids : Runs(c)' => Runs(c)
      BY <3>1 DEF Runs, WillRun
    <3> QED
      BY <1>1, <3>2, NewestStays
  <2>2. ASSUME NEW i \in Ids, PeerCloses(i) PROVE NewestLast'
    BY <1>3, <2>2 DEF PeerCloses, server
  <2>3. CASE Insert
    BY <1>3, <2>3 DEF Insert, ServerInv, ServerTypeOK
  <2>4. CASE Undefine
    BY <1>3, <2>4 DEF Undefine, server, threads
  <2> QED
    BY <1>7, <2>1, <2>2, <2>3, <2>4 DEF Serve
<1> QED
  BY <1>2, <1>4, <1>5, <1>6, <1>7

LEMMA NewestBusEvent ==
  ASSUME ServerInv, phase # "down", TypeOK, OnceEach, NewestLast, NEW e \in Events, BusEvent(e)
  PROVE  NewestLast'
<1>1. /\ FanStart /\ UNCHANGED queue
      /\ visit' # None => event' = e
      /\ layout' = [layout EXCEPT ![e.tcode] = e.state]
  BY DEF BusEvent
<1>2. ASSUME NEW c \in Ids, Runs(c)',
             NEW n \in DOMAIN queue[c], LastOfIts(queue[c], n)
      PROVE  \/ queue[c][n].state = layout'[queue[c][n].tcode]
             \/ ToCome(c, queue[c][n].tcode)'
  <2>1. Runs(c)
    BY <1>1, <1>2, FanStarts DEF Runs, WillRun
  <2>2. queue[c][n] \in Events
    BY <1>2 DEF TypeOK
  <2>3. CASE queue[c][n].tcode = e.tcode
    <3>1. queue[c] # <<>>
      BY <1>2
    <3>2. c \in clients
      BY <2>1, <3>1, ReadersKnown, InMapBefore DEF OnceEach
    <3>3. visit' # None /\ visit' <= c /\ visit' \in Nat /\ c \in Nat
      BY <1>1, <3>2, FanStarts, InMapBefore
    <3> QED
      BY <1>1, <2>3, <3>3 DEF ToCome
  <2>4. CASE queue[c][n].tcode # e.tcode
    <3>1. queue[c][n].state = layout[queue[c][n].tcode]
      BY <1>1, <1>2, <2>1, FanStarts DEF NewestLast, ToCome
    <3> QED
      BY <1>1, <2>2, <2>4, <3>1 DEF TypeOK, Events
  <2> QED
    BY <2>3, <2>4
<1> QED
  BY <1>1, <1>2 DEF NewestLast

LEMMA Appended ==
  ASSUME NEW q \in Seq(Events), NEW e \in Events
  PROVE  /\ DOMAIN Append(q, e) = DOMAIN q \cup {Len(q) + 1}
         /\ Append(q, e)[Len(q) + 1] = e
         /\ \A n \in DOMAIN q : Append(q, e)[n] = q[n] /\ n < Len(q) + 1
  OBVIOUS

LEMMA NewestVisit ==
  ASSUME ServerInv, phase # "down", TypeOK, OnceEach, Carried, NewestLast, EdVisit
  PROVE  NewestLast'
<1>1. /\ event \in Events /\ event.state = layout[event.tcode]
      /\ visit \in clients /\ visit \in Ids /\ visit # None
      /\ UNCHANGED <<layout, up, object, thread, temp, clients>>
      /\ visit' # None => event' = event
  BY FanVisits, InMapBefore DEF EdVisit, Carried, tableVars
<1>2. /\ queue'[visit] = Append(queue[visit], event)
      /\ \A c \in Ids : c # visit => queue'[c] = queue[c]
  BY <1>1 DEF EdVisit, TypeOK
<1>3. ASSUME NEW c \in Ids, Runs(c),
             NEW n \in DOMAIN queue'[c], LastOfIts(queue'[c], n)
      PROVE  \/ queue'[c][n].state = layout[queue'[c][n].tcode]
             \/ visit' # None /\ event'.tcode = queue'[c][n].tcode /\ c >= visit'
  <2>1. CASE c = visit
    <3>1. queue[c] \in Seq(Events)
      BY DEF TypeOK
    <3>2. CASE n = Len(queue[c]) + 1
      BY <1>1, <1>2, <2>1, <3>1, <3>2, Appended
    <3>3. CASE n \in DOMAIN queue[c]
      <4>1. /\ queue'[c][n] = queue[c][n] /\ LastOfIts(queue[c], n)
            /\ queue[c][n].tcode # event.tcode
        BY <1>1, <1>2, <1>3, <2>1, <3>1, <3>3, Appended DEF LastOfIts
      <4>2. queue[c][n].state = layout[queue[c][n].tcode]
        BY <1>3, <3>3, <4>1 DEF NewestLast, ToCome
      <4> QED
        BY <4>1, <4>2
    <3> QED
      BY <1>1, <1>2, <1>3, <2>1, <3>1, <3>2, <3>3, Appended
  <2>2. CASE c # visit
    <3>1. queue'[c] = queue[c]
      BY <1>2, <2>2
    <3>2. \/ queue[c][n].state = layout[queue[c][n].tcode]
          \/ event.tcode = queue[c][n].tcode /\ c >= visit
      BY <1>3, <3>1 DEF NewestLast, ToCome
    <3>3. ASSUME event.tcode = queue[c][n].tcode, c >= visit
          PROVE  visit' # None /\ event'.tcode = queue[c][n].tcode /\ c >= visit'
      <4>1. queue[c] # <<>>
        BY <1>3, <3>1
      <4>2. c \in clients
        BY <1>3, <4>1, ReadersKnown, InMapBefore DEF OnceEach
      <4>3. c > visit /\ c \in Nat /\ visit \in Nat
        BY <1>1, <2>2, <3>3, <4>2, InMapBefore
      <4>4. visit' # None /\ visit' <= c /\ visit' \in Nat
        BY <1>1, <4>2, <4>3, FanVisits, InMapBefore DEF EdVisit
      <4> QED
        BY <1>1, <3>3, <4>3, <4>4
    <3> QED
      BY <3>1, <3>2, <3>3
  <2> QED
    BY <2>1, <2>2
<1>4. \A c : Runs(c)' => Runs(c)
  BY <1>1 DEF Runs, WillRun
<1> QED
  BY <1>1, <1>3, <1>4 DEF NewestLast, ToCome

LEMMA Handled ==
  ASSUME NEW q \in Seq(Events), q # <<>>
  PROVE  /\ 1 \in DOMAIN q /\ Head(q) = q[1] /\ Tail(q) \in Seq(Events)
         /\ \A n \in DOMAIN Tail(q) : n + 1 \in DOMAIN q /\ Tail(q)[n] = q[n + 1] /\ n \in Nat
         /\ \A n \in DOMAIN q : n > 1 => n - 1 \in DOMAIN Tail(q) /\ Tail(q)[n - 1] = q[n]
         /\ \A n \in DOMAIN q : n \in Nat /\ n >= 1
  OBVIOUS

LEMMA NewestHandle ==
  ASSUME TypeOK, NewestLast, NEW i \in Ids, HandleEvent(i)
  PROVE  NewestLast'
<1>1. /\ queue[i] \in Seq(Events) /\ queue[i] # <<>> /\ Runs(i)
      /\ queue'[i] = Tail(queue[i])
      /\ \A c \in Ids : c # i => queue'[c] = queue[c]
      /\ UNCHANGED <<layout, event, visit>> /\ \A c : Runs(c)' => Runs(c)
  BY DEF HandleEvent, TypeOK, serverVars, server, threads, walks, Runs, WillRun
<1>2. ASSUME NEW n \in DOMAIN Tail(queue[i]), LastOfIts(Tail(queue[i]), n)
      PROVE  LastOfIts(queue[i], n + 1)
  <2>1. ASSUME NEW m \in DOMAIN queue[i], m > n + 1
        PROVE  queue[i][m].tcode # queue[i][n + 1].tcode
    <3>1. m \in Nat /\ n \in Nat /\ m > 1 /\ m - 1 > n
      BY <1>1, <1>2, <2>1, Handled
    <3>2. m - 1 \in DOMAIN Tail(queue[i]) /\ Tail(queue[i])[m - 1] = queue[i][m]
      BY <1>1, <2>1, <3>1, Handled
    <3>3. Tail(queue[i])[n] = queue[i][n + 1]
      BY <1>1, <1>2, Handled
    <3> QED
      BY <1>2, <3>1, <3>2, <3>3 DEF LastOfIts
  <2> QED
    BY <2>1 DEF LastOfIts
<1>3. \A n \in DOMAIN queue'[i] : LastOfIts(queue'[i], n) =>
        \/ queue'[i][n].state = layout[queue'[i][n].tcode]
        \/ ToCome(i, queue'[i][n].tcode)
  <2>1. \A n \in DOMAIN queue[i] : LastOfIts(queue[i], n) =>
          \/ queue[i][n].state = layout[queue[i][n].tcode]
          \/ ToCome(i, queue[i][n].tcode)
    BY <1>1 DEF NewestLast
  <2>2. \A n \in DOMAIN Tail(queue[i]) :
          n + 1 \in DOMAIN queue[i] /\ Tail(queue[i])[n] = queue[i][n + 1]
    BY <1>1, Handled
  <2> QED
    BY <1>1, <1>2, <2>1, <2>2
<1>4. SUFFICES ASSUME NEW c \in Ids, Runs(c),
                      NEW n \in DOMAIN queue'[c], LastOfIts(queue'[c], n)
               PROVE  \/ queue'[c][n].state = layout[queue'[c][n].tcode]
                      \/ ToCome(c, queue'[c][n].tcode)
  BY <1>1 DEF NewestLast, ToCome
<1>5. CASE c = i
  BY <1>3, <1>4, <1>5
<1>6. CASE c # i
  BY <1>1, <1>4, <1>6 DEF NewestLast
<1> QED
  BY <1>5, <1>6

LEMMA NewestCommand ==
  ASSUME Quiet, NEW c \in Ids, NEW t \in Tcodes, NEW s \in States, Command(c, t, s)
  PROVE  NewestLast'
<1>1. UNCHANGED queue /\ \A d : Runs(d)' => Runs(d)
  BY DEF Command, serverVars, server, threads, Runs, WillRun
<1>2. \A d \in Ids : Runs(d) => queue[d] = <<>>
  BY QuietQueues DEF Command
<1> QED
  BY <1>1, <1>2 DEF NewestLast

LEMMA TableStays ==
  ASSUME TableInv, UNCHANGED <<table, queue, layout, event, visit, witness>>,
         \A c \in Ids : Reads(c) => Reads(c)',
         clients \subseteq clients', clients \subseteq Ids
  PROVE  TableInv'
<1>1. \A t : Behind(t) => Behind(t)'
  BY DEF Behind, ToCome
<1>2. Reading \subseteq Reading'
  BY DEF Reading, Reads
<1> QED
  BY <1>1, <1>2 DEF TableInv

\* A client stops: what it has not read is no longer witnessed.
LEMMA TableForsaken ==
  ASSUME ServerInv, TypeOK, TableInv, NEW c \in Ids,
         UNCHANGED <<table, queue, layout, event, visit>>, witness' = Forsaken(c),
         \A d \in Ids : d # c => (Reads(d) => Reads(d)') /\ (d \in clients => d \in clients')
  PROVE  TableInv'
<1>1. \A d \in Ids : d # c /\ Reads(d) => Reads(d)'
  OBVIOUS
<1>2. \A t \in Tcodes : \A d \in witness'[t] :
        d \in witness[t] /\ d # c /\ t \notin Unread(c)
  <2>1. SUFFICES ASSUME NEW t \in Tcodes, NEW d \in witness'[t]
                 PROVE  d \in witness[t] /\ d # c /\ t \notin Unread(c)
    OBVIOUS
  <2>2. witness'[t] = IF t \in Unread(c) THEN {} ELSE witness[t] \ {c}
    BY DEF Forsaken
  <2> QED
    BY <2>1, <2>2
<1>3. ASSUME NEW t \in Tcodes, Behind(t), t \notin Unread(c)
      PROVE  Behind(t)'
  <2>2. PICK d \in Ids : Reads(d) /\ \E n \in DOMAIN queue[d] : queue[d][n].tcode = t
    BY <1>3 DEF Behind, ToCome, Unread
  <2>3. d # c
    BY <1>3, <2>2 DEF Unread
  <2> QED
    BY <1>1, <2>2, <2>3 DEF Behind
<1>4. \A t \in DOMAIN table : t \in Tcodes
  BY DEF TypeOK, Tables
<1>5. \A t \in Tcodes : witness'[t] \subseteq Reading'
  <2>1. \A d \in Reading : d # c => d \in Reading'
    BY <1>1, InMapBefore DEF Reading, Reads
  <2>2. \A t \in Tcodes : \A d \in witness'[t] : d \in Reading /\ d # c
    BY <1>2 DEF TableInv
  <2> QED
    BY <2>1, <2>2
<1>6. \A t \in DOMAIN table :
        witness'[t] # {} /\ table[t] # layout[t] => Behind(t)'
  <2>1. SUFFICES ASSUME NEW t \in DOMAIN table, witness'[t] # {}, table[t] # layout[t]
                 PROVE  Behind(t)'
    OBVIOUS
  <2>2. t \in Tcodes /\ witness[t] # {} /\ t \notin Unread(c)
    <3>1. t \in Tcodes
      BY <1>4, <2>1
    <3>2. PICK d : d \in witness'[t]
      BY <2>1
    <3> QED
      BY <1>2, <2>1, <3>1, <3>2
  <2>3. Behind(t)
    BY <2>1, <2>2 DEF TableInv
  <2> QED
    BY <1>3, <2>2, <2>3
<1> QED
  BY <1>5, <1>6 DEF TableInv

LEMMA TableServe ==
  ASSUME ServerInv, TypeOK, TableInv,
         EdAccept \/ Serve \/ \E i \in Ids : EdRecvEnds(i) \/ EdRemove(i)
  PROVE  TableInv'
<1>1. CASE EdAccept
  <2>1. UNCHANGED <<queue, layout, event, visit, witness, up, clients>>
    BY <1>1 DEF EdAccept, Accept, walks
  <2>2. \A c \in Ids : Reads(c) => Reads(c)'
    BY <1>1, <2>1 DEF EdAccept, Accept, Reads, ServerInv, ServerTypeOK
  <2>3. CASE clients = {}
    <3>1. \A t \in Tcodes : witness[t] = {}
      BY <2>3 DEF TableInv, Reading
    <3>2. DOMAIN table' \subseteq Tcodes
      BY <1>1, TurnoutAssumption DEF EdAccept, Reloaded, Loaded, TypeOK, Tables
    <3> QED
      BY <2>1, <3>1, <3>2 DEF TableInv
  <2>4. CASE clients # {}
    BY <1>1, <2>1, <2>2, <2>4, InMapBefore, TableStays DEF EdAccept, Reloaded
  <2> QED
    BY <2>3, <2>4
<1>2. ASSUME NEW i \in Ids, EdRecvEnds(i) PROVE TableInv'
  <2>1. /\ UNCHANGED <<table, queue, layout, event, visit, clients, object>>
        /\ up' = [up EXCEPT ![serves[i]] = FALSE] /\ witness' = Forsaken(serves[i])
        /\ serves[i] \in Ids
    BY <1>2 DEF EdRecvEnds, RecvEnds, server, walks, ServerInv, ThreadInv, Created
  <2>2. \A d \in Ids : d # serves[i] /\ Reads(d) => Reads(d)'
    BY <2>1 DEF Reads, ServerInv, ServerTypeOK
  <2> QED
    BY <2>1, <2>2, TableForsaken
<1>3. ASSUME NEW i \in Ids, EdRemove(i) PROVE TableInv'
  <2>1. /\ UNCHANGED <<table, queue, layout, event, visit, up>>
        /\ object' = [object EXCEPT ![serves[i]] = "deleted"]
        /\ clients' = clients \ {serves[i]} /\ witness' = Forsaken(serves[i])
        /\ serves[i] \in Ids
    BY <1>3 DEF EdRemove, RemoveClient, Removal, walks, ServerInv, ThreadInv, Created
  <2>2. \A d \in Ids : d # serves[i] /\ Reads(d) => Reads(d)'
    BY <2>1 DEF Reads, ServerInv, ServerTypeOK
  <2> QED
    BY <2>1, <2>2, TableForsaken
<1>4. CASE Serve
  <2>1. UNCHANGED <<table, queue, layout, event, visit, witness, object>>
    BY <1>4 DEF Serve, Insert, ThreadStart, PeerCloses, Undefine, walks, server, threads,
      tableVars
  <2>2. \A c \in Ids : up[c] => up'[c]
    BY <1>4 DEF Serve, Insert, ThreadStart, PeerCloses, Undefine, threads, ServerInv,
      ServerTypeOK
  <2>3. clients \subseteq clients'
    BY <1>4 DEF Serve, Insert, ThreadStart, PeerCloses, Undefine, server
  <2>4. \A c \in Ids : Reads(c) => Reads(c)'
    BY <2>1, <2>2 DEF Reads
  <2> QED
    BY <2>1, <2>3, <2>4, InMapBefore, TableStays
<1> QED
  BY <1>1, <1>2, <1>3, <1>4

LEMMA TableStop ==
  ASSUME ServerInv, TypeOK, TableInv, EdStop, phase' # "down"
  PROVE  TableInv'
<1>1. /\ UNCHANGED <<table, queue, layout, event, visit, clients, object>>
      /\ halt' \in clients /\ halt' # None /\ halt' \in Ids
      /\ up' = [up EXCEPT ![halt'] = FALSE] /\ witness' = Forsaken(halt')
  BY InMapBefore DEF EdStop, Stop
<1>2. \A d \in Ids : d # halt' /\ Reads(d) => Reads(d)'
  BY <1>1 DEF Reads, ServerInv, ServerTypeOK
<1> QED
  BY <1>1, <1>2, TableForsaken

LEMMA TableBusEvent ==
  ASSUME ServerInv, TypeOK, TableInv, NEW e \in Events, BusEvent(e)
  PROVE  TableInv'
<1>1. /\ FanStart /\ UNCHANGED <<queue, table>>
      /\ visit' # None => event' = e
      /\ \A t \in Tcodes : t # e.tcode => layout'[t] = layout[t] /\ witness'[t] = witness[t]
      /\ witness'[e.tcode] = Reading
  BY DEF BusEvent, TypeOK, Events
<1>2. UNCHANGED <<up, object, clients>> /\ Reading' = Reading
  BY <1>1, FanStarts DEF Reading
<1>3. ASSUME Reading # {}
      PROVE  \E c \in clients : Reads(c) /\ ToCome(c, e.tcode)'
  <2>1. PICK c \in clients : Reads(c)
    BY <1>3 DEF Reading, Reads
  <2>2. visit' # None /\ visit' <= c /\ visit' \in Nat /\ c \in Nat
    BY <1>1, <2>1, FanStarts, InMapBefore
  <2> QED
    BY <1>1, <2>1, <2>2 DEF ToCome
<1>4. \A t : t # e.tcode /\ Behind(t) => Behind(t)'
  BY <1>1, <1>2, FanStarts DEF Behind, ToCome, Reads
<1>5. \A t \in DOMAIN table : t \in Tcodes
  BY DEF TypeOK, Tables
<1>6. \A t \in DOMAIN table :
        witness'[t] # {} /\ table[t] # layout'[t] => Behind(t)'
  BY <1>1, <1>2, <1>3, <1>4, <1>5 DEF TableInv, Behind, Reads
<1> QED
  BY <1>1, <1>2, <1>6 DEF TableInv

LEMMA TableVisit ==
  ASSUME ServerInv, TypeOK, Carried, TableInv, EdVisit
  PROVE  TableInv'
<1>1. /\ visit \in clients /\ visit \in Ids /\ visit # None /\ event \in Events
      /\ UNCHANGED <<table, layout, witness, up, object, clients>>
      /\ visit' # None => event' = event
      /\ \A c : Reads(c) => Reads(c)'
  BY FanVisits, InMapBefore DEF EdVisit, Carried, tableVars, Reads
<1>2. /\ queue'[visit] = Append(queue[visit], event) /\ queue[visit] \in Seq(Events)
      /\ \A c \in Ids : c # visit => queue'[c] = queue[c]
  BY <1>1 DEF EdVisit, TypeOK
<1>3. ASSUME NEW t, Behind(t)
      PROVE  Behind(t)'
  <2>1. ASSUME NEW c \in Ids, Reads(c), NEW n \in DOMAIN queue[c], queue[c][n].tcode = t
        PROVE  Behind(t)'
    <3>1. n \in DOMAIN queue'[c] /\ queue'[c][n] = queue[c][n]
      BY <1>1, <1>2, <2>1, Appended
    <3> QED
      BY <1>1, <2>1, <3>1 DEF Behind
  <2>2. ASSUME NEW c \in clients, Reads(c), ToCome(c, t)
        PROVE  Behind(t)'
    <3>1. CASE c = visit
      <4>1. /\ Len(queue[c]) + 1 \in DOMAIN queue'[c]
            /\ queue'[c][Len(queue[c]) + 1] = event
        BY <1>1, <1>2, <3>1, Appended
      <4> QED
        BY <1>1, <2>2, <3>1, <4>1 DEF Behind, ToCome
    <3>2. CASE c # visit
      <4>1. c > visit /\ c \in Nat /\ visit \in Nat
        BY <1>1, <2>2, <3>2, InMapBefore DEF ToCome
      <4>2. visit' # None /\ visit' <= c /\ visit' \in Nat
        BY <4>1, FanVisits, InMapBefore DEF EdVisit
      <4>3. ToCome(c, t)'
        BY <1>1, <2>2, <4>1, <4>2 DEF ToCome
      <4> QED
        BY <1>1, <2>2, <4>3 DEF Behind
    <3> QED
      BY <3>1, <3>2
  <2> QED
    BY <1>3, <2>1, <2>2 DEF Behind
<1> QED
  BY <1>1, <1>3 DEF TableInv, Reading

LEMMA TableHandle ==
  ASSUME ServerInv, phase # "down", TypeOK, OnceEach, NewestLast, TableInv,
         NEW i \in Ids, HandleEvent(i)
  PROVE  TableInv'
<1>1. /\ queue[i] \in Seq(Events) /\ queue[i] # <<>> /\ Reads(i) /\ Runs(i)
      /\ queue'[i] = Tail(queue[i])
      /\ \A c \in Ids : c # i => queue'[c] = queue[c]
      /\ UNCHANGED <<layout, event, visit, up, object, clients, witness>>
      /\ \A c : Reads(c) => Reads(c)'
      /\ table' = Set(table, Head(queue[i]).tcode, Head(queue[i]).state)
  BY DEF HandleEvent, TypeOK, serverVars, threads, walks, server, Reads, Runs
<1>2. PICK e \in Events : e = Head(queue[i])
  BY <1>1, Handled
<1>3. /\ 1 \in DOMAIN queue[i] /\ queue[i][1] = e
      /\ \A n \in DOMAIN queue[i] : n # 1 =>
           n > 1 /\ n - 1 \in DOMAIN queue'[i] /\ queue'[i][n - 1] = queue[i][n]
  BY <1>1, <1>2, Handled
<1>4. /\ DOMAIN table' = DOMAIN table
      /\ \A t \in DOMAIN table : table'[t] = IF t = e.tcode THEN e.state ELSE table[t]
  BY <1>1, <1>2, SetTyped DEF TypeOK, Events
<1>5. ASSUME NEW t, NEW n \in DOMAIN queue[i], n # 1, queue[i][n].tcode = t
      PROVE  Behind(t)'
  <2>1. n - 1 \in DOMAIN queue'[i] /\ queue'[i][n - 1].tcode = t
    BY <1>3, <1>5
  <2> QED
    BY <1>1, <2>1 DEF Behind
<1>6. ASSUME NEW t, t # e.tcode, Behind(t)
      PROVE  Behind(t)'
  <2>1. ASSUME NEW c \in Ids, Reads(c), NEW n \in DOMAIN queue[c], queue[c][n].tcode = t
        PROVE  Behind(t)'
    <3>1. CASE c = i
      BY <1>3, <1>5, <1>6, <2>1, <3>1
    <3>2. CASE c # i
      <4>1. n \in DOMAIN queue'[c] /\ queue'[c][n].tcode = t /\ Reads(c)'
        BY <1>1, <2>1, <3>2
      <4> QED
        BY <4>1 DEF Behind
    <3> QED
      BY <3>1, <3>2
  <2>2. ASSUME NEW c \in clients, Reads(c), ToCome(c, t)
        PROVE  Behind(t)'
    <3>1. Reads(c)' /\ c \in clients' /\ ToCome(c, t)'
      BY <1>1, <2>2 DEF ToCome
    <3> QED
      BY <3>1 DEF Behind
  <2> QED
    BY <1>6, <2>1, <2>2 DEF Behind
<1>7. ASSUME NEW t, t = e.tcode, e.state # layout[t]
      PROVE  Behind(t)'
  <2>1. CASE LastOfIts(queue[i], 1)
    <3>1. ToCome(i, t)
      BY <1>1, <1>3, <1>7, <2>1 DEF NewestLast
    <3>2. i \in clients
      BY <1>1, <1>3, ReadersKnown, InMapBefore DEF OnceEach
    <3>3. Reads(i)' /\ i \in clients' /\ ToCome(i, t)'
      BY <1>1, <3>1, <3>2 DEF ToCome
    <3> QED
      BY <3>3 DEF Behind
  <2>2. CASE ~LastOfIts(queue[i], 1)
    <3>1. PICK m \in DOMAIN queue[i] : m > 1 /\ queue[i][m].tcode = t
      BY <1>3, <1>7, <2>2 DEF LastOfIts
    <3>2. m # 1
      BY <3>1
    <3> QED
      BY <1>5, <3>1, <3>2
  <2> QED
    BY <2>1, <2>2
<1>8. \A t \in DOMAIN table' :
        witness'[t] # {} /\ table'[t] # layout'[t] => Behind(t)'
  <2>1. SUFFICES ASSUME NEW t \in DOMAIN table, witness[t] # {}, table'[t] # layout[t]
                 PROVE  Behind(t)'
    BY <1>1, <1>4
  <2>2. CASE t = e.tcode
    BY <1>4, <1>7, <2>1, <2>2
  <2>3. CASE t # e.tcode
    BY <1>4, <1>6, <2>1, <2>3 DEF TableInv
  <2> QED
    BY <2>2, <2>3
<1>9. Reading' = Reading
  BY <1>1 DEF Reading
<1> QED
  BY <1>1, <1>8, <1>9 DEF TableInv

LEMMA TableCommand ==
  ASSUME Quiet, TypeOK, ServerInv, TableInv,
         NEW c \in Ids, NEW t \in Tcodes, NEW s \in States, Command(c, t, s)
  PROVE  TableInv'
<1>1. /\ table' = Set(Added(t), t, s) /\ layout'[t] = s /\ witness'[t] = Reading
      /\ \A u \in Tcodes : u # t => layout'[u] = layout[u] /\ witness'[u] = witness[u]
      /\ UNCHANGED <<queue, event, visit, up, object, thread, clients>>
  BY DEF Command, TypeOK, serverVars, server, threads, walks
<1>2. /\ DOMAIN table' = DOMAIN table \cup {t} /\ table'[t] = s
      /\ \A u \in DOMAIN table : u # t => table'[u] = table[u]
      /\ DOMAIN table \subseteq Tcodes
  <2>1. table \in Tables
    BY DEF TypeOK
  <2>2. /\ Added(t) \in Tables /\ DOMAIN Added(t) = DOMAIN table \cup {t}
        /\ \A u \in DOMAIN table : Added(t)[u] = table[u]
    BY <2>1, AddedTyped DEF Added
  <2>3. DOMAIN table \subseteq Tcodes
    BY <2>1 DEF Tables
  <2> QED
    BY <1>1, <2>2, <2>3, SetTyped
<1>3. \A u : ~Behind(u)
  BY QuietQueues DEF Command, Behind, ToCome, Reads, Runs
<1>4. \A u \in DOMAIN table' : witness'[u] # {} => table'[u] = layout'[u]
  BY <1>1, <1>2, <1>3 DEF TableInv
<1>5. Reading' = Reading
  BY <1>1 DEF Reading
<1> QED
  BY <1>1, <1>4, <1>5 DEF TableInv

LEMMA InitTurnoutInv == Init => TurnoutInv
<1> SUFFICES ASSUME Init PROVE TurnoutInv
  OBVIOUS
<1>1. ServerInv
  BY InitServerInv DEF Init
<1>2. Carried /\ NewestLast
  BY DEF Init, ServerInit, Carried, NewestLast, Runs
<1>3. TableInv
  <2>1. DOMAIN table \subseteq Tcodes
    BY TurnoutAssumption DEF Init, Loaded, Empty
  <2> QED
    BY <2>1 DEF Init, TableInv
<1> QED
  BY <1>1, <1>2, <1>3, InitTyped DEF TurnoutInv

LEMMA StepTurnoutInv ==
  ASSUME Quiet, TurnoutInv, [Next]_vars
  PROVE  TurnoutInv'
<1> USE DEF TurnoutInv
<1>1. ServerInv'
  BY StepIsServerStep, StepServerInv
<1>2. TypeOK' /\ OnceEach'
  BY <1>1, StepTyped
<1>3. Carried'
  BY CarriedStays
<1>4. ASSUME phase' # "down" PROVE NewestLast' /\ TableInv'
  <2>1. phase # "down"
    <3>1. phase = "down" => UNCHANGED phase
      BY StepIsServerStep DEF ServerNext, Accept, Insert, FanStart, FanVisit, Stop, Undefine,
        ThreadStart, PeerCloses, RecvEnds, RemoveClient, Removal, walks, serverVars
    <3> QED
      BY <1>4, <3>1
  <2>2. NewestLast /\ TableInv
    BY <2>1
  <2>3. CASE EdAccept \/ Serve \/ \E i \in Ids : EdRecvEnds(i) \/ EdRemove(i)
    BY <1>1, <2>2, <2>3, NewestServe, TableServe
  <2>4. CASE EdStop
    BY <1>1, <1>4, <2>2, <2>4, NewestServe, TableStop
  <2>5. CASE EdVisit
    BY <2>1, <2>2, <2>5, NewestVisit, TableVisit
  <2>6. ASSUME NEW e \in Events, BusEvent(e) PROVE NewestLast' /\ TableInv'
    BY <2>1, <2>2, <2>6, NewestBusEvent, TableBusEvent
  <2>7. ASSUME NEW i \in Ids, HandleEvent(i) PROVE NewestLast' /\ TableInv'
    BY <2>1, <2>2, <2>7, NewestHandle, TableHandle
  <2>8. ASSUME NEW c \in Ids, NEW t \in Tcodes, NEW s \in States, Command(c, t, s)
        PROVE  NewestLast' /\ TableInv'
    BY <2>2, <2>8, NewestCommand, TableCommand
  <2>9. CASE UNCHANGED vars
    <3>1. UNCHANGED <<table, queue, layout, event, visit, witness, up, object, thread, temp,
                      clients>>
      BY <2>9 DEF vars, tableVars, serverVars, server, threads, walks
    <3>2. \A c : (Runs(c)' => Runs(c)) /\ (Reads(c) => Reads(c)')
      BY <3>1 DEF Runs, Reads, WillRun
    <3> QED
      BY <2>2, <3>1, <3>2, InMapBefore, NewestStays, TableStays
  <2> QED
    BY <2>3, <2>4, <2>5, <2>6, <2>7, <2>8, <2>9, CommandIs DEF Next
<1> QED
  BY <1>1, <1>2, <1>3, <1>4

\* Table, queues and history keep their types, and no client is told of an
\* event more than once (Turnout.cpp, tcpServer.cpp:addCanMessage).
THEOREM TurnoutsTyped ==
  ASSUME Quiet
  PROVE  Spec => []TypeOK
<1>1. TurnoutInv => TypeOK
  BY DEF TurnoutInv
<1>2. TurnoutInv /\ [Next]_vars => TurnoutInv'
  BY StepTurnoutInv
<1> QED
  BY <1>1, <1>2, InitTurnoutInv, PTL DEF Spec

\* However many throttles read the same events, each at its own pace, and
\* connect and leave meanwhile: once the events are handled, the table says
\* what the layout has (as long as the server is not shut down).
THEOREM TableIsTheLayout ==
  ASSUME Quiet
  PROVE  Spec => []TableFollowsLayout
<1>1. TurnoutInv => TableFollowsLayout
  BY DEF TurnoutInv, TableInv, TableFollowsLayout, Behind, ToCome, Idle, Reads
<1>2. TurnoutInv /\ [Next]_vars => TurnoutInv'
  BY StepTurnoutInv
<1> QED
  BY <1>1, <1>2, InitTurnoutInv, PTL DEF Spec
=============================================================================
