------------------------------ MODULE Turnouts ------------------------------
(***************************************************************************)
(* The table of turnouts (Turnout) that the clients of the ED server share:*)
(* accessory events of the bus reach it through the queue of every client, *)
(* commands of throttles change it and send the event, and a connection    *)
(* that finds no other client reloads it from its file.                    *)
(*                                                                         *)
(* Quiet: a user commands a turnout when the events before it have arrived *)
(* (an older event left in some queue would undo the command in the table).*)
(***************************************************************************)
EXTENDS TcpServer, Sequences, SequencesExt

CONSTANTS Tcodes,     \* turnout codes
          FileCodes,  \* those the turnout file names
          Quiet,
          MaxEvents   \* bound of the model: bus events and commands

ASSUME TurnoutAssumption ==
  FileCodes \subseteq Tcodes /\ Quiet \in BOOLEAN /\ MaxEvents \in Nat

VARIABLES
  hasFile,   \* a turnout file was found at start
  table,     \* the state of each turnout known, a partial function
  queue,     \* [Ids -> the events a client has not handled]
  layout,    \* [Tcodes -> the state on the layout, as the last event set it]
  event,     \* the event the fan-out carries
  witness,   \* history [Tcodes -> the clients that read when its last event
             \* came, and read still]
  events     \* how many events there were

tableVars == <<hasFile, table, layout, witness, events>>
vars == <<serverVars, tableVars, queue, event>>

States == {"closed", "thrown"}  \* ASOF, ASON
Tables == UNION {[T -> States \cup {"unknown"}] : T \in SUBSET Tcodes}
Events == [tcode : Tcodes, state : States]
NoEvent == CHOOSE e \in Events : TRUE  \* what event holds while visit = None

TypeOK ==
  /\ ServerTypeOK
  /\ hasFile \in BOOLEAN
  /\ table \in Tables
  /\ queue \in [Ids -> Seq(Events)] /\ \A c \in Ids : Len(queue[c]) <= events
  /\ layout \in [Tcodes -> States]
  /\ event \in Events \cup {NoEvent}
  /\ witness \in [Tcodes -> SUBSET Ids]
  /\ events \in 0..MaxEvents

\* Turnout::load, after the table has been cleared.
Loaded == [t \in FileCodes |-> "unknown"]
Empty == [t \in {} |-> "unknown"]

Init ==
  /\ ServerInit
  /\ hasFile \in BOOLEAN
  /\ table = IF hasFile THEN Loaded ELSE Empty
  /\ queue = [i \in Ids |-> <<>>]
  /\ layout \in [Tcodes -> States]
  /\ event = NoEvent
  /\ witness = [t \in Tcodes |-> {}]
  /\ events = 0

-----------------------------------------------------------------------------
(* The clients.                                                            *)

\* What client c has been sent and not read, or is being sent.
Unread(c) ==
  {queue[c][n].tcode : n \in DOMAIN queue[c]}
    \cup IF visit = None THEN {} ELSE {event.tcode}

\* History: a client c that stops has not read what may be newer than the
\* last event it handled.
Forsaken(c) ==
  [t \in Tcodes |-> IF t \in Unread(c) THEN {} ELSE witness[t] \ {c}]

\* Mutant: the table is reloaded for every connection.
ReloadAlways == IF hasFile THEN Loaded ELSE table

\* Turnout::reload, for the first client only: there has to be a file.
Reloaded == IF clients = {} /\ hasFile THEN Loaded ELSE table

EdAccept ==
  /\ Accept
  /\ table' = Reloaded
  /\ UNCHANGED <<hasFile, queue, layout, event, witness, events>>

EdRecvEnds(i) ==
  /\ RecvEnds(i)
  /\ witness' = Forsaken(serves[i])
  /\ UNCHANGED <<hasFile, table, queue, layout, event, events>>

EdStop ==
  /\ Stop
  /\ witness' = IF halt' = None THEN witness ELSE Forsaken(halt')
  /\ UNCHANGED <<hasFile, table, queue, layout, event, events>>

\* A client is deleted; another thread that serves it may have restarted it.
EdRemove(i) ==
  /\ RemoveClient(i)
  /\ witness' = Forsaken(serves[i])
  /\ UNCHANGED <<hasFile, table, queue, layout, event, events>>

\* The steps of the server that touch neither queues nor the table.
Serve ==
  /\ \/ Insert
     \/ Undefine
     \/ \E i \in Ids : ThreadStart(i) \/ PeerCloses(i)
  /\ UNCHANGED <<tableVars, queue, event>>

-----------------------------------------------------------------------------
(* Events of the bus.                                                      *)

Reading == {c \in clients : up[c] /\ object[c] = "live"}

\* The queue reader passes an accessory event on. With no client nobody
\* learns of it.
BusEvent(e) ==
  /\ events < MaxEvents
  /\ FanStart
  /\ event' = IF visit' = None THEN NoEvent ELSE e
  /\ layout' = [layout EXCEPT ![e.tcode] = e.state]
  /\ witness' = [witness EXCEPT ![e.tcode] = Reading]
  /\ events' = events + 1
  /\ UNCHANGED <<hasFile, table, queue>>

\* Mutant: the first client is told twice.
EdVisitTwice ==
  /\ FanVisit
  /\ queue' = [queue EXCEPT ![visit] = @ \o <<event, event>>]
  /\ event' = IF visit' = None THEN NoEvent ELSE event
  /\ UNCHANGED tableVars

\* canMessage of the client the fan-out stands at.
EdVisit ==
  /\ FanVisit
  /\ queue' = [queue EXCEPT ![visit] = Append(@, event)]
  /\ event' = IF visit' = None THEN NoEvent ELSE event
  /\ UNCHANGED tableVars

\* CloseTurnout and ThrownTurnout: only turnouts in the table have a state.
Set(tab, t, s) == IF t \in DOMAIN tab THEN [tab EXCEPT ![t] = s] ELSE tab

\* Mutant: the newest event is taken first.
HandleNewest(c) ==
  /\ ~undefined /\ up[c] /\ object[c] = "live" /\ queue[c] # <<>>
  /\ queue' = [queue EXCEPT ![c] = Front(@)]
  /\ LET e == Last(queue[c]) IN table' = Set(table, e.tcode, e.state)
  /\ UNCHANGED <<serverVars, hasFile, layout, event, witness, events>>

HandleEvent(c) ==
  /\ ~undefined /\ up[c] /\ object[c] = "live" /\ queue[c] # <<>>
  /\ queue' = [queue EXCEPT ![c] = Tail(@)]
  /\ LET e == Head(queue[c]) IN table' = Set(table, e.tcode, e.state)
  /\ UNCHANGED <<serverVars, hasFile, layout, event, witness, events>>

-----------------------------------------------------------------------------
(* Commands of a throttle.                                                 *)

\* A thread is about to start c.
WillRun(c) == c = temp /\ \E i \in Ids : thread[i] = "born"

Idle ==
  /\ visit = None
  /\ \A c \in Ids : up[c] \/ WillRun(c) => queue[c] = <<>>

\* addTurnout, when the table does not have it.
Added(t) == [u \in DOMAIN table \cup {t} |->
  IF u \in DOMAIN table THEN table[u] ELSE "unknown"]

\* The state is set and its event sent to the bus (the reader does not hear
\* what the daemon sends, and no other throttle is told).
Command(c, t, s) ==
  /\ ~undefined /\ up[c] /\ object[c] = "live" /\ peer[c] /\ events < MaxEvents
  /\ Quiet => Idle
  /\ table' = Set(Added(t), t, s)
  /\ layout' = [layout EXCEPT ![t] = s]
  /\ witness' = [witness EXCEPT ![t] = Reading]
  /\ events' = events + 1
  /\ UNCHANGED <<serverVars, hasFile, queue, event>>

\* handleTurnout, and handleTurnoutGeneric without C or T: whatever is not
\* thrown is thrown.
Toggle(c, t) == Command(c, t, IF Added(t)[t] = "thrown" THEN "closed" ELSE "thrown")

-----------------------------------------------------------------------------
Next ==
  \/ EdAccept \/ EdStop \/ Serve \/ EdVisit
  \/ \E i \in Ids : EdRecvEnds(i) \/ EdRemove(i) \/ HandleEvent(i)
  \/ \E e \in Events : BusEvent(e)
  \/ \E c \in Ids, t \in Tcodes : Toggle(c, t) \/ \E s \in States : Command(c, t, s)

Spec == Init /\ [][Next]_vars

\* Threads that can run do, and the fan-out does not stand at one client for ever. No user owes a command and
\* nobody has to stop the server.
Fairness ==
  /\ WF_vars(Insert /\ Serve) /\ WF_vars(EdVisit) /\ WF_vars(Undefine /\ Serve)
  /\ WF_vars(phase = "stopping" /\ EdStop)
  /\ \A i \in Ids :
       /\ WF_vars(ThreadStart(i) /\ Serve)
       /\ WF_vars(EdRecvEnds(i) /\ ~peer[serves[i]])
       /\ WF_vars(EdRemove(i))

FairSpec == Spec /\ Fairness

-----------------------------------------------------------------------------
(* Properties.                                                             *)

\* While the server runs, what the table says of a turnout is what the layout
\* has, as soon as the events in flight have been handled, if one throttle was connected and read
\* when the last one came: however many throttles read the same events, each
\* at its own pace, and connect and leave meanwhile.
TableFollowsLayout ==
  phase # "down" /\ Idle => \A t \in DOMAIN table : witness[t] # {} => table[t] = layout[t]

=============================================================================
