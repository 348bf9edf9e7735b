------------------------------ MODULE Throttle ------------------------------
(***************************************************************************)
(* What a throttle (an ED) does with the locomotives it has acquired:      *)
(* speed, direction, functions, and the programming of momentary functions *)
(* (tcpClient, edSession). Sessions deals with how a locomotive is         *)
(* requested, kept and released; here a request is answered at once, and   *)
(* one device connects, loses its connection and comes back.               *)
(*                                                                         *)
(* A command names one locomotive or, with *, all of one throttle type.    *)
(* The command station and its locomotives are external.                   *)
(***************************************************************************)
EXTENDS FnConfig

CONSTANTS Types,     \* throttle types: T and S
          Speeds,    \* speeds a throttle sends
          Orderly,   \* assumed: see MaySave and MayPageSave
          Tidy,      \* assumed: see TidyKey and TidyHands
          MaxEvents  \* bound of the model: locomotives acquired, buttons
                     \* pressed, commands of speed and direction

ASSUME ThrottleAssumption ==
  /\ Speeds \subseteq 0..126
  /\ Orderly \in BOOLEAN /\ Tidy \in BOOLEAN /\ MaxEvents \in Nat

VARIABLES
  connected,  \* the device has a connection
  sessions,   \* tcpClient::sessions, also while they are orphans
  fresh,      \* momentary functions of the session for the next request
  buttons,    \* [Locos -> the function buttons held down]
  station,    \* [Locos -> speed, direction and functions switched on]
  told,       \* history: [Locos -> function groups sent since it was acquired]
  events

device == <<connected, buttons, events>>
daemon == <<sessions, fresh>>
layout == <<station, told>>
vars == <<settings, daemon, device, layout>>

Session == [on : SUBSET Fns, momentary : SUBSET Fns, speed : 0..126,
            dir : {0, 1}, type : Types]
Loco == [speed : 0..126, dir : {0, 1}, lit : SUBSET Fns]

TypeOK ==
  /\ FnConfigTypeOK
  /\ connected \in BOOLEAN /\ fresh \subseteq Fns
  /\ DOMAIN sessions \subseteq Locos /\ \A l \in DOMAIN sessions : sessions[l] \in Session
  /\ buttons \in [Locos -> SUBSET Fns]
  /\ station \in [Locos -> Loco] /\ told \in [Locos -> SUBSET (1..5)]
  /\ events \in 0..MaxEvents

Init ==
  /\ FnConfigInit
  /\ connected = FALSE /\ sessions = <<>> /\ fresh = {}
  /\ buttons = [l \in Locos |-> {}]
  /\ station = [l \in Locos |-> [speed |-> 0, dir |-> 1, lit |-> {}]]
  /\ told = [l \in Locos |-> {}]
  /\ events = 0

Event == events < MaxEvents /\ events' = events + 1

\* What a command with * addresses.
OfType(t) == {l \in DOMAIN sessions : sessions[l].type = t}

-----------------------------------------------------------------------------
(* DCC function groups.                                                    *)

Group(f) == CASE f \in 0..4 -> 1 [] f \in 5..8 -> 2 [] f \in 9..12 -> 3
              [] f \in 13..20 -> 4 [] OTHER -> 5
FirstOf == <<1, 5, 9, 13, 21>>

\* Mutant: the light is not treated apart.
BitPlain(f) == IF f = 0 THEN 0 ELSE f - FirstOf[Group(f)]

\* The position of a function in the byte of its group.
Bit(f) == IF f = 0 THEN 4 ELSE f - FirstOf[Group(f)]

\* getDccByte, as the set of its bits.
DccByte(on, f) == {Bit(h) : h \in {g \in on : Group(g) = Group(f)}}

\* The station's table (NMRA S-9.2.1): the functions of a group by their bits.
DccTable == << <<1, 2, 3, 4, 0>>, <<5, 6, 7, 8>>, <<9, 10, 11, 12>>,
               <<13, 14, 15, 16, 17, 18, 19, 20>>, <<21, 22, 23, 24, 25, 26, 27, 28>> >>
FnsOf(g) == {DccTable[g][i] : i \in DOMAIN DccTable[g]} \cap Fns

\* DFUN: the functions of group g are set to the bits of byte.
Dfun(s, g, byte) ==
  [s EXCEPT !.lit = (@ \ FnsOf(g)) \cup
     ({DccTable[g][b + 1] : b \in {x \in byte : x + 1 \in DOMAIN DccTable[g]}} \cap Fns)]

\* DSPD.
Dspd(s, d, v) == [s EXCEPT !.dir = d, !.speed = v]

-----------------------------------------------------------------------------
(* The device and the program come and go.                                 *)

\* A user lets go of the buttons before the throttle leaves.
TidyHands == Tidy => \A l \in Locos : buttons[l] = {}

\* The constructor of tcpClient; createEDSession reads the general list.
Connect ==
  /\ ~connected
  /\ connected' = TRUE
  /\ LoadConfig /\ fresh' = GeneralFns(file)
  /\ UNCHANGED <<file, page, wanted, cut, sessions, buttons, events, layout>>

Disconnect ==
  /\ connected /\ TidyHands
  /\ connected' = FALSE
  /\ UNCHANGED <<settings, daemon, buttons, events, layout>>

\* The sweep stops and releases a locomotive whose throttle has not returned.
Sweep(l) ==
  /\ ~connected /\ l \in DOMAIN sessions
  /\ station' = [station EXCEPT ![l] = Dspd(@, sessions[l].dir, 0)]
  /\ sessions' = [k \in DOMAIN sessions \ {l} |-> sessions[k]]
  /\ UNCHANGED <<settings, fresh, device, told>>

\* What is left when the daemon has died.
Down ==
  /\ connected' = FALSE /\ sessions' = <<>> /\ fresh' = {}
  /\ buttons' = [l \in Locos |-> {}]
  /\ UNCHANGED <<events, layout>>

\* The daemon starts again.
Restart ==
  /\ LoadConfig
  /\ Down
  /\ UNCHANGED <<file, page, wanted, cut>>

\* PLOC answers a request: the session takes the speed and the direction of
\* the locomotive from one byte, and the functions that are momentary for it
\* alone; then the session for the next request is created.
PlocByte(l) == station[l].dir * 128 + station[l].speed

\* Mutant: the direction is left in the speed.
AcquiredUnmasked(l, t) ==
  [on |-> {}, momentary |-> Applied(map, l, fresh),
   speed |-> PlocByte(l), dir |-> PlocByte(l) \div 128, type |-> t]

Acquired(l, t) ==
  [on |-> {}, momentary |-> Applied(map, l, fresh),
   speed |-> PlocByte(l) % 128, dir |-> PlocByte(l) \div 128, type |-> t]

Acquire(l, t) ==
  /\ Event /\ connected /\ l \notin DOMAIN sessions
  /\ sessions' = With(sessions, [k \in {l} |-> Acquired(l, t)])
  /\ told' = [told EXCEPT ![l] = {}]
  /\ LoadConfig /\ fresh' = GeneralFns(file)
  /\ UNCHANGED <<file, page, wanted, cut, connected, buttons, station>>

\* KLOC for each locomotive of L.
Release(L) ==
  /\ connected
  /\ sessions' = [k \in DOMAIN sessions \ L |-> sessions[k]]
  /\ buttons' = [l \in Locos |-> IF l \in L THEN {} ELSE buttons[l]]
  /\ UNCHANGED <<settings, fresh, connected, events, layout>>

-----------------------------------------------------------------------------
(* Speed and direction.                                                    *)

\* The sessions of L get speed s, the station v.
Drive(L, s, v) ==
  /\ Event /\ connected
  /\ sessions' = [l \in DOMAIN sessions |->
       IF l \in L THEN [sessions[l] EXCEPT !.speed = s] ELSE sessions[l]]
  /\ station' = [l \in Locos |->
       IF l \in L THEN Dspd(station[l], sessions[l].dir, v) ELSE station[l]]
  /\ UNCHANGED <<settings, fresh, connected, buttons, told>>

\* Speed 1 is an emergency stop to the station.
AsSent(v) == IF v = 1 THEN 2 ELSE v
Speed(L, v) == Drive(L, v, AsSent(v))
EmergencyStop(L) == Drive(L, 0, 1)
Idle(L) == Drive(L, 0, 0)

\* Mutant: the session keeps its direction.
DirectionUnset(L, d, all) ==
  /\ Event /\ connected
  /\ UNCHANGED sessions
  /\ station' = [l \in Locos |->
       IF l \in L THEN Dspd(station[l], d, IF all THEN sessions[l].speed ELSE AsSent(sessions[l].speed))
                  ELSE station[l]]
  /\ UNCHANGED <<settings, fresh, connected, buttons, told>>

\* Only the command for one locomotive keeps clear of speed 1.
Direction(L, d, all) ==
  /\ Event /\ connected
  /\ sessions' = [l \in DOMAIN sessions |->
       IF l \in L THEN [sessions[l] EXCEPT !.dir = d] ELSE sessions[l]]
  /\ station' = [l \in Locos |->
       IF l \in L THEN Dspd(station[l], d, IF all THEN sessions[l].speed ELSE AsSent(sessions[l].speed))
                  ELSE station[l]]
  /\ UNCHANGED <<settings, fresh, connected, buttons, told>>

-----------------------------------------------------------------------------
(* Functions. A throttle sends on when a button goes down and off when it  *)
(* comes up; the session only toggles. While F28 is on, the buttons do not *)
(* switch functions but change what they are.                              *)

\* Button f of the locomotives L goes down or comes up. A tidy user presses
\* and releases it for the same locomotives, touches F28 with no other button
\* down, and switches all functions off before F28 on.
TidyKey(L, f, down) ==
  Tidy => \A l \in L :
    /\ down = (f \notin buttons[l])
    /\ f = 28 => buttons[l] \subseteq {28}
    /\ f = 28 /\ down => sessions[l].on \subseteq {28}

\* Mutant: no function is momentary.
DiscardedOff(s, f, down) == ~down

Discarded(s, f, down) == f \notin s.momentary /\ ~down
Programs(s, f) == f # 28 /\ 28 \in s.on

Toggled(s, f) == [s EXCEPT !.on = IF f \in @ THEN @ \ {f} ELSE @ \cup {f}]
Retyped(s, f) == [s EXCEPT !.momentary = IF f \in @ THEN @ \ {f} ELSE @ \cup {f}]

\* The session after the command, by handleSetFunction and programmingFn.
After(s, f, down) ==
  IF Discarded(s, f, down) THEN s
  ELSE IF ~Programs(s, f) THEN Toggled(s, f)
  ELSE IF down THEN Retyped(s, f) ELSE s

\* The locomotives whose functions go to the wire, and those whose programming
\* F28 ends and saves.
Sent(L, f, down) == {l \in L : ~Discarded(sessions[l], f, down) /\ ~Programs(sessions[l], f)}
Saved(L, f, down) == {l \in Sent(L, f, down) : f = 28 /\ 28 \in sessions[l].on}
Programming(S) == [l \in S |-> sessions[l].momentary]

\* The throttle saves when the daemon has read what the page saved last.
MaySave == Orderly => map = file

Key(L, f, down) ==
  /\ connected /\ TidyKey(L, f, down)
  /\ IF down THEN Event ELSE UNCHANGED events
  /\ buttons' = [l \in Locos |-> IF l \notin L THEN buttons[l]
                   ELSE IF down THEN buttons[l] \cup {f} ELSE buttons[l] \ {f}]
  /\ UNCHANGED connected

SetFunction(L, f, down) ==
  LET sent == Sent(L, f, down)
      saved == Saved(L, f, down)
  IN
  /\ Key(L, f, down)
  /\ IF saved = {} THEN UNCHANGED settings ELSE MaySave /\ SetNewPairs(Programming(saved))
  /\ sessions' = [l \in DOMAIN sessions |->
       IF l \in L THEN After(sessions[l], f, down) ELSE sessions[l]]
  /\ station' = [l \in Locos |->
       IF l \in sent THEN Dfun(station[l], Group(f), DccByte(After(sessions[l], f, down).on, f))
                     ELSE station[l]]
  /\ told' = [l \in Locos |-> IF l \in sent THEN told[l] \cup {Group(f)} ELSE told[l]]
  /\ UNCHANGED fresh

\* The power fails during the save that F28 starts.
SetFunctionCut(L, f, down) ==
  /\ connected /\ MaySave
  /\ Saved(L, f, down) # {} /\ CutSave(Programming(Saved(L, f, down)))
  /\ Down

-----------------------------------------------------------------------------
(* The user of the web page saves a page that shows what the file holds.   *)

MayPageSave == Orderly => page = file

PageOpen == PageRead /\ UNCHANGED <<daemon, device, layout>>

PagePost(v) ==
  /\ MayPageSave
  /\ PageSave(v)
  /\ UNCHANGED <<daemon, device, layout>>

-----------------------------------------------------------------------------
Command(L, all) ==
  /\ L # {}
  /\ \/ Release(L)
     \/ \E v \in Speeds : Speed(L, v)
     \/ EmergencyStop(L)
     \/ Idle(L)
     \/ \E d \in {0, 1} : Direction(L, d, all)
     \/ \E f \in Fns, down \in BOOLEAN : SetFunction(L, f, down) \/ SetFunctionCut(L, f, down)

Next ==
  \/ Connect \/ Disconnect \/ Restart
  \/ \E l \in Locos : Sweep(l)
  \/ \E l \in Locos, t \in Types : Acquire(l, t)
  \/ \E l \in DOMAIN sessions : Command({l}, FALSE)
  \/ \E t \in Types : Command(OfType(t), TRUE)
  \/ PageOpen
  \/ \E v \in Lists : PagePost(v)

Spec == Init /\ [][Next]_vars

-----------------------------------------------------------------------------
(* Properties.                                                             *)

\* The functions of a locomotive are as its session has them, in every group
\* of which anything was sent, although a command sends the whole group and
\* a button may switch, program or do nothing.
FunctionsAgree ==
  \A l \in DOMAIN sessions : \A g \in told[l] :
    station[l].lit \cap FnsOf(g) = sessions[l].on \cap FnsOf(g)

\* A locomotive runs as its session says, also one that was running when it
\* was acquired and one whose throttle has left: same direction, same speed,
\* where stopped is 0 or the emergency stop and 1 may be sent as 2.
RunsAsSession ==
  \A l \in DOMAIN sessions :
    /\ station[l].dir = sessions[l].dir
    /\ \/ station[l].speed = sessions[l].speed
       \/ <<sessions[l].speed, station[l].speed>> \in {<<0, 1>>, <<1, 2>>}

\* Outside programming the functions of a locomotive are momentary as they
\* were programmed last, in whichever session that was, unless none was left
\* momentary or the power failed during the save.
TypesAsProgrammed ==
  \A l \in DOMAIN sessions \cap DOMAIN wanted :
    28 \notin sessions[l].on /\ wanted[l] # {} /\ ~cut => sessions[l].momentary = wanted[l]

\* Outside programming a momentary function is on exactly while its button is
\* down: the toggling never gets out of step with the button.
MomentaryFollowsButton ==
  \A l \in DOMAIN sessions : 28 \notin sessions[l].on =>
    \A f \in sessions[l].momentary : f \in sessions[l].on <=> f \in buttons[l]

=============================================================================
