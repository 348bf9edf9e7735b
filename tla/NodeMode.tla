------------------------------ MODULE NodeMode ------------------------------
(***************************************************************************)
(* The node of CANPiWi on the CBUS (canHandler): its mode, its number, its *)
(* CAN id and the restarts it orders. Two threads work on them without a   *)
(* lock:                                                                   *)
(*                                                                         *)
(*   run_pb_logic       the push button, the LEDs, the end of the self     *)
(*                      enumeration                                        *)
(*   run_queue_reader   the commands a configuration tool sends on the     *)
(*                      CAN bus (handleCBUSEvents)                         *)
(*                                                                         *)
(* A handler that saves twice, or that changes the map and saves it later, *)
(* is cut at that point, and the power may fail there. Serialized assumes  *)
(* that two handlers that save do not overlap. The flag for blinking and   *)
(* the LEDs have no such protection: each test, read and write of theirs   *)
(* is a step, and the other thread may come in between.                    *)
(*                                                                         *)
(* The frames that both threads send, the commands that only answer, and   *)
(* HLT and BON, are left to CanRouter.                                     *)
(***************************************************************************)
EXTENDS NodeConfig

CONSTANTS FirstFiles,  \* what canpi.cfg may hold at first
          Serialized,  \* assumed: handlers that save do so in turn
          MaxEvents    \* bound of the model: commands, presses, restarts

ASSUME NodeAssumption ==
  /\ \A c \in FirstFiles :
       c \in Config /\ (c.node_mode = "FLIM" => c.node_number # DefaultNN)
  /\ Serialized \in BOOLEAN /\ MaxEvents \in Nat

Actions == {"configure", "restart", "shutdown"}
Snn == {"snn", "green", "yellow", "mode"}
ReaderPoints == {"top", "commit"} \cup Snn
ButtonPoints == {"up", "short", "enum", "long", "release"}
LedPoints == {"loop", "blink", "start", "flag", "read", "green", "yellow",
              "number", "drop"}

VARIABLES
  node_number, canId, setup_mode, blinking, auto_enum_mode, soft_auto_enum,
  gl, yl,    \* the green and the yellow LED
  button,    \* how long the button is down, or that a long press is handled
  step,      \* what run_pb_logic is doing to the LEDs
  seen,      \* the yellow LED, or the mode, as it has read it
  overtaken, \* history: SNN was under way since it began that step
  late,      \* history: LEDs last written in an overtaken step
  reader,    \* program point of handleCBUSEvents
  tnn,       \* the number that the SNN under way gives
  reason,    \* status of the setNV call under way
  started,   \* the configuration the program has read when it started
  ordered,   \* what restart_module has been told to do since
  events

store == <<config, file>>
setup == <<setup_mode, blinking>>
leds == <<gl, yl>>
lights == <<leds, step, seen, overtaken, late>>
enumeration == <<auto_enum_mode, soft_auto_enum>>
command == <<reader, tnn, reason>>
run == <<started, ordered>>
vars == <<store, nodeVariables, node_number, canId, setup, lights, enumeration,
          button, command, run, events>>

TypeOK ==
  /\ ConfigTypeOK
  /\ node_number \in Numbers /\ canId \in CanIds
  /\ {setup_mode, blinking, auto_enum_mode, soft_auto_enum, gl, yl} \subseteq BOOLEAN
  /\ button \in ButtonPoints
  /\ step \in LedPoints /\ seen \in BOOLEAN
  /\ overtaken \in BOOLEAN /\ late \subseteq {"gl", "yl"}
  /\ reader \in ReaderPoints /\ tnn \in Numbers /\ reason \subseteq Actions
  /\ started \in Config /\ ordered \subseteq Actions
  /\ events \in 0..MaxEvents

Init ==
  /\ \E c \in FirstFiles :
       /\ StartConfig(c)
       /\ node_number = c.node_number /\ canId = c.canid
       /\ gl = (c.node_mode = "SLIM") /\ yl = (c.node_mode = "FLIM")
       /\ started = c
  /\ setup_mode = FALSE /\ blinking = FALSE
  /\ auto_enum_mode = FALSE /\ soft_auto_enum = FALSE
  /\ step = "loop" /\ seen = FALSE /\ overtaken = FALSE /\ late = {}
  /\ button = "up" /\ reader = "top" /\ tnn = DefaultNN /\ reason = {}
  /\ ordered = {}
  /\ events = 0

Event == events < MaxEvents /\ events' = events + 1

\* A thread inside a handler that saves keeps the other one from saving.
ReaderMay == Serialized => button # "release"
ButtonMay == Serialized => reader = "top"

\* run_pb_logic goes on to what the LEDs need, having read v.
Goto(p, v) ==
  /\ step' = p /\ seen' = v
  /\ overtaken' = (p # "loop" /\ (reader \in Snn \/ (step # "loop" /\ overtaken)))

\* It writes a LED.
Written(led) == late' = IF overtaken THEN late \cup {led} ELSE late \ {led}

-----------------------------------------------------------------------------
(* Self enumeration. Other nodes answer the remote frame it sends, but no  *)
(* caller hands their ids to finishSelfEnum, so that canids stays empty    *)
(* and the saved CAN id is taken.                                          *)

DoSelfEnum == auto_enum_mode' = TRUE

\* finishSelfEnum after WAIT_ENUM, and run_pb_logic's part.
FinishSelfEnum ==
  /\ auto_enum_mode /\ step = "loop" /\ button # "release" /\ ButtonMay
  /\ auto_enum_mode' = FALSE
  /\ LoadConfig
  /\ canId' = config'.canid
  /\ IF config'.node_mode = "FLIM"
       THEN setup_mode' = TRUE /\ UNCHANGED soft_auto_enum
       ELSE soft_auto_enum' = FALSE /\ UNCHANGED setup_mode
  /\ UNCHANGED <<file, nodeVariables, node_number, blinking, lights, button,
                 command, run, events>>

-----------------------------------------------------------------------------
(* run_pb_logic.                                                           *)

Press ==
  /\ Event /\ button = "up" /\ step = "loop"
  /\ button' = "short"
  /\ UNCHANGED <<store, nodeVariables, node_number, canId, setup, lights,
                 enumeration, command, run>>

\* Time passes AENUM_PB_TIME, then NN_PB_TIME.
Hold ==
  /\ \/ button = "short" /\ button' = "enum"
     \/ button = "enum" /\ button' = "long"
  /\ UNCHANGED <<store, nodeVariables, node_number, canId, setup, lights,
                 enumeration, command, run, events>>

\* A step that concerns the LEDs alone.
LedStep ==
  UNCHANGED <<store, nodeVariables, node_number, canId, setup_mode, enumeration,
              button, command, run, events>>

\* Blinking: the flag is tested and the yellow LED read, then written.
BlinkTest ==
  /\ step = "loop" /\ blinking
  /\ Goto("blink", yl)
  /\ UNCHANGED <<blinking, leds, late>> /\ LedStep

BlinkWrite ==
  /\ step = "blink"
  /\ yl' = ~seen /\ Written("yl")
  /\ Goto("loop", FALSE)
  /\ UNCHANGED <<blinking, gl>> /\ LedStep

\* The button is down long enough: the flag is tested, then set, then the
\* green LED is switched on.
StartTest ==
  /\ step = "loop" /\ button = "long" /\ ~blinking
  /\ Goto("start", FALSE)
  /\ UNCHANGED <<blinking, leds, late>> /\ LedStep

StartBlinking ==
  /\ step = "start"
  /\ blinking' = TRUE
  /\ Goto("flag", FALSE)
  /\ UNCHANGED <<leds, late>> /\ LedStep

StartGreen ==
  /\ step = "flag"
  /\ gl' = TRUE /\ Written("gl")
  /\ Goto("loop", FALSE)
  /\ UNCHANGED <<blinking, yl>> /\ LedStep

\* The mode that was read, or saved, is shown: SLIM is green, FLIM yellow.
ShowGreen ==
  /\ step = "green"
  /\ gl' = seen /\ Written("gl")
  /\ Goto("yellow", seen)
  /\ UNCHANGED <<blinking, yl>> /\ LedStep

ShowYellow ==
  /\ step = "yellow"
  /\ yl' = ~seen /\ Written("yl")
  /\ Goto(IF button = "release" THEN "number" ELSE "loop", FALSE)
  /\ UNCHANGED <<blinking, gl>> /\ LedStep

\* Setup or blinking ends, then the mode is read to be shown.
ReleaseShort ==
  /\ step = "loop" /\ button = "short"
  /\ button' = "up"
  /\ setup_mode' = FALSE /\ blinking' = FALSE
  /\ IF setup_mode \/ blinking
       THEN Goto("read", FALSE)
       ELSE UNCHANGED <<step, seen, overtaken>>
  /\ UNCHANGED <<store, nodeVariables, node_number, canId, leds, late, enumeration,
                 command, run, events>>

ReadMode ==
  /\ step = "read"
  /\ Goto("green", config.node_mode = "SLIM")
  /\ UNCHANGED <<blinking, leds, late>> /\ LedStep

ReleaseEnum ==
  /\ step = "loop" /\ button = "enum"
  /\ button' = "up"
  /\ DoSelfEnum
  /\ UNCHANGED <<store, nodeVariables, node_number, canId, setup, lights,
                 soft_auto_enum, command, run, events>>

\* In SLIM: RQNN.
ReleaseLong ==
  /\ step = "loop" /\ button = "long" /\ config.node_mode = "SLIM"
  /\ button' = "up"
  /\ setup_mode' = TRUE
  /\ UNCHANGED <<store, nodeVariables, node_number, canId, blinking, lights,
                 enumeration, command, run, events>>

\* Mutant: the default number is saved first.
NumberFirst ==
  /\ step = "loop" /\ button = "long" /\ ButtonMay /\ config.node_mode = "FLIM"
  /\ button' = "release"
  /\ SetNodeNumber(DefaultNN)
  /\ Goto("green", TRUE)
  /\ UNCHANGED <<nodeVariables, node_number, canId, setup, leds, late, enumeration,
                 command, run, events>>

\* In FLIM: back to SLIM; NNREL, and the number, after the LEDs.
LeaveFlim ==
  /\ step = "loop" /\ button = "long" /\ ButtonMay /\ config.node_mode = "FLIM"
  /\ button' = "release"
  /\ SetNodeMode("SLIM")
  /\ Goto("green", TRUE)
  /\ UNCHANGED <<nodeVariables, node_number, canId, setup, leds, late, enumeration,
                 command, run, events>>

LeaveSetup ==
  /\ step = "number"
  /\ setup_mode' = FALSE /\ blinking' = FALSE
  /\ node_number' = DefaultNN
  /\ Goto("drop", FALSE)
  /\ UNCHANGED <<store, nodeVariables, canId, leds, late, enumeration, button,
                 command, run, events>>

DropNumber ==
  /\ step = "drop"
  /\ button' = "up"
  /\ SetNodeNumber(DefaultNN)
  /\ Goto("loop", FALSE)
  /\ UNCHANGED <<nodeVariables, node_number, canId, setup, leds, late, enumeration,
                 command, run, events>>

ButtonNext ==
  \/ FinishSelfEnum \/ Press \/ Hold
  \/ BlinkTest \/ BlinkWrite \/ StartTest \/ StartBlinking \/ StartGreen
  \/ ReleaseShort \/ ReadMode \/ ReleaseEnum \/ ReleaseLong \/ ShowGreen \/ ShowYellow
  \/ LeaveFlim \/ LeaveSetup \/ DropNumber

-----------------------------------------------------------------------------
(* handleCBUSEvents.                                                       *)

Command == Event /\ reader = "top"

\* SNN: a tool answers RQNN with a number, saved before the mode is.
SetNumber(n) ==
  /\ Command /\ ReaderMay /\ setup_mode
  /\ reader' = "snn" /\ tnn' = n
  /\ SetNodeNumber(n)
  /\ overtaken' = (step # "loop")
  /\ UNCHANGED <<nodeVariables, node_number, canId, setup, leds, step, seen, late,
                 enumeration, button, reason, run>>

\* What SNN does next, one store after the other.
SnnStep(from, to) ==
  /\ reader = from /\ reader' = to
  /\ UNCHANGED <<nodeVariables, canId, step, seen, overtaken, enumeration, button,
                 tnn, reason, run, events>>

LeaveSetupMode ==
  /\ SnnStep("snn", "green")
  /\ node_number' = tnn
  /\ setup_mode' = FALSE /\ blinking' = FALSE
  /\ UNCHANGED <<store, leds, late>>

\* Mutant: the green LED is left as it was for blinking.
GreenLeftOn ==
  /\ SnnStep("green", "yellow")
  /\ late' = late \ {"gl"}
  /\ UNCHANGED <<store, node_number, setup, leds>>

GreenOff ==
  /\ SnnStep("green", "yellow")
  /\ gl' = FALSE /\ late' = late \ {"gl"}
  /\ UNCHANGED <<store, node_number, setup, yl>>

YellowOn ==
  /\ SnnStep("yellow", "mode")
  /\ yl' = TRUE /\ late' = late \ {"yl"}
  /\ UNCHANGED <<store, node_number, setup, gl>>

EnterFlim ==
  /\ SnnStep("mode", "top")
  /\ SetNodeMode("FLIM")
  /\ UNCHANGED <<node_number, setup, leds, late>>

CanidCommand(id) ==
  /\ Command /\ ReaderMay /\ ~setup_mode
  /\ canId' = id /\ SetCanID(id)
  /\ UNCHANGED <<nodeVariables, node_number, setup, lights, enumeration, button,
                 command, run>>

EnumCommand ==
  /\ Command /\ ~setup_mode
  /\ soft_auto_enum' = TRUE /\ DoSelfEnum
  /\ UNCHANGED <<store, nodeVariables, node_number, canId, setup, lights, button,
                 command, run>>

\* NVSET up to the last write into the map.
NvSet(i, v) ==
  /\ Command /\ ReaderMay
  /\ WriteNV(i, v)
  /\ IF FullSet
       THEN /\ config' = WithNVs(file, nv')
            /\ reason' = Reason(file, nv')
            /\ reader' = "commit" /\ UNCHANGED tnn
       ELSE UNCHANGED <<config, command>>
  /\ UNCHANGED <<file, node_number, canId, setup, lights, enumeration, button, run>>

\* Mutant: setNV returns without the save.
CommitUnsaved ==
  /\ reader = "commit"
  /\ reader' = "top" /\ reason' = {} /\ UNCHANGED tnn
  /\ ordered' = ordered \cup reason
  /\ UNCHANGED <<store, nodeVariables, node_number, canId, setup, lights,
                 enumeration, button, started, events>>

\* The save, and restart_module if the status asks for it.
Commit ==
  /\ reader = "commit"
  /\ reader' = "top" /\ reason' = {} /\ UNCHANGED tnn
  /\ SaveConfig(config)
  /\ ordered' = ordered \cup reason
  /\ UNCHANGED <<nodeVariables, node_number, canId, setup, lights, enumeration,
                 button, started, events>>

\* ASON with the shutdown code.
ShutdownCommand ==
  /\ Command /\ ReaderMay
  /\ ordered' = ordered \cup {"shutdown"}
  /\ UNCHANGED <<store, nodeVariables, node_number, canId, setup, lights,
                 enumeration, button, command, started>>

ReaderNext ==
  \/ \E n \in Numbers \ {DefaultNN} : SetNumber(n)
  \/ \E id \in CanIds : CanidCommand(id)
  \/ \E i \in NvIndex : \E v \in NvValues(i) : NvSet(i, v)
  \/ LeaveSetupMode \/ GreenOff \/ YellowOn \/ EnterFlim
  \/ EnumCommand \/ Commit \/ ShutdownCommand

-----------------------------------------------------------------------------
(* The program starts again: the power came back, or a script that         *)
(* restart_module started, or the user, restarts it. All it keeps is the   *)
(* file.                                                                   *)

Restart ==
  /\ Event
  /\ UNCHANGED file /\ LoadConfig
  /\ nv' = LoadParams(file) /\ nvs_set' = 0
  /\ node_number' = file.node_number /\ canId' = file.canid
  /\ gl' = (file.node_mode = "SLIM") /\ yl' = (file.node_mode = "FLIM")
  /\ step' = "loop" /\ seen' = FALSE /\ overtaken' = FALSE /\ late' = {}
  /\ setup_mode' = FALSE /\ blinking' = FALSE
  /\ auto_enum_mode' = FALSE /\ soft_auto_enum' = FALSE
  /\ button' = "up" /\ reader' = "top" /\ tnn' = DefaultNN /\ reason' = {}
  /\ started' = file /\ ordered' = {}

Next == ButtonNext \/ ReaderNext \/ Restart

Spec == Init /\ [][Next]_vars

-----------------------------------------------------------------------------
(* Properties.                                                             *)

Idle == reader = "top" /\ button # "release"

\* Whenever no handler is under way, the program runs with what a restart
\* would find in canpi.cfg, the CAN id excepted: the number it answers to is
\* the saved one and nothing in the map waits for the save of another part.
RunsAsSaved ==
  Idle => /\ node_number = file.node_number
          /\ \A k \in DOMAIN file \ {"canid"} : config[k] = file[k]

\* Wherever the power fails, a node that comes back in FLIM has a number that
\* a tool gave it: SNN saves the number before the mode, and a long press
\* gives up the mode before the number.
FlimHasNumber == file.node_mode = "FLIM" => file.node_number # DefaultNN

\* When the node does not blink, exactly one LED is on and it shows the saved
\* mode, whatever presses, commands and enumerations led there; but for a LED
\* that the button's thread wrote last, after it had tested the flag or read
\* the mode before an SNN of the other thread was done.
LedsShowMode ==
  Idle /\ step = "loop" /\ ~blinking =>
    /\ "gl" \in late \/ gl = (file.node_mode = "SLIM")
    /\ "yl" \in late \/ yl = (file.node_mode = "FLIM")

\* A saved setting that the running program has not started with has ordered
\* what makes it take effect: a new network configuration if it is one of the
\* access point, at least a restart if it is one of the servers.
ChangesAreApplied ==
  Idle => /\ file.ap_mode # started.ap_mode => "configure" \in ordered
          /\ \/ file.tcpport # started.tcpport
             \/ file.edserver # started.edserver
             => ordered \cap {"configure", "restart"} # {}

=============================================================================
