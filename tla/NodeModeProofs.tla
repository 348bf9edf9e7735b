--------------------------- MODULE NodeModeProofs ---------------------------
(***************************************************************************)
(* What canpi.cfg holds, the number the node answers to and the mode its   *)
(* LEDs show agree for every set of numbers, CAN ids, ports and first      *)
(* files and for any number of presses, commands and power failures, as    *)
(* long as two handlers that save do not overlap. What the threads do to   *)
(* the LEDs overlaps in every way.                                         *)
(***************************************************************************)
EXTENDS NodeMode, FiniteSetTheorems, TLAPS

StoreTypeOK == config \in Config /\ file \in Config /\ nv \in NVs

\* The two threads are never both inside a handler that saves.
OneAtATime ==
  /\ reader = "top" \/ button # "release"
  /\ step \in {"number", "drop"} => button = "release"
  /\ button = "release" => step \in {"green", "yellow", "number", "drop"}

\* Only a commit under way has put something into the map that is not saved.
MapIsFile ==
  /\ config.node_number = file.node_number /\ config.node_mode = file.node_mode
  /\ reader # "commit" =>
       /\ config.ap_mode = file.ap_mode /\ config.edserver = file.edserver
       /\ config.create_log_file = file.create_log_file
       /\ config.tcpport = file.tcpport

\* SNN has saved the number it has not taken yet; a long press has taken the
\* number it has not saved yet, and the node is not in FLIM.
NumberInv ==
  /\ reader # "snn" /\ step # "drop" => node_number = file.node_number
  /\ reader \in Snn => tnn = file.node_number /\ tnn # DefaultNN
  /\ step = "drop" => node_number = DefaultNN
  /\ button = "release" => file.node_mode = "SLIM"

\* What run_pb_logic has tested or read still holds, unless an SNN came in.
StepInv ==
  /\ step # "loop" /\ reader \in Snn => overtaken
  /\ step \in {"blink", "flag"} /\ ~overtaken => blinking
  /\ step \in {"green", "yellow"} /\ ~overtaken => seen = (file.node_mode = "SLIM")

GreenShown == "gl" \in late \/ gl = (file.node_mode = "SLIM")
YellowShown == "yl" \in late \/ yl = (file.node_mode = "FLIM")

\* An SNN under way has set the LEDs for the mode it will save; when none is,
\* a LED that is not about to be written shows the saved mode.
LedInv ==
  /\ reader \in {"yellow", "mode"} => "gl" \in late \/ gl = FALSE
  /\ reader = "mode" => "yl" \in late \/ yl = TRUE
  /\ reader \notin Snn /\ step \notin {"read", "green"}
     /\ (~blinking \/ step \in {"yellow", "number", "drop"}) => GreenShown
  /\ reader \notin Snn /\ step \notin {"read", "green", "yellow"}
     /\ (~blinking \/ step \in {"number", "drop"}) => YellowShown

\* What the LEDs are not part of.
StoreInv == /\ StoreTypeOK /\ OneAtATime /\ MapIsFile /\ NumberInv
            /\ FlimHasNumber

NodeInv == StoreInv /\ StepInv /\ LedInv

\* The invariant holds when the program starts for the first time.
LEMMA InitNodeInv == Init => NodeInv
<1> SUFFICES ASSUME Init PROVE NodeInv
  OBVIOUS
<1>1. PICK c \in FirstFiles : /\ StartConfig(c) /\ node_number = c.node_number
                              /\ gl = (c.node_mode = "SLIM")
                              /\ yl = (c.node_mode = "FLIM")
  BY DEF Init
<1>2. StoreInv
  BY <1>1, ConfigAssumption, NodeAssumption
  DEF Init, StartConfig, StoreInv, StoreTypeOK, OneAtATime, MapIsFile, NumberInv,
      FlimHasNumber, Config, Modes, NVs, LoadParams, LoadParam1, Bits, Snn
<1>3. StepInv /\ LedInv
  BY <1>1 DEF Init, StartConfig, StepInv, LedInv, GreenShown, YellowShown, Snn
<1> QED
  BY <1>2, <1>3 DEF NodeInv

-----------------------------------------------------------------------------
(* Every step preserves the invariant.                                     *)

\* A full set of NVs makes a configuration and leaves number and mode alone.
LEMMA WithNVsConfig ==
  ASSUME NEW c \in Config, NEW n \in NVs
  PROVE  /\ WithNVs(c, n) \in Config
         /\ WithNVs(c, n).node_number = c.node_number
         /\ WithNVs(c, n).node_mode = c.node_mode
<1>1. NvToApMode(n) \in BOOLEAN /\ NvToEdserver(n) \in BOOLEAN
  BY DEF NvToApMode, NvToEdserver
<1>2. n.port \in Ports
  BY DEF NVs
<1> QED
  BY <1>1, <1>2 DEF WithNVs, Config

\* Number, mode, map and file.
LEMMA StoreStep ==
  ASSUME NodeInv, Serialized, [Next]_vars
  PROVE  StoreInv'
<1> USE DEF NodeInv, StoreInv, StoreTypeOK, OneAtATime, MapIsFile, NumberInv,
            FlimHasNumber, store, nodeVariables, enumeration, command, run, ButtonMay,
            Snn, SnnStep, LedStep, Command, ReaderMay
<1>1. CASE FinishSelfEnum
  BY <1>1 DEF FinishSelfEnum, LoadConfig, lights
<1>2. CASE Press \/ Hold \/ ReleaseEnum \/ ReleaseLong
  BY <1>2 DEF Press, Hold, ReleaseEnum, ReleaseLong, lights
<1>3. CASE BlinkTest \/ BlinkWrite \/ StartTest \/ StartBlinking \/ StartGreen
  BY <1>3 DEF BlinkTest, BlinkWrite, StartTest, StartBlinking, StartGreen, Goto
<1>4. CASE ReleaseShort \/ ReadMode \/ ShowGreen \/ ShowYellow
  BY <1>4 DEF ReleaseShort, ReadMode, ShowGreen, ShowYellow, Goto
<1>5. CASE LeaveFlim
  BY <1>5 DEF LeaveFlim, SetNodeMode, SaveConfig, Config, Modes, Goto
<1>6. CASE LeaveSetup
  BY <1>6 DEF LeaveSetup, Goto
<1>7. CASE DropNumber
  BY <1>7, ConfigAssumption DEF DropNumber, SetNodeNumber, SaveConfig, Config, Modes, Goto
<1>8. ASSUME NEW n \in Numbers \ {DefaultNN}, SetNumber(n)
      PROVE  StoreInv'
  BY <1>8 DEF SetNumber, SetNodeNumber, SaveConfig, Config, Modes
<1>9. CASE LeaveSetupMode \/ GreenOff \/ YellowOn
  BY <1>9 DEF LeaveSetupMode, GreenOff, YellowOn
<1>10. CASE EnterFlim
  BY <1>10 DEF EnterFlim, SetNodeMode, SaveConfig, Config, Modes
<1>11. ASSUME NEW id \in CanIds, CanidCommand(id)
       PROVE  StoreInv'
  BY <1>11 DEF CanidCommand, SetCanID, Config, Modes, lights
<1>12. ASSUME NEW i \in NvIndex, NEW v \in NvValues(i), NvSet(i, v)
       PROVE  StoreInv'
  <2>1. nv' \in NVs
    BY <1>12, ConfigAssumption DEF NvSet, WriteNV, NVs, NvIndex, NvValues
  <2>2. CASE nvs_set' = 0
    <3>1. /\ WithNVs(file, nv') \in Config
          /\ WithNVs(file, nv').node_number = file.node_number
          /\ WithNVs(file, nv').node_mode = file.node_mode
      BY <2>1, WithNVsConfig
    <3> QED
      BY <1>12, <2>1, <2>2, <3>1 DEF NvSet, FullSet, lights
  <2>3. CASE nvs_set' # 0
    BY <1>12, <2>1, <2>3 DEF NvSet, FullSet, lights
  <2> QED
    BY <2>2, <2>3
<1>13. CASE EnumCommand \/ ShutdownCommand
  BY <1>13 DEF EnumCommand, ShutdownCommand, lights
<1>14. CASE Commit
  BY <1>14 DEF Commit, SaveConfig, lights
<1>15. CASE Restart
  BY <1>15 DEF Restart, LoadConfig, LoadParams, LoadParam1, Config, NVs, Bits
<1>16. CASE UNCHANGED vars
  BY <1>16 DEF vars, lights
<1> QED
  BY <1>1, <1>2, <1>3, <1>4, <1>5, <1>6, <1>7, <1>8, <1>9, <1>10, <1>11, <1>12, <1>13,
     <1>14, <1>15, <1>16 DEF Next, ButtonNext, ReaderNext

\* The LEDs: the writes of one thread between the steps of the other.
LEMMA LedsStep ==
  ASSUME NodeInv, Serialized, [Next]_vars
  PROVE  StepInv' /\ LedInv'
<1> USE DEF NodeInv, StoreInv, StepInv, LedInv, GreenShown, YellowShown, Snn, Written
<1>1. CASE FinishSelfEnum
  BY <1>1 DEF FinishSelfEnum, lights, leds, command
<1>2. CASE Press \/ Hold \/ ReleaseEnum
  BY <1>2 DEF Press, Hold, ReleaseEnum, lights, leds, setup, store, command
<1>3. CASE ReleaseLong
  BY <1>3 DEF ReleaseLong, lights, leds, store, command
<1>4. CASE BlinkTest
  BY <1>4 DEF BlinkTest, LedStep, Goto, leds, store, command
<1>5. CASE BlinkWrite
  BY <1>5 DEF BlinkWrite, LedStep, Goto, leds, store, command
<1>6. CASE StartTest
  BY <1>6 DEF StartTest, LedStep, Goto, leds, store, command
<1>7. CASE StartBlinking
  BY <1>7 DEF StartBlinking, LedStep, Goto, leds, store, command
<1>8. CASE StartGreen
  BY <1>8 DEF StartGreen, LedStep, Goto, leds, store, command
<1>9. CASE ReleaseShort
  BY <1>9 DEF ReleaseShort, Goto, leds, store, command
<1>10. CASE ReadMode
  BY <1>10 DEF ReadMode, LedStep, Goto, leds, store, command, MapIsFile
<1>11. CASE ShowGreen
  BY <1>11 DEF ShowGreen, LedStep, Goto, leds, store, command
<1>12. CASE ShowYellow
  <2>1. file.node_mode \in {"SLIM", "FLIM"}
    BY DEF StoreTypeOK, Config, Modes
  <2> QED
    BY <1>12, <2>1 DEF ShowYellow, LedStep, Goto, leds, store, command
<1>13. CASE LeaveFlim
  <2>1. reader = "top" /\ reader' = "top" /\ step = "loop" /\ step' = "green"
    BY <1>13 DEF LeaveFlim, ButtonMay, Goto, command
  <2>2. seen' = TRUE /\ file'.node_mode = "SLIM"
    BY <1>13 DEF LeaveFlim, Goto, SetNodeMode, SaveConfig, StoreTypeOK, Config
  <2> QED
    BY <2>1, <2>2
<1>14. CASE LeaveSetup
  BY <1>14 DEF LeaveSetup, Goto, leds, store, command
<1>15. CASE DropNumber
  <2>1. file'.node_mode = file.node_mode
    BY <1>15 DEF DropNumber, SetNodeNumber, SaveConfig, StoreTypeOK, Config, MapIsFile
  <2> QED
    BY <1>15, <2>1 DEF DropNumber, Goto, leds, setup, command
<1>16. ASSUME NEW n \in Numbers, SetNumber(n) PROVE StepInv' /\ LedInv'
  <2>1. file'.node_mode = file.node_mode
    BY <1>16 DEF SetNumber, SetNodeNumber, SaveConfig, StoreTypeOK, Config, MapIsFile
  <2> QED
    BY <1>16, <2>1 DEF SetNumber, leds, setup, Command
<1>17. CASE LeaveSetupMode
  BY <1>17 DEF LeaveSetupMode, SnnStep, leds, store
<1>18. CASE GreenOff
  BY <1>18 DEF GreenOff, SnnStep, setup, store
<1>19. CASE YellowOn
  BY <1>19 DEF YellowOn, SnnStep, setup, store
<1>20. CASE EnterFlim
  <2>1. file'.node_mode = "FLIM"
    BY <1>20 DEF EnterFlim, SetNodeMode, SaveConfig, StoreTypeOK, Config
  <2> QED
    BY <1>20, <2>1 DEF EnterFlim, SnnStep, setup, leds
<1>21. ASSUME NEW id \in CanIds, CanidCommand(id) PROVE StepInv' /\ LedInv'
  <2>1. file'.node_mode = file.node_mode
    BY <1>21 DEF CanidCommand, SetCanID, StoreTypeOK, Config, MapIsFile
  <2> QED
    BY <1>21, <2>1 DEF CanidCommand, lights, leds, setup, command
<1>22. ASSUME NEW i \in NvIndex, NEW v \in NvValues(i), NvSet(i, v)
       PROVE  StepInv' /\ LedInv'
  BY <1>22 DEF NvSet, Command, lights, leds, setup, command
<1>23. CASE EnumCommand \/ ShutdownCommand
  BY <1>23 DEF EnumCommand, ShutdownCommand, lights, leds, setup, store, command
<1>24. CASE Commit
  <2>1. file'.node_mode = file.node_mode
    BY <1>24 DEF Commit, SaveConfig, MapIsFile
  <2> QED
    BY <1>24, <2>1 DEF Commit, lights, leds, setup
<1>25. CASE Restart
  BY <1>25 DEF Restart
<1>26. CASE UNCHANGED vars
  BY <1>26 DEF vars, lights, leds, setup, store, command
<1> QED
  BY <1>1, <1>2, <1>3, <1>4, <1>5, <1>6, <1>7, <1>8, <1>9, <1>10, <1>11, <1>12, <1>13,
     <1>14, <1>15, <1>16, <1>17, <1>18, <1>19, <1>20, <1>21, <1>22, <1>23, <1>24, <1>25,
     <1>26 DEF Next, ButtonNext, ReaderNext

LEMMA SpecNodeInv == ASSUME Serialized PROVE Spec => []NodeInv
<1>1. NodeInv /\ [Next]_vars => NodeInv'
  BY StoreStep, LedsStep DEF NodeInv
<1> QED
  BY InitNodeInv, <1>1, PTL DEF Spec

-----------------------------------------------------------------------------
(* What follows from it.                                                   *)

\* While no handler is under way the node answers to the number that a
\* restart would find in canpi.cfg, and every other key but the CAN id is
\* saved as it is used (setNodeNumber, setNodeMode, setNV).
THEOREM RunningIsSaved == ASSUME Serialized PROVE Spec => []RunsAsSaved
<1>1. NodeInv => RunsAsSaved
  <2> SUFFICES ASSUME NodeInv, Idle, NEW k \in DOMAIN file \ {"canid"}
               PROVE  node_number = file.node_number /\ config[k] = file[k]
    BY DEF RunsAsSaved, NodeInv, StoreInv, NumberInv, OneAtATime, Idle
  <2>1. k \in {"node_number", "node_mode", "ap_mode", "edserver", "create_log_file", "tcpport"}
    BY DEF NodeInv, StoreInv, StoreTypeOK, Config
  <2> QED
    BY <2>1 DEF NodeInv, StoreInv, MapIsFile, NumberInv, OneAtATime, Idle
<1> QED
  BY SpecNodeInv, <1>1, PTL

\* Wherever the power fails in the two saves of SNN (handleCBUSEvents) or of
\* a long press (run_pb_logic), a node that comes back in FLIM was numbered.
THEOREM NumberedInFlim == ASSUME Serialized PROVE Spec => []FlimHasNumber
<1>1. NodeInv => FlimHasNumber
  BY DEF NodeInv, StoreInv
<1> QED
  BY SpecNodeInv, <1>1, PTL

\* A node that does not blink shows its saved mode (setPins, SNN, and the
\* presses that leave setup or FLIM), however the tests, reads and writes of
\* the two threads interleave: the exceptions are the LEDs that the button's
\* thread writes on the strength of a flag or a mode an SNN has since changed.
THEOREM ModeIsShown == ASSUME Serialized PROVE Spec => []LedsShowMode
<1>1. NodeInv => LedsShowMode
  BY DEF NodeInv, LedInv, GreenShown, YellowShown, LedsShowMode, Idle, Snn
<1> QED
  BY SpecNodeInv, <1>1, PTL

-----------------------------------------------------------------------------
(* A setting that is saved is also put into effect.                        *)

\* What a running program that started with `started` needs to be told when
\* it is to use c instead is among acts.
Told(c, acts) ==
  /\ c.ap_mode # started.ap_mode => "configure" \in acts
  /\ c.tcpport # started.tcpport \/ c.edserver # started.edserver
     => "configure" \in acts \/ "restart" \in acts

\* A commit under way has not told it yet, but knows the reason.
ApplyInv ==
  /\ Told(file, ordered)
  /\ reader = "commit" => Told(config, ordered \cup reason)

LEMMA ReasonTells ==
  ASSUME NEW c \in Config, NEW n \in NVs, Told(c, ordered)
  PROVE  Told(WithNVs(c, n), ordered \cup Reason(c, n))
<1>1. /\ WithNVs(c, n).ap_mode = NvToApMode(n)
      /\ WithNVs(c, n).edserver = NvToEdserver(n)
      /\ WithNVs(c, n).tcpport = n.port
  BY DEF WithNVs, Config
<1>2. Reason(c, n) = {"configure"} \/ c.ap_mode = NvToApMode(n)
  BY DEF Reason
<1>3. \/ "configure" \in Reason(c, n) \/ "restart" \in Reason(c, n)
      \/ c.edserver = NvToEdserver(n) /\ c.tcpport = n.port
  BY DEF Reason
<1> QED
  BY <1>1, <1>2, <1>3 DEF Told

LEMMA ApplyStep ==
  ASSUME NodeInv, ApplyInv, Serialized, [Next]_vars
  PROVE  ApplyInv'
<1> USE DEF NodeInv, StoreInv, StoreTypeOK, OneAtATime, MapIsFile, ApplyInv, Told,
            store, nodeVariables, enumeration, command, run
<1>1. CASE FinishSelfEnum
  BY <1>1 DEF FinishSelfEnum, LoadConfig, ButtonMay
<1>2. CASE \/ Press \/ Hold \/ ReleaseShort \/ ReleaseEnum \/ ReleaseLong \/ LeaveSetup
           \/ BlinkTest \/ BlinkWrite \/ StartTest \/ StartBlinking \/ StartGreen
           \/ ReadMode \/ ShowGreen \/ ShowYellow
  BY <1>2 DEF Press, Hold, ReleaseShort, ReleaseEnum, ReleaseLong, LeaveSetup, BlinkTest,
              BlinkWrite, StartTest, StartBlinking, StartGreen, ReadMode, ShowGreen,
              ShowYellow, LedStep
<1>3. CASE LeaveFlim \/ DropNumber
  <2>1. reader = "top" /\ UNCHANGED <<reader, reason, started, ordered>>
    BY <1>3 DEF LeaveFlim, DropNumber, ButtonMay
  <2>2. /\ file'.ap_mode = file.ap_mode /\ file'.tcpport = file.tcpport
        /\ file'.edserver = file.edserver
    BY <1>3, <2>1 DEF LeaveFlim, DropNumber, SetNodeMode, SetNodeNumber, SaveConfig, Config
  <2> QED
    BY <2>1, <2>2
<1>4. CASE EnterFlim \/ \E n \in Numbers \ {DefaultNN} : SetNumber(n)
  <2>1. reader # "commit" /\ reader' # "commit" /\ UNCHANGED <<started, ordered>>
    BY <1>4 DEF EnterFlim, SetNumber, Command, SnnStep
  <2>2. /\ file'.ap_mode = file.ap_mode /\ file'.tcpport = file.tcpport
        /\ file'.edserver = file.edserver
    BY <1>4, <2>1
    DEF EnterFlim, SetNumber, Command, SnnStep, SetNodeMode, SetNodeNumber, SaveConfig, Config
  <2> QED
    BY <2>1, <2>2
<1>5. ASSUME NEW id \in CanIds, CanidCommand(id) PROVE ApplyInv'
  BY <1>5 DEF CanidCommand, SetCanID, Command
<1>6. ASSUME NEW i \in NvIndex, NEW v \in NvValues(i), NvSet(i, v) PROVE ApplyInv'
  <2>1. nv' \in NVs /\ reader = "top" /\ UNCHANGED <<file, started, ordered>>
    BY <1>6, ConfigAssumption DEF NvSet, Command, WriteNV, NVs, NvIndex, NvValues
  <2>2. CASE nvs_set' = 0
    <3>1. config' = WithNVs(file, nv') /\ reason' = Reason(file, nv')
      BY <1>6, <2>2 DEF NvSet, FullSet
    <3>2. Told(file, ordered)
      OBVIOUS
    <3>3. Told(WithNVs(file, nv'), ordered \cup Reason(file, nv'))
      BY <2>1, <3>2, ReasonTells
    <3> QED
      BY <2>1, <3>1, <3>3
  <2>3. CASE nvs_set' # 0
    BY <1>6, <2>1, <2>3 DEF NvSet, FullSet
  <2> QED
    BY <2>2, <2>3
<1>7. CASE EnumCommand
  BY <1>7 DEF EnumCommand
<1>8. CASE Commit
  BY <1>8 DEF Commit, SaveConfig
<1>9. CASE ShutdownCommand
  BY <1>9 DEF ShutdownCommand, Command
<1>10. CASE Restart
  BY <1>10 DEF Restart
<1>11. CASE LeaveSetupMode \/ GreenOff \/ YellowOn
  BY <1>11 DEF LeaveSetupMode, GreenOff, YellowOn, SnnStep
<1>12. CASE UNCHANGED vars
  BY <1>12 DEF vars
<1> QED
  BY <1>1, <1>2, <1>3, <1>4, <1>5, <1>6, <1>7, <1>8, <1>9, <1>10, <1>11, <1>12
  DEF Next, ButtonNext, ReaderNext

\* A setting that was changed since the program started has ordered the new
\* network configuration or the restart it needs (setNV, NVSET).
THEOREM SavedIsOrdered == ASSUME Serialized PROVE Spec => []ChangesAreApplied
<1>1. Init => ApplyInv
  BY DEF Init, StartConfig, ApplyInv, Told
<1>2. ApplyInv => ChangesAreApplied
  BY DEF ApplyInv, Told, ChangesAreApplied, Idle
<1> QED
  BY <1>1, <1>2, ApplyStep, SpecNodeInv, PTL DEF Spec

-----------------------------------------------------------------------------
(* Types, whatever the two threads do to each other.                       *)

LEMMA NvCount == Cardinality(NvIndex) = 2
<1>1. {"flags"} = {} \cup {"flags"} /\ NvIndex = {"flags"} \cup {"port"}
  BY DEF NvIndex
<1>2. IsFiniteSet({"flags"}) /\ Cardinality({"flags"}) = 1
  BY FS_Singleton
<1> QED
  BY <1>1, <1>2, FS_AddElement

Booleans == /\ {setup_mode, blinking, auto_enum_mode, soft_auto_enum, gl, yl} \subseteq BOOLEAN
            /\ seen \in BOOLEAN /\ overtaken \in BOOLEAN

LEMMA TypeStep == TypeOK /\ [Next]_vars => TypeOK'
<1> SUFFICES ASSUME TypeOK, [Next]_vars PROVE TypeOK'
  OBVIOUS
<1> USE NodeAssumption, ConfigAssumption
    DEF TypeOK, ConfigTypeOK, store, nodeVariables, setup, leds, lights, enumeration, command,
        run, Event, ButtonPoints, ReaderPoints, LedPoints, Snn, Goto, Written
<1>1. CASE FinishSelfEnum
  <2>1. Booleans'
    BY <1>1 DEF FinishSelfEnum, Booleans
  <2> QED
    BY <1>1, <2>1 DEF FinishSelfEnum, LoadConfig, Config, Booleans
<1>2. CASE Press \/ Hold
  <2>1. Booleans'
    BY <1>2 DEF Press, Hold, Booleans
  <2>2. button' \in ButtonPoints /\ events' \in 0..MaxEvents
    BY <1>2 DEF Press, Hold
  <2>3. UNCHANGED <<config, file, nv, nvs_set, node_number, canId, step, late, reader, tnn,
                    reason, started, ordered>>
    BY <1>2 DEF Press, Hold
  <2> QED
    BY <2>1, <2>2, <2>3 DEF Booleans
<1>3. CASE BlinkTest \/ BlinkWrite \/ StartTest \/ StartBlinking \/ StartGreen
  BY <1>3 DEF BlinkTest, BlinkWrite, StartTest, StartBlinking, StartGreen, LedStep
<1>4. CASE ReleaseShort \/ ReadMode \/ ShowGreen \/ ShowYellow
  BY <1>4 DEF ReleaseShort, ReadMode, ShowGreen, ShowYellow, LedStep
<1>5. CASE ReleaseEnum \/ ReleaseLong
  BY <1>5 DEF ReleaseEnum, ReleaseLong, DoSelfEnum
<1>6. CASE LeaveFlim
  BY <1>6 DEF LeaveFlim, SetNodeMode, SaveConfig, Config, Modes
<1>7. CASE LeaveSetup \/ DropNumber
  BY <1>7 DEF LeaveSetup, DropNumber, SetNodeNumber, SaveConfig, Config
<1>8. ASSUME NEW n \in Numbers, SetNumber(n) PROVE TypeOK'
  BY <1>8 DEF SetNumber, Command, SetNodeNumber, SaveConfig, Config
<1>9. ASSUME NEW id \in CanIds, CanidCommand(id) PROVE TypeOK'
  BY <1>9 DEF CanidCommand, Command, SetCanID, Config
<1>10. ASSUME NEW i \in NvIndex, NEW v \in NvValues(i), NvSet(i, v) PROVE TypeOK'
  <2>1. nv' \in NVs
    BY <1>10 DEF NvSet, WriteNV, NVs, NvIndex, NvValues
  <2>2. nvs_set' \in 0..(Cardinality(NvIndex) - 1)
    BY <1>10, NvCount DEF NvSet, WriteNV
  <2>3. config' \in Config /\ reader' \in ReaderPoints /\ tnn' \in Numbers
    BY <1>10, <2>1, WithNVsConfig DEF NvSet
  <2>4. reason' \subseteq Actions
    BY <1>10 DEF NvSet, Reason, Actions
  <2> QED
    BY <1>10, <2>1, <2>2, <2>3, <2>4 DEF NvSet, Command
<1>11. CASE LeaveSetupMode \/ GreenOff \/ YellowOn \/ EnterFlim
  <2> USE DEF LeaveSetupMode, GreenOff, YellowOn, EnterFlim, SnnStep
  <2>1. Booleans'
    BY <1>11 DEF Booleans
  <2>2. config' \in Config /\ file' \in Config
    BY <1>11 DEF SetNodeMode, SaveConfig, Config, Modes
  <2>3. reader' \in ReaderPoints /\ tnn' \in Numbers /\ node_number' \in Numbers
    BY <1>11
  <2> QED
    BY <1>11, <2>1, <2>2, <2>3 DEF Booleans
<1>12. CASE EnumCommand \/ ShutdownCommand
  <2>1. CASE EnumCommand
    <3>1. /\ soft_auto_enum' \in BOOLEAN /\ auto_enum_mode' \in BOOLEAN
          /\ {setup_mode, blinking, gl, yl}' \subseteq BOOLEAN
      BY <2>1 DEF EnumCommand, DoSelfEnum
    <3> QED
      BY <2>1, <3>1 DEF EnumCommand, Command
  <2>2. CASE ShutdownCommand
    BY <2>2 DEF ShutdownCommand, Command, Actions
  <2> QED
    BY <1>12, <2>1, <2>2
<1>13. CASE Commit
  BY <1>13 DEF Commit, SaveConfig
<1>14. CASE Restart
  <2>1. LoadParams(file) \in NVs
    BY DEF LoadParams, LoadParam1, NVs, Bits, Config
  <2>2. file.node_number \in Numbers /\ file.canid \in CanIds
    BY DEF Config
  <2> QED
    <3>1. Booleans'
      BY <1>14 DEF Restart, Booleans
    <3>2. ConfigTypeOK'
      BY <1>14, <2>1, NvCount DEF Restart, LoadConfig
    <3> QED
      BY <1>14, <2>2, <3>1, <3>2 DEF Restart, Booleans
<1>15. CASE UNCHANGED vars
  BY <1>15 DEF vars
<1> QED
  BY <1>1, <1>2, <1>3, <1>4, <1>5, <1>6, <1>7, <1>8, <1>9, <1>10, <1>11, <1>12, <1>13, <1>14,
     <1>15 DEF Next, ButtonNext, ReaderNext

\* Map, file, node variables, flags and program points keep their types, in
\* turn or not (canHandler, nodeConfigurator).
THEOREM NodeTyped == Spec => []TypeOK
<1>1. Init => TypeOK
  <2> SUFFICES ASSUME Init PROVE TypeOK
    OBVIOUS
  <2>1. PICK c \in FirstFiles :
          /\ StartConfig(c) /\ node_number = c.node_number /\ canId = c.canid
          /\ gl = (c.node_mode = "SLIM") /\ yl = (c.node_mode = "FLIM") /\ started = c
    BY DEF Init
  <2>2. c \in Config /\ LoadParams(c) \in NVs
    BY NodeAssumption DEF LoadParams, LoadParam1, NVs, Bits, Config
  <2>3. ConfigTypeOK
    BY <2>1, <2>2, NvCount DEF ConfigTypeOK, StartConfig
  <2> QED
    <3>1. Booleans
      BY <2>1 DEF Init, Booleans
    <3>2. node_number \in Numbers /\ canId \in CanIds /\ started \in Config
      BY <2>1, <2>2 DEF Config
    <3> QED
      BY <2>3, <3>1, <3>2, NodeAssumption, ConfigAssumption
      DEF Init, TypeOK, ButtonPoints, ReaderPoints, LedPoints, Booleans
<1> QED
  BY <1>1, TypeStep, PTL DEF Spec

=============================================================================
