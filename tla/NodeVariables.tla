---------------------------- MODULE NodeVariables ----------------------------
(***************************************************************************)
(* Programming the node variables: a configuration tool on the CBUS reads  *)
(* the variables (NVRD), changes one setting and writes all of them back   *)
(* (NVSET), one at a time; the web page changes settings in canpi.cfg; the *)
(* program restarts at any point. NodeConfig has the same for two of the   *)
(* variables, next to what else changes the configuration.                 *)
(*                                                                         *)
(* The tool places its change as the comment of nodeConfigurator.h lays    *)
(* the variables out, where the ED server is bit 6 of the first.           *)
(***************************************************************************)
EXTENDS NvLayout

CONSTANTS FirstFiles,  \* what canpi.cfg may hold at first
          ToolEdits,   \* what users enter into a tool: pairs of key and value
          PageEdits,   \* what they enter into the web page
          Heap,        \* what memory that nothing is written to may hold
          Whole,       \* assumed: a tool that begins a set ends it, and starts
                       \*   over when the program has restarted meanwhile
          Applied,     \* assumed: nothing is changed on the page during a set,
                       \*   nor since the program started when a set begins
          MaxEvents    \* bound of the model: changes, restarts

\* Types of the settings.
Value(k) ==
  CASE k \in Switches -> BOOLEAN
    [] k \in Ports -> Word
    [] k = "ap_channel" -> Byte
    [] k \in Texts -> Seq(Character)
    [] k = "loglevel" -> {"NOTSET", "DEBUG", "INFO", "NOTICE", "WARN"}
    [] k = "fn_momentary" -> SUBSET (0..31)

\* What a tool finds room for in the variables.
LogBits == [INFO |-> 0, WARN |-> 4, DEBUG |-> 8]
Room(k) ==
  CASE k \in Texts -> {s \in Value(k) : Len(s) <= Size[k]}
    [] k = "loglevel" -> DOMAIN LogBits
    [] k = "fn_momentary" -> SUBSET (0..28)
    [] OTHER -> Value(k)

ASSUME NodeVariablesAssumption ==
  /\ \A c \in FirstFiles : DOMAIN c \subseteq Keys /\ \A k \in DOMAIN c : c[k] \in Value(k)
  /\ \A e \in ToolEdits : e[1] \in Keys \ Unset /\ e[2] \in Room(e[1])
  /\ \A e \in PageEdits : e[1] \in Keys /\ e[2] \in Value(e[1])
  /\ Heap \subseteq Byte /\ Heap # {}
  /\ {Whole, Applied} \subseteq BOOLEAN /\ MaxEvents \in Nat

VARIABLES
  config,   \* the map in memory
  file,     \* canpi.cfg
  nv,       \* NV
  nvs_set,  \* NVs written since the last full set
  out,      \* what the tool is writing
  at,       \* the NV it writes next, or 0
  edited,   \* whether the page has changed the file since the program started
  meant,    \* history: what users have entered last
  events

vars == <<config, file, nv, nvs_set, out, at, edited, meant, events>>

TypeOK ==
  /\ \A c \in {config, file, meant} :
       DOMAIN c \subseteq Keys /\ \A k \in DOMAIN c : c[k] \in Value(k)
  /\ {nv, out} \subseteq [NvIndex -> Byte]
  /\ nvs_set \in NvIndex /\ at \in 0..NVS_SIZE
  /\ edited \in BOOLEAN /\ events \in 0..MaxEvents

\* The constructor: the file is read and the variables are filled.
Fill(c, array) == \E h \in Heap : array = LoadParams(c, [b \in 1..4 |-> h])

Init ==
  /\ file \in FirstFiles
  /\ config = Cleaned(file) /\ Fill(config, nv) /\ nvs_set = 0
  /\ out = nv /\ at = 0
  /\ edited = FALSE /\ meant = file
  /\ events = 0

Event == events < MaxEvents /\ events' = events + 1

-----------------------------------------------------------------------------
(* The tool.                                                               *)

FlagBit == [ap_mode |-> 0, can_grid |-> 1, ap_no_password |-> 4, edserver |-> 6]

\* The variables n with the change of k to v.
WithEdit(n, k, v) ==
  LET p1 == n[At.flags] IN
  CASE k \in Switches ->
         Put(n, "flags", <<p1 - Flag(Bit(p1, FlagBit[k]), FlagBit[k]) + Flag(v, FlagBit[k])>>)
    [] k = "loglevel" ->
         Put(n, "flags", <<p1 - Flag(Bit(p1, 2), 2) - Flag(Bit(p1, 3), 3) + LogBits[v]>>)
    [] OTHER -> Put(n, k, FieldBytes(k, v, <<0, 0, 0, 0>>))

\* It reads the variables, and begins to write them; unless Whole, it may have
\* left a set before.
ToolStarts(k, v) ==
  /\ Event /\ (Whole => at = 0) /\ (Applied => ~edited)
  /\ out' = WithEdit(nv, k, v) /\ at' = 1
  /\ meant' = IF k \in DOMAIN meant THEN [meant EXCEPT ![k] = v] ELSE meant
  /\ UNCHANGED <<config, file, nv, nvs_set, edited>>

\* Mutant: the count is tested before it is reset.
OneLate ==
  /\ at # 0
  /\ nv' = [nv EXCEPT ![at - 1] = out[at - 1]]
  /\ nvs_set' = nvs_set + 1
  /\ at' = (at + 1) % (NVS_SIZE + 1)
  /\ UNCHANGED <<config, file, out, edited, meant, events>>

\* NVSET: setNV counts, and the write that completes a set loads the file,
\* sets what the variables hold, and saves.
NvSet ==
  /\ at # 0
  /\ nv' = [nv EXCEPT ![at - 1] = out[at - 1]]
  /\ nvs_set' = (nvs_set + 1) % NVS_SIZE
  /\ IF nvs_set' = 0
       THEN file' = WithNVs(Cleaned(file), nv') /\ config' = Cleaned(file')
       ELSE UNCHANGED <<config, file>>
  /\ at' = (at + 1) % (NVS_SIZE + 1)
  /\ UNCHANGED <<out, edited, meant, events>>

-----------------------------------------------------------------------------
(* The page and the program's restart.                                     *)

\* What the page shows for a key that the file lacks: not what the program
\* takes for it.
PageDefault ==
  [k \in Keys |-> CASE k \in Switches -> TRUE
                    [] k = "loglevel" -> "INFO"
                    [] k = "ap_ssid" -> <<99, 97, 110, 112, 105, 119, 105>>
                    [] k = "ap_password" -> <<49, 50, 51, 52, 53, 54, 55, 56>>
                    [] k = "service_name" -> <<77, 121, 76, 97, 121, 111, 117, 116>>
                    [] k = "fn_momentary" -> {2}
                    [] OTHER -> Default[k]]

\* The form: the file as the page reads it, without quotes and semicolons.
Form(c) ==
  [k \in Keys |-> IF k \notin DOMAIN c THEN PageDefault[k]
                  ELSE IF k \in Texts THEN Without(c[k], {34, 59})
                  ELSE c[k]]

Valid(form) ==
  /\ Len(form.ap_ssid) \in 1..8 /\ Len(form.turnout_file) \in 1..11
  /\ form.ap_mode => Len(form.ap_password) = 8 \/ form.ap_no_password
  /\ {form.tcpport, form.cangrid_port} \subseteq 1..65535 \ {21, 22, 80}
  /\ form.tcpport # form.cangrid_port
  /\ form.start_event_id \in 1..65535

PageSaves(k, v) ==
  /\ Event /\ (Applied => at = 0)
  /\ file' = [Form(file) EXCEPT ![k] = v] /\ Valid(file')
  /\ meant' = [x \in Keys |-> IF x \in DOMAIN meant /\ x # k THEN meant[x] ELSE file'[x]]
  /\ edited' = TRUE
  /\ UNCHANGED <<config, nv, nvs_set, out, at>>

Restart ==
  /\ Event
  /\ config' = Cleaned(file) /\ Fill(config', nv') /\ nvs_set' = 0
  /\ edited' = FALSE
  /\ at' = IF Whole /\ at # 0 THEN 1 ELSE at
  /\ UNCHANGED <<file, out, meant>>

Next ==
  \/ \E e \in ToolEdits : ToolStarts(e[1], e[2])
  \/ \E e \in PageEdits : PageSaves(e[1], e[2])
  \/ NvSet \/ Restart

Spec == Init /\ [][Next]_vars

-----------------------------------------------------------------------------
(* Properties.                                                             *)

\* What the variables cannot express: texts longer than their field, levels
\* of the log that have no code, functions above F28 and the empty list, no
\* name for the turnout file, which is shown as the default, and the ED server
\* switched on, which is shown as another bit than it is read from.
Expressible(k, v) ==
  CASE k = "turnout_file" -> Len(Clean(v)) \in 1..Size[k]
    [] k \in Texts \ {"turnout_file"} -> Len(Clean(v)) <= Size[k]
    [] k = "loglevel" -> v \in DOMAIN LogBits
    [] k = "fn_momentary" -> v # {} /\ v \subseteq 0..28
    [] k = "edserver" -> ~v
    [] OTHER -> TRUE

\* Between sets, canpi.cfg holds what users have entered last, into a tool or
\* the page, for every setting that the variables can express: a set of
\* variables changes the setting that the tool has changed and no other,
\* through any number of sets, changes of the file and restarts.
SetIsSaved ==
  at = 0 => \A k \in DOMAIN file :
              Expressible(k, meant[k]) =>
                Cleaned(file)[k] = Cleaned(meant)[k]

=============================================================================
