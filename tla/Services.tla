------------------------------ MODULE Services ------------------------------
(***************************************************************************)
(* start_canpi.sh: the script that starts and stops the daemon and the web *)
(* page, sets up the network from canpi.cfg and installs upgrades. It runs *)
(* when the Pi boots, from the buttons of the page, from the daemon after  *)
(* node variables were programmed, and by hand; the power may fail         *)
(* between any two of its steps and within those that write a file.        *)
(*                                                                         *)
(* A running script is the sequence of the steps it has still to do. The   *)
(* daemon runs under a sudo whose pid is in the pid file; sudo passes      *)
(* SIGTERM on and ends with the daemon, but SIGKILL hits sudo alone.       *)
(***************************************************************************)
EXTENDS Naturals, Sequences, FiniteSets, SequencesExt

CONSTANTS
  Shells,     \* scripts that may run at a time
  Pids,       \* daemons that may exist at a time, each with its sudo
  None,
  Ports,      \* ports users may enter
  Prompt,     \* TRUE: the daemon ends within ten seconds of SIGTERM
  MaxEvents   \* bound of the model: edits, commands, uploads, power failures

ASSUME ServicesAssumption ==
  /\ Shells # {} /\ Pids # {} /\ None \notin Pids
  /\ Prompt \in BOOLEAN /\ MaxEvents \in Nat

Settings == [ap_mode : BOOLEAN, ap_no_password : BOOLEAN, tcpport : Ports]
Keys == {"ap_mode", "ap_no_password", "tcpport"}
Network == {"ap_mode", "ap_no_password"}
ApServices == {"hostapd", "isc-dhcp-server"}

\* A program is good, or broken: it ends as soon as it is started.
Programs == {"good", "broken"}

VARIABLES
  on,        \* the Pi has power
  file,      \* canpi.cfg
  todo,      \* [Shells -> the steps the script has still to do]
  cfg,       \* [Shells -> the settings as it has sourced them]
  daemons,   \* a function from the pids of daemons to [bin, termed]
  sudos,     \* the pids of those whose sudo runs
  pid_file,
  web,       \* the web page is up
  iface,     \* /etc/network/interfaces: "ap", "wifi" or lost
  hostapd,   \* hostapd.conf: "open", "password" or lost
  enabled,   \* the services of the access point that start at boot
  bonjour,   \* the port in the Bonjour file
  canpi,     \* the program that is installed, or "lost"
  backup,    \* canpi.bkp
  zip,       \* the newest upgrade file, by the program in it; "without" one
  unpacked,  \* the program among the unpacked files
  unapplied, \* history: settings changed since a script has sourced them to
             \*   apply them, or whose application was cut short
  mishaps,   \* history: broken uploads, power failures during an upgrade
  events

procs == <<daemons, sudos, pid_file>>
net == <<iface, hostapd, enabled>>
upgrade == <<canpi, backup, zip, unpacked>>
vars == <<on, file, todo, cfg, procs, web, net, bonjour, upgrade, unapplied,
          mishaps, events>>

-----------------------------------------------------------------------------
(* The commands of the script.                                             *)

Start == <<"bonjour", "start web", "start", "started?">>
StopCanpi == <<"term", "wait">>
Stop == <<"stop web">> \o StopCanpi \o <<"kill all">>
SetupApMode == <<"iface ap", "hostapd.conf", "enable hostapd", "enable dhcp">>

\* Mutant: the services of the access point stay enabled.
SetupWifiModeOnly == <<"iface wifi">>
SetupWifiMode == <<"iface wifi", "disable hostapd", "disable dhcp">>

Reconfigure == <<"sed ap_mode">> \o SetupApMode \o <<"bonjour", "reboot">>
Configure(c) ==
  (IF c.ap_mode THEN SetupApMode ELSE SetupWifiMode) \o <<"bonjour", "reboot">>
ApplyUpgrade ==
  <<"unzip">> \o StopCanpi
    \o <<"move aside", "copy", "start", "recovered?", "clean">>

Commands == {"start", "stop", "startcanpi", "stopcanpi", "restartcanpi",
             "restart", "configure", "shutdown"}
Script(command, c) ==
  CASE command = "start" -> Start
    [] command = "stop" -> Stop
    [] command = "startcanpi" -> <<"bonjour", "start", "started?">>
    [] command = "stopcanpi" -> StopCanpi
    [] command = "restartcanpi" -> StopCanpi \o <<"stopped?", "start", "started?">>
    [] command = "restart" -> Stop \o <<"stopped?", "source">> \o Start
    [] command = "configure" -> Configure(c)
    [] command = "shutdown" -> <<"halt">>

Steps == {"start web", "start", "started?", "stop web", "term", "wait", "stopped?",
          "kill all", "source", "bonjour", "sed ap_mode", "iface ap", "iface wifi",
          "hostapd.conf", "enable hostapd", "enable dhcp", "disable hostapd",
          "disable dhcp", "unzip", "move aside", "copy", "recovered?", "clean",
          "reboot", "halt"}

-----------------------------------------------------------------------------

\* Mutant: a pid file is enough, whether its process runs or not.
HasPidFile == pid_file # None
IsRunning == pid_file \in sudos

TypeOK ==
  /\ on \in BOOLEAN /\ file \in Settings
  /\ todo \in [Shells -> Seq(Steps)] /\ cfg \in [Shells -> Settings]
  /\ DOMAIN daemons \subseteq Pids /\ sudos \subseteq DOMAIN daemons
  /\ \A p \in DOMAIN daemons : daemons[p] \in [bin : Programs, termed : BOOLEAN]
  /\ pid_file \in Pids \cup {None} /\ web \in BOOLEAN
  /\ iface \in {"ap", "wifi", "lost"} /\ hostapd \in {"open", "password", "lost"}
  /\ enabled \subseteq ApServices /\ bonjour \in Ports
  /\ {canpi, backup, unpacked} \subseteq Programs \cup {"lost"}
  /\ zip \in Programs \cup {"lost", "without"}
  /\ unapplied \subseteq Keys /\ mishaps \in 0..MaxEvents
  /\ events \in 0..MaxEvents

Idle == [s \in Shells |-> <<>>]
Mode(c) == IF c.ap_mode THEN "ap" ELSE "wifi"
Access(c) == IF c.ap_no_password THEN "open" ELSE "password"

\* A module set up as its file says, about to boot.
Init ==
  /\ on = FALSE /\ file \in Settings
  /\ todo = Idle /\ cfg = [s \in Shells |-> file]
  /\ daemons = <<>> /\ sudos = {} /\ pid_file = None /\ web = FALSE
  /\ iface = Mode(file) /\ hostapd = Access(file)
  /\ enabled = (IF file.ap_mode THEN ApServices ELSE {})
  /\ bonjour = file.tcpport
  /\ canpi = "good" /\ backup = "lost" /\ zip = "lost" /\ unpacked = "lost"
  /\ unapplied = {} /\ mishaps = 0 /\ events = 0

Event == events < MaxEvents /\ events' = events + 1

\* The script s comes to a step, and what it then has still to do.
At(s, step) == on /\ todo[s] # <<>> /\ Head(todo[s]) = step
Goes(s, steps) == todo' = [todo EXCEPT ![s] = steps]
GoesOn(s) == Goes(s, Tail(todo[s]))
Exits(s) == Goes(s, <<>>)

\* canpi.cfg is sourced; what the script then applies is what it has.
Sources(s, steps, applies) ==
  /\ Goes(s, steps)
  /\ cfg' = [cfg EXCEPT ![s] = file]
  /\ unapplied' = unapplied \ applies

\* The settings a command applies before the next boot.
Applies(command) ==
  CASE command = "configure" -> Keys
    [] command \in {"start", "startcanpi"} -> {"tcpport"}
    [] OTHER -> {}

-----------------------------------------------------------------------------
(* Who calls the script.                                                   *)

\* The web page, the daemon (restart, configure, shutdown), or a user.
Command(s, command) ==
  /\ on /\ todo[s] = <<>> /\ Event
  /\ Sources(s, Script(command, file), Applies(command))
  /\ UNCHANGED <<on, file, procs, web, net, bonjour, upgrade, mishaps>>

\* The page stores the file and calls the script.
Upload(s, program) ==
  /\ on /\ web /\ todo[s] = <<>> /\ Event
  /\ zip' = program
  /\ Sources(s, ApplyUpgrade, {})
  /\ mishaps' = mishaps + (IF program = "broken" THEN 1 ELSE 0)
  /\ UNCHANGED <<on, file, procs, web, net, bonjour, canpi, backup, unpacked>>

\* The page or the daemon saves a setting.
Edit(k, v) ==
  /\ on /\ (web \/ DOMAIN daemons # {}) /\ file[k] # v /\ Event
  /\ file' = [file EXCEPT ![k] = v]
  /\ unapplied' = unapplied \cup {k}
  /\ UNCHANGED <<on, todo, cfg, procs, web, net, bonjour, upgrade, mishaps>>

\* The Pi boots: the script starts, unless the push button is held.
Boot(s) ==
  /\ ~on /\ on' = TRUE
  /\ Sources(s, Start, {"tcpport"})
  /\ UNCHANGED <<file, procs, web, net, bonjour, upgrade, mishaps, events>>

\* reconfigure_if_pb_pressed: the password is given up in the script only.
BootPressed(s) ==
  /\ ~on /\ on' = TRUE /\ Event
  /\ Goes(s, Reconfigure)
  /\ cfg' = [cfg EXCEPT ![s] = [file EXCEPT !.ap_no_password = TRUE]]
  /\ UNCHANGED <<file, procs, web, net, bonjour, upgrade, unapplied, mishaps>>

-----------------------------------------------------------------------------
(* Power.                                                                  *)

\* Processes end; the pid file is on a file system in memory.
Off ==
  /\ on' = FALSE /\ todo' = Idle
  /\ daemons' = <<>> /\ sudos' = {} /\ pid_file' = None /\ web' = FALSE

\* A file may be lost that is being replaced, or be cut short.
Torn(step, f, value) ==
  f' \in IF \E s \in Shells : At(s, step) THEN {f, value} ELSE {f}

UnderWay(step) == \E s \in Shells : step \in ToSet(todo[s])

PowerFails ==
  /\ on /\ Event /\ Off
  /\ \/ Torn("iface ap", iface, "lost")
     \/ Torn("iface wifi", iface, "lost")
  /\ Torn("hostapd.conf", hostapd, "lost")
  /\ Torn("unzip", unpacked, IF unpacked = "lost" THEN "broken" ELSE unpacked)
  /\ Torn("copy", canpi, "broken")
  /\ unapplied' = unapplied \cup (IF UnderWay("reboot") THEN Network ELSE {})
  /\ mishaps' = mishaps + (IF UnderWay("clean") THEN 1 ELSE 0)
  /\ UNCHANGED <<file, cfg, enabled, bonjour, backup, zip>>

Halt(s) ==
  /\ At(s, "reboot") \/ At(s, "halt")
  /\ Off
  /\ UNCHANGED <<file, cfg, net, bonjour, upgrade, unapplied, mishaps, events>>

-----------------------------------------------------------------------------
(* Starting and stopping.                                                  *)

\* What follows the start of a daemon without the test of it, if one follows.
Untested(steps) ==
  IF steps # <<>> /\ Head(steps) \in {"started?", "recovered?"} THEN Tail(steps)
  ELSE steps

\* start_canpi: nothing to do and nothing to test if the daemon runs.
StartCanpi(s) ==
  /\ At(s, "start")
  /\ IF IsRunning
     THEN Goes(s, Untested(Tail(todo[s]))) /\ UNCHANGED procs
     ELSE \E p \in Pids \ DOMAIN daemons :
            /\ daemons' = [q \in DOMAIN daemons \cup {p} |->
                 IF q # p THEN daemons[q]
                 ELSE [bin |-> IF canpi = "good" THEN "good" ELSE "broken",
                       termed |-> FALSE]]
            /\ sudos' = sudos \cup {p} /\ pid_file' = p
            /\ GoesOn(s)
  /\ UNCHANGED <<on, file, cfg, web, net, bonjour, upgrade, unapplied, mishaps, events>>

\* It has not started if its sudo has ended already.
Started(s) ==
  /\ At(s, "started?")
  /\ IF IsRunning THEN GoesOn(s) ELSE Exits(s)
  /\ UNCHANGED <<on, file, cfg, procs, web, net, bonjour, upgrade, unapplied,
                 mishaps, events>>

\* stop_canpi: SIGTERM, if it runs ...
Term(s) ==
  /\ At(s, "term")
  /\ IF IsRunning
     THEN /\ daemons' = [daemons EXCEPT ![pid_file].termed = TRUE]
          /\ GoesOn(s)
     ELSE UNCHANGED daemons /\ Goes(s, Tail(Tail(todo[s])))
  /\ UNCHANGED <<on, file, cfg, sudos, pid_file, web, net, bonjour, upgrade,
                 unapplied, mishaps, events>>

\* ... and SIGKILL after ten seconds, which leaves the daemon without its sudo.
Wait(s) ==
  /\ At(s, "wait") /\ (~IsRunning \/ ~Prompt)
  /\ sudos' = sudos \ {pid_file} /\ pid_file' = None
  /\ GoesOn(s)
  /\ UNCHANGED <<on, file, cfg, daemons, web, net, bonjour, upgrade, unapplied,
                 mishaps, events>>

Stopped(s) ==
  /\ At(s, "stopped?")
  /\ IF IsRunning THEN Exits(s) ELSE GoesOn(s)
  /\ UNCHANGED <<on, file, cfg, procs, web, net, bonjour, upgrade, unapplied,
                 mishaps, events>>

\* kill_all_processes: the pids are cut out of a column, which succeeds for
\* pids of four digits.
KillAll(s) ==
  /\ At(s, "kill all")
  /\ \E K \in SUBSET DOMAIN daemons :
       /\ daemons' = [p \in DOMAIN daemons \ K |-> daemons[p]]
       /\ sudos' = sudos \ K
  /\ GoesOn(s)
  /\ UNCHANGED <<on, file, cfg, pid_file, web, net, bonjour, upgrade, unapplied,
                 mishaps, events>>

WebServer(s) ==
  /\ \/ At(s, "start web") /\ web' = TRUE
     \/ At(s, "stop web") /\ web' = FALSE
  /\ GoesOn(s)
  /\ UNCHANGED <<on, file, cfg, procs, net, bonjour, upgrade, unapplied, mishaps, events>>

\* restart calls the script again, which sources canpi.cfg again.
SourceAgain(s) ==
  /\ At(s, "source")
  /\ Sources(s, Tail(todo[s]), {"tcpport"})
  /\ UNCHANGED <<on, file, procs, web, net, bonjour, upgrade, mishaps, events>>

\* The daemon ends after SIGTERM, a broken one at once.
DaemonEnds(p) ==
  /\ p \in DOMAIN daemons /\ (daemons[p].termed \/ daemons[p].bin = "broken")
  /\ daemons' = [q \in DOMAIN daemons \ {p} |-> daemons[q]]
  /\ sudos' = sudos \ {p}
  /\ UNCHANGED <<on, file, todo, cfg, pid_file, web, net, bonjour, upgrade,
                 unapplied, mishaps, events>>

-----------------------------------------------------------------------------
(* The network.                                                            *)

SetupBonjour(s) ==
  /\ At(s, "bonjour") /\ bonjour' = cfg[s].tcpport
  /\ GoesOn(s)
  /\ UNCHANGED <<on, file, cfg, procs, web, net, upgrade, unapplied, mishaps, events>>

SetupIface(s) ==
  /\ \/ At(s, "iface ap") /\ iface' = "ap"
     \/ At(s, "iface wifi") /\ iface' = "wifi"
  /\ GoesOn(s)
  /\ UNCHANGED <<on, file, cfg, procs, web, hostapd, enabled, bonjour, upgrade,
                 unapplied, mishaps, events>>

SetupHostapd(s) ==
  /\ At(s, "hostapd.conf") /\ hostapd' = Access(cfg[s])
  /\ GoesOn(s)
  /\ UNCHANGED <<on, file, cfg, procs, web, iface, enabled, bonjour, upgrade,
                 unapplied, mishaps, events>>

UpdateRc(s) ==
  /\ \/ At(s, "enable hostapd") /\ enabled' = enabled \cup {"hostapd"}
     \/ At(s, "enable dhcp") /\ enabled' = enabled \cup {"isc-dhcp-server"}
     \/ At(s, "disable hostapd") /\ enabled' = enabled \ {"hostapd"}
     \/ At(s, "disable dhcp") /\ enabled' = enabled \ {"isc-dhcp-server"}
  /\ GoesOn(s)
  /\ UNCHANGED <<on, file, cfg, procs, web, iface, hostapd, bonjour, upgrade,
                 unapplied, mishaps, events>>

\* The held button switches the file to the access point. It should drop the
\* password there too, but looks for an unquoted value, which nobody writes:
\* what the file says of the password is not what is then set up.
SedApMode(s) ==
  /\ At(s, "sed ap_mode")
  /\ file' = [file EXCEPT !.ap_mode = TRUE]
  /\ unapplied' = (unapplied \ Network)
       \cup (IF file.ap_no_password THEN {} ELSE {"ap_no_password"})
  /\ GoesOn(s)
  /\ UNCHANGED <<on, cfg, procs, web, net, bonjour, upgrade, mishaps, events>>

-----------------------------------------------------------------------------
(* Upgrades.                                                               *)

\* Mutant: the file is always taken to hold the program.
UnzipBlind(s) ==
  /\ At(s, "unzip")
  /\ unpacked' = zip /\ GoesOn(s)
  /\ UNCHANGED <<on, file, cfg, procs, web, net, bonjour, canpi, backup, zip,
                 unapplied, mishaps, events>>

\* unzip does not overwrite what an upgrade that was cut short has left.
Unzip(s) ==
  /\ At(s, "unzip")
  /\ unpacked' = IF unpacked = "lost" /\ zip # "without" THEN zip ELSE unpacked
  /\ IF unpacked' = "lost" THEN Goes(s, <<"clean">>) ELSE GoesOn(s)
  /\ UNCHANGED <<on, file, cfg, procs, web, net, bonjour, canpi, backup, zip,
                 unapplied, mishaps, events>>

\* Mutant: no backup.
MoveNowhere(s) ==
  /\ At(s, "move aside")
  /\ canpi' = "lost"
  /\ GoesOn(s)
  /\ UNCHANGED <<on, file, cfg, procs, web, net, bonjour, backup, zip, unpacked,
                 unapplied, mishaps, events>>

MoveAside(s) ==
  /\ At(s, "move aside")
  /\ IF canpi # "lost" THEN backup' = canpi ELSE UNCHANGED backup
  /\ canpi' = "lost"
  /\ GoesOn(s)
  /\ UNCHANGED <<on, file, cfg, procs, web, net, bonjour, zip, unpacked,
                 unapplied, mishaps, events>>

Copy(s) ==
  /\ At(s, "copy") /\ canpi' = unpacked
  /\ GoesOn(s)
  /\ UNCHANGED <<on, file, cfg, procs, web, net, bonjour, backup, zip, unpacked,
                 unapplied, mishaps, events>>

\* If the new program has ended already, the old one is put back and started;
\* the other files of the upgrade are installed in any case.
Recovered(s) ==
  /\ At(s, "recovered?")
  /\ IF IsRunning
     THEN GoesOn(s) /\ UNCHANGED <<canpi, backup>>
     ELSE /\ IF backup # "lost" THEN canpi' = backup ELSE UNCHANGED canpi
          /\ backup' = "lost"
          /\ Goes(s, <<"start">> \o Tail(todo[s]))
  /\ UNCHANGED <<on, file, cfg, procs, web, net, bonjour, zip, unpacked,
                 unapplied, mishaps, events>>

\* clean_upgrade_files
Clean(s) ==
  /\ At(s, "clean")
  /\ zip' = "lost" /\ unpacked' = "lost"
  /\ GoesOn(s)
  /\ UNCHANGED <<on, file, cfg, procs, web, net, bonjour, canpi, backup,
                 unapplied, mishaps, events>>

Step(s) ==
  \/ Halt(s) \/ StartCanpi(s) \/ Started(s) \/ Term(s) \/ Wait(s) \/ Stopped(s)
  \/ KillAll(s) \/ WebServer(s) \/ SourceAgain(s)
  \/ SetupBonjour(s) \/ SetupIface(s) \/ SetupHostapd(s) \/ UpdateRc(s)
  \/ SedApMode(s)
  \/ Unzip(s) \/ MoveAside(s) \/ Copy(s) \/ Recovered(s) \/ Clean(s)

Next ==
  \/ \E s \in Shells :
       \/ Step(s) \/ Boot(s) \/ BootPressed(s)
       \/ \E command \in Commands : Command(s, command)
       \/ \E program \in Programs \cup {"without"} : Upload(s, program)
  \/ \E k \in Network, v \in BOOLEAN : Edit(k, v)
  \/ \E v \in Ports : Edit("tcpport", v)
  \/ \E p \in Pids : DaemonEnds(p)
  \/ PowerFails

Spec == Init /\ [][Next]_vars

\* Scripts go on, daemons that have to end do, and the Pi is switched on again.
Fairness ==
  /\ \A s \in Shells : WF_vars(Step(s))
  /\ WF_vars(\E s \in Shells : Boot(s))
  /\ \A p \in Pids : WF_vars(DaemonEnds(p))

FairSpec == Spec /\ Fairness

-----------------------------------------------------------------------------
(* Properties.                                                             *)

AtRest == on /\ todo = Idle

\* Between scripts, the network files, the services that start at boot and
\* the announced port are those canpi.cfg asks for, except for settings that
\* were changed since a script sourced them or whose application the power
\* failure cut short: neither the held button nor a boot, restart, upgrade or
\* a second configuration leaves a mixture of the two modes.
NetworkAsSaved ==
  AtRest =>
    /\ "ap_mode" \notin unapplied =>
         iface = Mode(file) /\ enabled = (IF file.ap_mode THEN ApServices ELSE {})
    /\ Network \cap unapplied = {} /\ file.ap_mode => hostapd = Access(file)
    /\ "tcpport" \notin unapplied => bonjour = file.tcpport

\* One broken upload, or one power failure at any point of an upgrade, leaves
\* a working program on the card: installed, as backup, or unpacked.
WorkingCopyKept ==
  mishaps <= 1 => "good" \in {canpi, backup, unpacked}

\* One daemon, which the next script finds by its pid file.
Serving ==
  \E p \in sudos : DOMAIN daemons = {p} /\ pid_file = p /\ daemons[p].bin = "good"

\* A script that is to start the daemon; an upgrade knows once it has unpacked.
Restarting == UnderWay("start") /\ \A s \in Shells : ~At(s, "unzip")

\* Whatever stops the daemon to start it again ends with one that runs and can
\* be stopped, wherever the power fails, unless an upgrade was broken or cut
\* short.
ServiceReturns ==
  (Restarting /\ ~Serving) ~> (Serving \/ mishaps > 0)

=============================================================================
