# CANPiWi: specifications and proofs

CANPiWi is the daemon of a Raspberry Pi module that joins a CBUS (CAN) model
railway layout to a wireless network. It lets throttles (Engine Driver, "ED")
drive locomotives over CBUS, gives GridConnect programs ("GRID") a raw view of
the CAN bus, and is itself a CBUS node with a number, a CAN id and node
variables. It is a C++ program with several threads of its own and more for
each client, a mutex per queue, and much state that is shared without a lock.
A Python web page and a shell script configure, start and upgrade it.

This directory holds TLA+ modules translated from the source, the TLC runs that
check them on small instances, and proofs that TLAPS checks for every value of
the constants. `PROJECT.json` says for every definition which lines of the
source it stands for, and lists the runs, the hazards and the theorems.

    tlc -workers 2 -config MCMessageQueue.cfg MCMessageQueue.tla
    tlapm MessageQueueProofs.tla

## 1. The system

| Part | State | Operations | Talks to |
|---|---|---|---|
| Queue hand-over (`canHandler`, both clients) | a `std::queue`, a mutex, a condition variable, `running` | put, take, stop | every pair of threads |
| Frame routing (`canHandler`, `tcpServer`) | `in_msgs`, `out_msgs`, `cbus_stopped` | `run_in`, `run_queue_reader`, `run_out`, the two `put_to_…_queue`, `addCanMessage`, `postMessageToAllClients` | CAN socket, all clients |
| Throttle sessions (`tcpClient`, `sessionHandler`, `edSession`) | a throttle's map `sessions`, `edsession` for the next request; a registry that outlives connections | request, release, PLOC, keep-alive, sweep of orphans, stop | router, command station |
| Locomotive control (`tcpClient`, `edSession`) | speed, direction, functions and their types per session | drive, idle, emergency stop, switch, program through F28 | configuration, bus |
| Turnout table (`Turnout`) | address to state | load, toggle, set, follow events | throttles, bus |
| TCP server and client life cycle (`tcpServer`) | map of clients, `tempClient`, `running` | accept, start, fan out, remove, stop all | canHandler, clients |
| GridConnect client and codec (`tcpClientGridConnect`) | strings received, flags of the parser | parse, format | TCP, router |
| Node mode (`canHandler`) | `setup_mode`, `blinking`, `node_number`, `canId`, enumeration flags, LEDs | button, SNN, CANID, ENUM, NVSET, restart | configuration, bus |
| Configuration (`nodeConfigurator`) | map in memory, `canpi.cfg`, 47 node variables, write count | load, save, get and set each key, `setNV` | every thread, web page |
| Web page (`canpiconfig.py`) | its own copy of `canpi.cfg` | show, validate, save, upload, call the script | file, script |
| Service script (`start_canpi.sh`) | pid file, network files, services at boot, program and backup | start, stop, restart, configure, upgrade, button at boot | daemon, page, file |
| Start and stop (`main`) | — | straight-line start, signal handler | all |

**Interactions.** A frame from the bus goes through `in_msgs` to the queue
reader, which handles configuration commands itself and then calls every client
of every server. A frame of a client goes through `out_msgs` to the bus; on its
way it is copied to other clients, and a GRID frame also to `in_msgs`. Throttles
reach the command station only through this path: RLOC asks for a locomotive,
PLOC grants it, KLOC releases it. Sessions stay in the registry when a throttle
loses its connection; the session thread sweeps those that nobody takes over.
The daemon, the page and the script all read `canpi.cfg`, and each of them
rewrites it; the daemon calls the script when programmed settings need a restart
or another network, and is then stopped by it.

**What is hard.** Signals lost between two waits; fan-outs done by several
threads at once; locks held while another lock is taken; a registry, a map of
clients and a configuration used by several threads without a lock; connections
that end while a request is under way; iterators kept over an erase; two saves
with a power failure between them, and a save cut short; three writers of one
file; timers instead of answers (2 s for PLOC, 200/500 ms for release, 9 s
keep-alive, 30 s orphan timeout, 2 s and 6 s presses, 10 s before SIGKILL); codecs
with bits and bytes at fixed places. `PROJECT.json` lists each at its line under
`hazards`, with the properties that would catch it.

**What makes each part correct.** A queue loses, doubles and reorders nothing
and wakes its taker. The router gives every frame to everybody it is meant for,
once, in the order of its source, and never back to a GRID program that sent it.
A throttle drives only registered, numbered sessions; no locomotive stays taken
or keeps running because its session was forgotten, and it runs and lights as its
session says. The turnout table follows the layout. A server serves each
connection with a thread of its own and forgets none. The node runs with what it
has saved, has a number when it is in FLIM, shows its mode, and applies what was
programmed. Nobody's settings are lost or brought back. The module's network is
the one its file asks for, and a stop, restart or upgrade leaves a working daemon.

## 2. Modules and plan

| Module | Models | Status |
|---|---|---|
| `FifoChannel` | abstract: what a queue promises | done |
| `MessageQueue`, `MessageQueueProofs` | the hand-over of all four kinds of queue | implements `FifoChannel`; proved |
| `FrameBus` | abstract: the module as a switch | done |
| `CanRouter` | threads, fan-outs and routing | implements `FrameBus` |
| `CanRouterProofs` | its types, routes, order, refinement and completeness | proved |
| `Sessions`, `SessionsProofs` | throttles, registry, sweep, stop; command station external | proved |
| `NodeConfig`, `NodeMode`, `NodeModeProofs` | map, file, node variables; button and CBUS commands | proved |
| `NvLayout`, `NodeVariables` | the codec of the 47 variables; tool, page and restarts around it | proved in `CodecProofs` |
| `FnConfig`, `Throttle`, `ThrottleProofs` | the lists of momentary functions and their three holders; speed, direction, functions, programming | proved |
| `TcpServer` | connections, threads, fan-outs, shutdown | proved in `TurnoutsProofs` |
| `Turnouts`, `TurnoutsProofs` | the ED server: `TcpServer` with its turnout table | implements `TcpServer`; proved |
| `GridConnect`, `GridLink`, `CodecProofs` | the text codec; a GRID connection around it | proved |
| `Services`, `ServicesProofs` | the script, the processes it controls, the network, upgrades | proved |

`NodeMode` extends `NodeConfig`, `NodeVariables` extends `NvLayout`, `Throttle`
extends `FnConfig`, `Turnouts` extends `TcpServer`, `GridLink` extends
`GridConnect`; each `MC…` module gives the constants of one specification values
for TLC.

What the plan has left: `NodeMode` composed with the `cbus_stopped` of `CanRouter`.

## 3. How the modules correspond to the code

**MessageQueue.** Program points follow the statements: lock, push, signal,
unlock on one side; lock, `pthread_cond_wait`, re-lock, pop, unlock on the other.
`drains` tells the two kinds of taker apart: `run_queue_reader` and `run_out`
empty the queue after a wake-up, `processCbusQueue` and `run_in_grid_msgs` take
one message. Spurious wake-ups and `stop()` may happen at any point.

**CanRouter.** A critical section of a put is one step (`MessageQueue` shows that
it may be), the takers hold their mutex from the wake-up until the queue is
empty, and a fan-out is one step per client, so that fan-outs of different
threads interleave. A frame is its source, its rank and its kind; the kinds are
what the code's conditions tell apart (standard, extended, RTR, a query, HLT,
BON, a turnout). The event handler runs inside the queue reader and answers while
`m_mutex_in` is held. Assumed: both servers run, their clients stay connected,
the node is out of setup mode.

**Sessions.** A connection has a receiver, a CBUS reader and a keep-alive; the
session thread sweeps. The registry is a set of uids, in whose order the
`std::map` keeps them; the sessions are records, a throttle's map is a function. The constructor takes over the sessions
of its address, deletes the unset ones and creates the session of the next
request. PLOC is handled in three steps (match, accept, next session) because
other threads look at the session between them. The sweep's iterator
is a position among the uids (`Position`, `AtIterator`) and does what `erase(it);
it++` does: skip a session, or pass the end.
Time is one flag per session: more than `orphan_timeout` since its keep-alive.
`main` stops the session thread first (`StopSweep`); then each client
(`StopClient`) deletes the session of its next request, sends KLOC for all it
holds, and deletes those after 500 ms.

**Throttle and FnConfig.** `Sessions` has how a locomotive is got and lost,
`Throttle` what is done with it in between. Throttle and registry are one function
from locomotives to sessions there, since one device needs no more. A command names one locomotive or, with `*`, all of a throttle type, and the
functions translate `handleSetFunction` and `programmingFn` with the DCC group
byte computed bit by bit. The command station's table is external (NMRA S-9.2.1).
In `FnConfig` file, daemon and page each hold a partial function from keys to
lists; a cut save leaves the lines written so far, in the order of `std::map`.

**NodeConfig and NodeMode.** The map and the file are records of the keys that
matter. Of the 47 node variables NV 1 is kept bit by bit, and one variable stands
for the others that reach the file; one key stands for each of the two classes of
settings (`ap_mode`: reconfigure, `tcpport` and `edserver`: restart). `WriteNV`
counts, and the write that completes a set loads the file, puts all variables
into the map (`WithNVs`) and saves. A save writes the whole map and reads it
back. A handler with two saves is two actions, with a power failure (`Restart`)
possible between them. The button is the time class it has been held for.

**NvLayout and NodeVariables.** All 47 bytes with `loadParam1` and its companions
on one side and the `nvTo…` functions on the other: flags, numbers with the low byte first,
texts padded and cleaned, the 29 bits of the functions, the getters' defaults for
keys the file lacks. Memory the code does not write keeps a value of `Heap`. A
tool writes the bytes one at a time, those it has read with one setting changed to
a value that there is room for; the page rewrites the file after the validation of
its form. `Expressible` lists what the variables cannot hold: longer texts,
functions above F28, the empty list, levels without a code, an ED server that is
switched on, and an empty name of the turnout file, which is shown, and saved by
the next set, as `turnout.txt`.

**TcpServer and Turnouts.** One action per stretch between two points where
another thread may step in: `Accept` (object, `tempClient`, `pthread_create`),
`Insert`, `ThreadStart`, the end of `recv`, `removeClient`, one visit of a fan-out,
one client of the shutdown. `Turnouts` conjoins the table to these steps: each
client has a queue of events, applies them to the one shared table at its own
pace, and a command changes the table at once.

**GridConnect and GridLink.** A text is its two letters and the bytes of header
and data. `Parse` works on the texts of one `recv` string, because the flags for
standard and remote frames are set per string. `Recv` cuts a string anywhere; what
a piece still reads as is worked out from the digits left. `Encode` is the
protocol as the comment at the head of the file describes it.

**Services.** A running script is the sequence of steps it has still to do, with
the settings as it sourced them; a step is a command that changes something
outside the script. The pid file names the `sudo` the daemon runs under, which
passes SIGTERM on and ends with the daemon, while SIGKILL hits it alone.
`unapplied` and `mishaps` are history: settings whose application nobody has
ordered yet or the power cut short, and broken uploads or upgrades cut short.

## 4. The runs

| Run | Configuration | Shows |
|---|---|---|
| `queue` | 2 producers, 2 puts each, both kinds of taker | `WakeupTakes`, refinement of `FifoChannel` |
| `lost_wakeup` | the same | **violated**: `QueuedIsTaken` |
| `router` | 1 throttle, 2 GRID programs, 2 frames of any kind | `NoEcho`, `SourceOrder`, `Complete`, refinement of `FrameBus` |
| `router_liveness` | 1 and 1, 2 frames | `ThreadsComeHome`: no thread stays in a critical section or fan-out |
| `sessions` | 1 device, 2 connections one after the other, 2 locomotives, 5 sessions, 3 grants | `HeldIsSound`, `ForgottenIsReleased`, `SweepInBounds` |
| `sessions_liveness` | 1 connection, 2 locomotives, 4 sessions, 3 grants | `OrphanIsSwept` |
| `throttle` | 2 locomotives, F0, F2 and F28, 2 types, 6 events | `FunctionsAgree`, `RunsAsSession`, `MomentaryFollowsButton`, `TypesAsProgrammed`, `SettingsKept` |
| `node` | 3 numbers, 2 ids, 2 ports, 4 values of NV 1, 7 events | `RunsAsSaved`, `FlimHasNumber`, `LedsShowMode`, `ChangesAreApplied` |
| `nvs` | 3 first files, 7 edits by the tool, 7 by the page, 4 changes or restarts | `SetIsSaved` |
| `server` | 2 connections, 1 turnout, 3 events | `OwnClient`, `NoneDangling`, `RunningIsKnown`, `GonePeerIsRemoved`, `TableFollowsLayout` |
| `gridconnect` | 3 texts of 5 kinds of frame | `TextsBecomeTheirFrames`, `ShownAsProtocol` |
| `services` | 1 script, 2 daemons, 2 ports, 4 events | `NetworkAsSaved`, `WorkingCopyKept`, `ServiceReturns` |

`lost_wakeup` states what comments in `canHandler.cpp` say (lines 370 and 378):
the thread waits until there is something in the queue and then consumes all of
it. The wait comes before the look at the queue, so a message signalled while the
taker is between two waits stays there until another one arrives.

**Why the bounds are enough.** Two producers show every overlap of two critical
sections, and two messages each show order within and between sources. Two GRID
programs are needed for a copy to another one and a throttle for the frames that
throttles must not see; two frames meet in every pair of queues and fan-outs. Two
connections of one device show loss, adoption and a race of both with the sweep;
two locomotives make a map of more than one session and let an erase skip one;
five sessions are what two connections that get a locomotive each, and lose one,
create. The locomotives of `sessions` and `throttle` and the clients of `router`
are interchangeable, so these runs use symmetry; no run with a liveness property
does. F0, F2 and F28 lie in two DCC groups, with the two special cases (the light
and the programming key) and the function that is momentary by default; six events
hold an acquisition, programming and its use in a second session. A set of node
variables is two writes in `NodeConfig`, so seven events hold a numbering, a full
set, a long press and a power failure between any two steps; in `NodeVariables`
all 47 are written, and four events let two sets, a change on the page and a
restart follow one another. Two connections share `tempClient`, the map and the
table in every way two can. Three texts make a string of which the first is
complete, the second decides the flags and the third is cut. Two daemons are the
one that was stopped and the one started after it; four events allow an upgrade or
configuration cut short and its repetition (five also pass, in some minutes).

**Deadlock** is not checked in any run: bus, clients, users and tools owe no
further message, threads end after a stop, and the bounds end every behaviour.
`ThreadsComeHome`, `GonePeerIsRemoved` and `ServiceReturns` say what must not
get stuck.

**Assumptions**, each a named constant with its guard, or a guard. Where one is
switched off, the properties named fail: they are limits of what the code
guarantees, not of the models.

* `Serialized` of `Sessions`: nobody changes the registry during a sweep, as the
  comments in `sessionHandler.cpp` (lines 25 and 46) intend and no lock enforces.
  Without it the erase hits another session than the one released.
* `Patient` of `Sessions`: the command station answers within the two seconds the
  receiver waits. A later PLOC may be deleted without KLOC (`ForgottenIsReleased`).
* Also in `Sessions`: a device connects again when its previous connection is
  gone, no two devices want one locomotive (PLOC is matched by locomotive only, so
  both would drive it; the theorems assume it by name), and the program stops while no request or release is under
  way. A keep-alive that has tested `running` may clear the mark of an orphan; such
  a session is never swept, and `OrphanIsSwept` says so.
* `Serialized` of `NodeMode`: the button thread and the queue reader use the
  configuration in turn. They share one `std::map` without a lock, so nothing else
  has a defined outcome. With `FALSE`, `RunsAsSaved` and `FlimHasNumber` fail when
  an SNN arrives during a long press that leaves FLIM.
* `Orderly` of `Throttle`: daemon and page each save only when their copy is that
  of the file; otherwise either brings back or drops what the other has saved
  (`SettingsKept`). `Tidy`: users let go of buttons before they acquire, leave or
  program; otherwise the toggling gets out of step (`MomentaryFollowsButton`).
* `Whole` of `NodeVariables`: a tool writes complete sets, since the 47th write
  saves whichever it is. `Applied`: a tool starts when what the page has changed has
  been applied by a restart, because the variables are filled only then
  (both: `SetIsSaved`).
* `Prompt` of `TcpServer`: a few instructions in a row take less than a connection
  or a sleep of seconds (`OwnClient`, `RunningIsKnown`). `Clear`: no client is
  removed while a walk through the map stands at it (`NoneDangling`).
* `Quiet` of `Turnouts`: a turnout is commanded when the events before have arrived;
  an older event in a throttle's queue would undo the command (`TableFollowsLayout`).
* `Prompt` of `Services`: the daemon ends within ten seconds of SIGTERM; otherwise
  SIGKILL takes its `sudo` only, and a second daemon is started (`ServiceReturns`).
  One script at a time: nothing in it keeps a second one out; the theorems assume it
  by name (`Alone`). `WorkingCopyKept`
  holds for one mishap: after two broken uploads in a row no good program is left.
* `NodeConfig` has every key in the file, as in the one the program comes with, and
  an uninterrupted save; `FnConfig` has the save cut short, `NvLayout` missing keys.

**Fairness.** Weak fairness of a thread's steps: the scheduler runs what can run.
Strong fairness of taking a mutex that others take in between: a waiting thread
gets it at some point, which holds in every run in which the holders come and go.
In `Sessions` time passes, the session thread runs, and the threads of a broken
connection end. In `Turnouts` the acceptor, the fan-out, a shutdown that has begun
and the threads of clients go on; removal is strongly fair, since the fan-out
comes to a client and leaves it again; `recv` returns when the peer has gone. In
`Services` scripts go on, daemons that have to end do, and the Pi is switched on
again after a power failure. No source, user or tool owes anything: no further
frame, no command, no reconnection, no spurious wake-up, no repetition of a failed
upgrade.

## 5. The proofs

All theorems hold for every value of the constants, from the named assumptions of
the modules; a bound such as `MaxEvents` plays no part in any of them.

**MessageQueueProofs**: `TypeOK`, exclusive access, nothing lost, queue empty at
the taker's unlock, order per producer, and the refinement of `FifoChannel`, for
both kinds of taker. The inductive invariant `QueueInv` adds two facts to these: a
producer about to push is below its bound (`RoomToPush`), and the accepted messages
of a producer are numbered in order and not beyond what it has put
(`AcceptedOrder`). Exclusive access is needed for the empty queue: nobody pushes
between the test and the unlock.

**CanRouterProofs**: `TypeOK`, `NoEcho`,
`SourceOrder`, the refinement of `FrameBus`, and `Complete`. `RouteInv` says which
frames may be where: what the queue reader holds is of the bus or of a GRID program,
the clients a fan-out has still to visit are among those the frame is meant for, and
its source is not among them. `OrderInv` adds the order: `Due(x, c)` says that frame
x may still reach client c, on whichever of its ways, and every frame that is due
comes after all that the client has of its source. Throttles are reached through the
queue reader only, and GRID programs get from it only what comes from the bus: this
keeps the three ways of a GRID frame from crossing. `CoverInv` is its counterpart for
`Complete`: whoever is owed a frame has it, or it is due.

**SessionsProofs**: `TypeOK`, `HeldIsSound`, `ForgottenIsReleased` and
`SweepInBounds`, under `Serialized`, `Patient`, and that no two devices want one
locomotive (`Surroundings`). They are proved together, since none is inductive
without the others: `IInv` is `TypeOK`, `Conversation` and `Custody`. `Conversation`
says who is talking: a device has at most one live connection, a request is asked
once and answered at most once, and only for a locomotive that its device wants and
does not hold. `Custody` says in whose hands each session is: that of the next
request belongs to its connection alone and is in the registry without a number;
held ones are registered and numbered; one that is being deleted after a release
has had its KLOC. Its part `Behind` is what `SweepInBounds` rests on: behind every
orphan in the registry there is an unset session of a later constructor, so an erase
never takes the last position and the increment after it never passes the end.

**CodecProofs**, on `GridLink`: `LinkTypeOK`, `TextsBecomeTheirFrames` and
`ShownAsProtocol`, without an assumption. The header arithmetic is proved for all
standard and extended identifiers (the codec shifts and masks, the protocol spreads
the identifier over the digits); what remains is which texts a string may hold.
`LinkInv` says that all that is left of a string is a piece of texts that were sent,
in their order (`Genuine`), and that each frame heard is the one its text stands for
(`Right`). A text that `recv` has cut is never read as a whole one (`WholeText`).

On `NodeVariables`: `TypeOK` from the types of the constants alone (what users enter
is a setting, and a tool's change fits its field), and `SetIsSaved` under `Whole` and
`Applied`. First the codec, for all values: what is read from the bytes of a
field is what was written there, if it fits (`FieldKept`), hence a setting is read
from the filled variables as it is in the file, if it can be expressed (`LoadedKept`);
a change a tool makes is read back (`EditKept`) and is seen in no other setting
(`EditOthers`), although six of them share a byte. Texts need induction on their
length: an induction theorem cannot be instantiated, but the well-foundedness of `<`
can be applied to the set of the lengths for which a formula fails (`SetInduction`,
`TextInduction`), and the function that removes characters is shown to exist
(`KeptExists`). Then the steps: `SetIsSaved` says nothing of a set in progress, so
`NvInv` says that it writes from variables that hold what users mean (`Same`) and
that those it has written are in the array; between sets the file holds what is
meant (`Saved`), and so do the variables unless the page has changed the file. The
service name and the log file's switch, which a set leaves alone, are always as
meant (`Untouched`).

**NodeModeProofs**: `TypeOK`, `RunsAsSaved`, `FlimHasNumber`, `LedsShowMode`,
`ChangesAreApplied`; all but the types under `Serialized`. `NodeInv` says in
addition what holds inside a handler: between the two steps of SNN the number is
saved and not yet taken, between those of a long press it is dropped and not yet
saved, and the mode is already SLIM (`NumberInv`); only a commit has unsaved
entries in the map, never the number or the mode (`MapIsFile`); the two threads are
not both inside a handler (`OneAtATime`). For `ChangesAreApplied`, `ApplyInv` adds
that what a commit is about to save is covered by the restart it is about to order
(`Told`).

**TurnoutsProofs**: `OwnClient`, `NoneDangling` and
`RunningIsKnown` under `Prompt` and `Clear`, for `TcpServer` and for the ED server
of the run, which is proved to implement it: each of its steps is a step of the
server or a stutter. `ServerInv` consists of: clients not created yet have no trace
(`CreatedInv`); a thread that has not read `tempClient` finds its own client there
(`ThreadInv`); a client is deleted at the end of its thread, when it is out of the
map (`DeletedInv`); whoever runs or will run can be found (`KnownInv`); the walks
stand at clients in the map, and behind the shutdown nobody runs (`WalkInv`).
`TypeOK` and `TableFollowsLayout` need `Quiet` as well. `TurnoutInv` adds to
`ServerInv` that an event comes to a client at most once, so that no queue is longer
than there were events (`OnceEach`); that the event being passed on says what the
layout says (`Carried`); that the last event of a turnout in a reading client's
queue says so too, unless the fan-out will still bring a newer one (`NewestLast`);
and that the table differs from the layout only while some reading client has an
event of that turnout before it (`TableInv`).

**ThrottleProofs**: `TypeOK`, `RunsAsSession` and `FunctionsAgree` without an
assumption, `MomentaryFollowsButton` under `Tidy`, `SettingsKept` and
`TypesAsProgrammed` under `Orderly`. `RunsAsSession` and `FunctionsAgree` are
inductive as they stand. What they need is arithmetic: bits and the station's table
are inverse to each other (`BitOfTable`, `TableOfBit`), so the byte of a group
switches exactly the functions of the group that are on and leaves the other groups
alone (`DfunSwitches`). `HandsInv` adds to `MomentaryFollowsButton` what holds while
F28 is on: nothing else is, so that no other function gets out of step meanwhile;
and no button is down that no session follows. `Kept` adds to `SettingsKept` that
the daemon's map has what was programmed for every locomotive (`MapKept`), which is
where a new session takes its types from, and that the file has no setting nobody
entered.

**ServicesProofs**: `TypeOK`, `NetworkAsSaved` and `WorkingCopyKept`, with one script
at a time (`Alone`). Both properties are about the state between scripts, so `IInv`
says what holds in the middle of one, of the set `Left` of the steps it has still to
do; `Order` says what each step has behind it, which makes up for the sequence.
`Net`: each file and service of the network is as saved, or a step that is left
still makes it so, with settings that are those of the file or will be sourced
again. `Keep`: for every phase of an upgrade, and for no mishap and one, where the
good program is: installed, kept aside, or unpacked. Two phases need more than the
copies: an upgrade that starts after a power failure goes on with what was unpacked
before it (`Once`), and when the kept copy is a bad one the new program is good and
runs, so that the bad one is not put back (`NewRuns`).

**Only model-checked.** The liveness properties: fairness and ENABLED are out of the
prover's reach. Every invariant and action property of the runs is proved.

## 6. Not modelled, and why

The map covers a sixth of all lines in the repository and more than half of the
program's own. The rest is mostly third-party: libconfig, which the program does not
even link (`Makefile`, line 2), its bindings and generated parsers, and log4cpp,
used for the log only.

* GPIO and the CAN, TCP and Bonjour system calls: pure input and output.
* Logging, frame printing, the opcode table, labels and texts shown on throttles
  (`getStartInfo` and the like): no effect on the behaviour.
* The order of `main`: straight-line code. Its one race, servers added to a vector
  that the queue reader may be walking already, has no defined outcome.
* `test.cpp`, `testregex.cpp`: programs that print, without assertions. Scripts that
  set up a card once.
* LEDs, the state of avahi, and the page and template files of an upgrade, which are
  copied whatever happened to the program; two scripts at a time; the script's `sed -i`
  on `canpi.cfg` during a save of the daemon.
* In `NodeMode`, commands that only answer (in `CanRouter` as queries) and what a
  `cbus_stopped` set by HLT does to its setup messages.
* The stop of all servers from the queue reader with `m_mutex_in` held (a hazard).

Undefined behaviour is not given an outcome the models could rely on. Two threads in
one `std::map`, an iterator over an erased element of a map, and a condition variable
destroyed while a thread waits on it are hazards in `PROJECT.json`; the models assume
the schedule or the library behaviour under which they are defined, and name it.

**Where the code does not do what one expects**, and the models follow the code:

* HLT and BON of a GRID program reach `in_msgs` too; the queue reader's copy may set
  `cbus_stopped` before the writer has sent the frame, which then discards itself.
  `Complete` asks for the bus only while it is not stopped.
* `postMessageToAllClients` of the ED server returns early for standard and remote
  frames instead of all others: no throttle is told of another one's turnout command.
* Extended frames shown to a GRID program have a header that the comment above the
  code does not describe; `ShownAsProtocol` is about standard frames.
* The ED server flag is written to NV 1 as bit 5 and read as bit 6, so that writing
  unchanged variables switches the server off; `Expressible` leaves it out. A tool's
  change of the service name or the log-file flag is acknowledged and never applied.
* The button held at boot opens the network, but its `sed` for the password looks for
  a value without quotes, which nobody writes: the next configuration locks it again.
* `restartcanpi` does not update the announced port.
