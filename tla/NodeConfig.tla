----------------------------- MODULE NodeConfig -----------------------------
(***************************************************************************)
(* The configuration of the node (nodeConfigurator): the map it keeps in   *)
(* memory, the file canpi.cfg behind it, and the node variables (NVs) a    *)
(* CBUS configuration tool writes one at a time.                           *)
(*                                                                         *)
(* An NV write only counts; the write that completes a full set of NVs     *)
(* loads the file, puts every NV into the map and saves. A save writes the *)
(* whole map and loads it again, so that what another part has put into    *)
(* the map meanwhile is saved with it.                                     *)
(*                                                                         *)
(* Of the 47 NVs two are kept. flags is NV 1, as the set of its bits; port *)
(* stands for the others that reach the file. ap_mode stands for every     *)
(* setting whose change makes the module reconfigure its network, tcpport  *)
(* and edserver for those that make it restart. Every key that a setter    *)
(* looks for is in the file, as in the file the program comes with, and a  *)
(* save is one step.                                                       *)
(***************************************************************************)
EXTENDS Naturals, FiniteSets

CONSTANTS Numbers, DefaultNN,  \* node numbers; the number of a SLIM node
          CanIds, Ports,       \* what canid and tcpport may be
          FlagBytes            \* what a tool writes to NV 1: sets of bits

Modes == {"SLIM", "FLIM"}
Bits == 0..7

ASSUME ConfigAssumption == DefaultNN \in Numbers /\ FlagBytes \subseteq SUBSET Bits

Config == [node_number : Numbers, canid : CanIds, node_mode : Modes,
           ap_mode : BOOLEAN, edserver : BOOLEAN, create_log_file : BOOLEAN,
           tcpport : Ports]

NvIndex == {"flags", "port"}
NVs == [flags : SUBSET Bits, port : Ports]
NvValues(i) == IF i = "flags" THEN FlagBytes ELSE Ports

VARIABLES
  config,   \* the map in memory
  file,     \* canpi.cfg
  nv,       \* NV
  nvs_set   \* NVs written since the last full set

nodeVariables == <<nv, nvs_set>>

ConfigTypeOK ==
  /\ config \in Config /\ file \in Config
  /\ nv \in NVs
  /\ nvs_set \in 0..(Cardinality(NvIndex) - 1)

-----------------------------------------------------------------------------
(* The bits of NV 1: 0 access point, 5 log file. loadParam1 writes the ED  *)
(* server flag to bit 5, nvToEdserver reads it from bit 6.                 *)

LoadParam1(c) ==
  {b \in {0, 5} : \/ b = 0 /\ c.ap_mode
                  \/ b = 5 /\ (c.create_log_file \/ c.edserver)}
NvToApMode(n) == 0 \in n.flags
NvToEdserver(n) == 6 \in n.flags

\* loadParamsToMemory.
LoadParams(c) == [flags |-> LoadParam1(c), port |-> c.tcpport]

\* The file's content c is read when the program starts.
StartConfig(c) ==
  /\ config = c /\ file = c
  /\ nv = LoadParams(c) /\ nvs_set = 0

-----------------------------------------------------------------------------
(* Map and file.                                                           *)

LoadConfig == config' = file
SaveConfig(c) == config' = c /\ file' = c

SetNodeNumber(n) == SaveConfig([config EXCEPT !.node_number = n])
SetNodeMode(m) == SaveConfig([config EXCEPT !.node_mode = m])

\* The only setter used at run time that does not save.
SetCanID(id) == config' = [config EXCEPT !.canid = id] /\ UNCHANGED file

-----------------------------------------------------------------------------
(* setNV: all NVs are put into the map when the last one of a set comes.   *)

\* Mutant: the count is not reset.
WriteNVNoReset(i, v) ==
  /\ nv' = [nv EXCEPT ![i] = v]
  /\ nvs_set' = nvs_set + 1

WriteNV(i, v) ==
  /\ nv' = [nv EXCEPT ![i] = v]
  /\ nvs_set' = (nvs_set + 1) % Cardinality(NvIndex)
FullSet == nvs_set' = 0

WithNVs(c, n) == [c EXCEPT !.ap_mode = NvToApMode(n), !.edserver = NvToEdserver(n),
                           !.tcpport = n.port]

\* Mutant: the reason found last decides.
LastReason(c, n) ==
  IF c.edserver # NvToEdserver(n) THEN {"restart"}
  ELSE IF c.ap_mode # NvToApMode(n) THEN {"configure"}
  ELSE IF c.tcpport # n.port THEN {"restart"} ELSE {}

\* The status setNV returns once the NVs n replace what is set in c, as the
\* action restart_module is told to take: none or one.
Reason(c, n) ==
  IF c.ap_mode # NvToApMode(n) THEN {"configure"}
  ELSE IF c.edserver # NvToEdserver(n) \/ c.tcpport # n.port THEN {"restart"} ELSE {}

=============================================================================
