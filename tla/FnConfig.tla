------------------------------ MODULE FnConfig ------------------------------
(***************************************************************************)
(* The settings that say which functions of a locomotive are momentary:    *)
(* fn_momentary for every locomotive, and R<loco> for one whose functions  *)
(* have been programmed from a throttle. Three parties hold them: canpi.cfg*)
(* itself, the map of the daemon (nodeConfigurator) and the copy of the    *)
(* web page (configManager in canpiconfig.py), each of which rewrites the  *)
(* whole file from what it holds.                                          *)
(*                                                                         *)
(* A holding is a partial function from keys to lists, a list is a set of  *)
(* functions, and the empty list is an empty value. The page moves a       *)
(* finished file into place; the daemon truncates the file and writes it   *)
(* line by line in the order of the keys, where every R<loco> comes before *)
(* fn_momentary: a power failure on the way leaves the lines written so    *)
(* far.                                                                    *)
(***************************************************************************)
EXTENDS Naturals, FiniteSets

CONSTANTS Locos,        \* locomotives
          FnMomentary,  \* the key of the general list
          Fns,          \* functions of a locomotive
          Lists         \* what users enter for fn_momentary

ASSUME FnConfigAssumption ==
  /\ FnMomentary \notin Locos
  /\ Fns \subseteq 0..28 /\ {2, 28} \subseteq Fns
  /\ Lists \subseteq SUBSET Fns

Keys == Locos \cup {FnMomentary}
Holding == UNION {[K -> SUBSET Fns] : K \in SUBSET Keys}

VARIABLES
  map,     \* nodeConfigurator::config
  file,    \* canpi.cfg
  page,    \* configManager::config
  wanted,  \* history: what users entered or programmed last
  cut      \* history: the power has failed during a save

settings == <<map, file, page, wanted, cut>>

FnConfigTypeOK ==
  /\ {map, file, page, wanted} \subseteq Holding
  /\ cut \in BOOLEAN

\* Entries put into a holding: new keys are added, values replaced.
With(c, entries) ==
  [k \in DOMAIN c \cup DOMAIN entries |-> IF k \in DOMAIN entries THEN entries[k] ELSE c[k]]
GeneralList(v) == [k \in {FnMomentary} |-> v]

\* The file as it is shipped; the page reads it when the web server starts.
FnConfigInit ==
  /\ \E v \in Lists : file = GeneralList(v)
  /\ map = file /\ page = file /\ wanted = file
  /\ cut = FALSE

-----------------------------------------------------------------------------
(* The daemon.                                                             *)

\* setMomentaryFNs on a session whose momentary functions are fns.
Applied(c, k, fns) ==
  IF k \in DOMAIN c /\ c[k] # {} THEN c[k] ELSE fns

\* The functions that are momentary in a new session: the horn, unless
\* fn_momentary lists others.
GeneralFns(c) == Applied(c, FnMomentary, {2})

\* A fresh read: getMomentaryFn loads the file into the map.
LoadConfig == map' = file

\* Mutant: the pairs are put into the map and not saved.
SetInMap(pairs) ==
  /\ map' = With(map, pairs)
  /\ wanted' = With(wanted, pairs)
  /\ UNCHANGED <<file, page, cut>>

\* setNewPair for each of the pairs, which saves the map.
SetNewPairs(pairs) ==
  /\ map' = With(map, pairs) /\ file' = With(map, pairs)
  /\ wanted' = With(wanted, pairs)
  /\ UNCHANGED <<page, cut>>

\* The same, and the power fails on the way.
CutSave(pairs) ==
  LET whole == With(map, pairs) IN
  /\ \E K \in SUBSET (DOMAIN whole \cap Locos) :
       file' = [k \in K |-> whole[k]]
  /\ map' = file'
  /\ wanted' = With(wanted, pairs) /\ cut' = TRUE
  /\ UNCHANGED page

-----------------------------------------------------------------------------
(* The web page.                                                           *)

PageRead == page' = file /\ UNCHANGED <<map, file, wanted, cut>>

\* Mutant: only the fields of the form are written.
PageSaveForm(v) ==
  /\ page' = GeneralList(v) /\ file' = page'
  /\ wanted' = With(wanted, GeneralList(v))
  /\ UNCHANGED <<map, cut>>

PageSave(v) ==
  /\ page' = With(page, GeneralList(v)) /\ file' = page'
  /\ wanted' = With(wanted, GeneralList(v))
  /\ UNCHANGED <<map, cut>>

-----------------------------------------------------------------------------
(* Properties.                                                             *)

\* canpi.cfg holds what users have entered last for every setting it has,
\* and it has every setting unless the power failed during a save: neither
\* writer brings an old value back or drops what the other one has saved.
SettingsKept ==
  /\ \A k \in DOMAIN file : file[k] = wanted[k]
  /\ ~cut => DOMAIN file = DOMAIN wanted

=============================================================================
