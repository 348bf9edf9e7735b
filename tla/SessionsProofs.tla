---------------------------- MODULE SessionsProofs ----------------------------
(***************************************************************************)
(* Proofs about Sessions, for any number of devices, connections,          *)
(* locomotives and sessions, whatever connections of one address overlap   *)
(* and however late the command station answers, when no thread changes    *)
(* the registry during a sweep: what a connected throttle drives is its    *)
(* own, no numbered session is forgotten without KLOC, and the sweep's     *)
(* iterator stays inside the registry although it skips a session after    *)
(* each one it erases, with the exceptions the properties name.            *)
(***************************************************************************)
EXTENDS Sessions, FiniteSetTheorems, WellFoundedInduction, TLAPS

\* A connection that is not there holds nothing and does nothing.
Ends ==
  \A c \in Conns :
    /\ ~Live(c) => /\ held[c] = <<>> /\ cbus[c] \in {"idle", "exit"}
                   /\ ending[c] # "sleep"
    /\ phase[c] # "up" => recv[c] = "idle"
    /\ phase[c] = "new" => ending[c] = "no"
    /\ ending[c] # "no" => stopped

\* The session of the next request: it has no number, but for the moment in
\* which its PLOC is acknowledged, and it is registered until it is deleted.
Asking(c) ==
  /\ cur[c] \in 1 .. uids
  /\ cbus[c] = "new" <=> IsSet(cur[c])
  /\ cbus[c] # "new" => cur[c] \in reg \cup freed
  /\ cbus[c] = "got" =>
       /\ obj[cur[c]].loco # 0 /\ inbox[c] # <<>>
       /\ Head(inbox[c]).loco = obj[cur[c]].loco \/ <<cur[c], "crossed">> \in raced
  /\ cbus[c] = "new" /\ obj[cur[c]].orphan => <<cur[c], "hurried">> \in raced
  /\ ending[c] # "no" /\ cbus[c] = "got" => cur[c] \in freed
  /\ ending[c] # "no" /\ cbus[c] = "idle" => cur[c] \in freed

Requests ==
  /\ \A c \in Conns : Live(c) => Asking(c)
  /\ \A c, d \in Conns : Live(c) /\ Live(d) /\ c # d => cur[c] # cur[d]

\* An orphan has a number, and what has one has a locomotive.
Numbered ==
  \A u \in 1 .. uids : /\ obj[u].orphan => IsSet(u)
                       /\ IsSet(u) => obj[u].loco # 0

\* A throttle holds numbered sessions, each under one locomotive.
Holding ==
  \A c \in Conns : \A l \in DOMAIN held[c] :
    /\ IsSet(held[c][l])
    /\ \A k \in DOMAIN held[c] : held[c][k] = held[c][l] => k = l

\* KLOC was sent for what is about to be deleted.
Kloced(u) == obj[u].sid \in killed

Leaving ==
  \A c \in Conns :
    /\ recv[c] = "release" => \A l \in target[c] :
         /\ ending[c] = "no" => l \in DOMAIN held[c]
         /\ l \in DOMAIN held[c] => Kloced(held[c][l])
    /\ recv[c] = "clear" => \A l \in DOMAIN held[c] :
         Kloced(held[c][l]) \/ <<held[c][l], "tardy">> \in raced
    /\ ending[c] = "sleep" => \A l \in DOMAIN held[c] : Kloced(held[c][l])

\* The last session of the registry has no number, or is being acknowledged.
Behind ==
  sweep # 0 \/ ~stopped =>
    \A m \in reg : (\A v \in reg : v <= m) => ~IsSet(m) \/ m \in Acknowledged

\* What the sweep stands at.
Iterator ==
  /\ sweep <= Cardinality(reg) + 1 /\ strayed = 0
  /\ victim # 0 =>
       /\ sweep # 0 /\ victim \in AtIterator /\ IsSet(victim) /\ Kloced(victim)
       /\ \A c \in Conns : phase[c] = "up" /\ victim \in HeldBy(c) =>
            <<victim, "shared">> \in raced
       /\ (\A v \in reg : v <= victim) => <<victim, "hurried">> \in raced

Custody ==
  /\ Ends /\ Requests /\ Numbered /\ Holding /\ Leaving /\ Behind /\ Iterator
  /\ HeldIsSound

Safe == ForgottenIsReleased /\ SweepInBounds /\ (~undefined => Custody)

IInv == TypeOK /\ Safe

-----------------------------------------------------------------------------
(* What the operators of the model return.                                 *)

\* The head and the tail of a sequence, entry by entry.
LEMMA TailIs ==
  ASSUME NEW T, NEW s \in Seq(T), s # <<>>
  PROVE  /\ Head(s) = s[1] /\ Head(s) \in T /\ 1 \in 1 .. Len(s)
         /\ Tail(s) \in Seq(T) /\ Len(Tail(s)) = Len(s) - 1 /\ Len(s) \in Nat
         /\ \A i \in 1 .. Len(Tail(s)) :
              i + 1 \in 1 .. Len(s) /\ Tail(s)[i] = s[i + 1]
  OBVIOUS

\* A throttle's map is a function from some of the locomotives to uids.
LEMMA MapsElim ==
  ASSUME NEW n, NEW f \in Maps(n)
  PROVE  /\ DOMAIN f \subseteq Locos
         /\ \A l \in DOMAIN f : f[l] \in 1 .. n
  BY DEF Maps

LEMMA MapsIntro ==
  ASSUME NEW n, NEW L \in SUBSET Locos, NEW f \in [L -> 1 .. n]
  PROVE  f \in Maps(n)
  BY DEF Maps

\* A map stays one when there are more uids.
LEMMA MapsGrow ==
  ASSUME NEW n \in Nat, NEW f \in Maps(n)
  PROVE  f \in Maps(n + 1)
<1>1. PICK L \in SUBSET Locos : f \in [L -> 1 .. n]
  BY DEF Maps
<1>2. f \in [L -> 1 .. n + 1]
  BY <1>1
<1>. QED
  BY <1>2, MapsIntro

\* Deleting entries of a map, and inserting one.
LEMMA WithoutTyped ==
  ASSUME NEW n, NEW f \in Maps(n), NEW S
  PROVE  Without(f, S) \in Maps(n)
<1>1. Without(f, S) \in [DOMAIN f \ S -> 1 .. n]
  BY MapsElim DEF Without
<1>2. DOMAIN f \ S \subseteq Locos
  BY MapsElim
<1>. QED
  BY <1>1, <1>2, MapsIntro

LEMMA InsertedTyped ==
  ASSUME NEW n, NEW f \in Maps(n), NEW l \in Locos, NEW u \in 1 .. n
  PROVE  Inserted(f, l, u) \in Maps(n)
<1>1. Inserted(f, l, u) \in [DOMAIN f \cup {l} -> 1 .. n]
  BY MapsElim DEF Inserted
<1>2. DOMAIN f \cup {l} \subseteq Locos
  BY MapsElim
<1>. QED
  BY <1>1, <1>2, MapsIntro

LEMMA EmptyTyped == \A n : <<>> \in Maps(n)
<1>1. \A n : <<>> \in [{} -> 1 .. n]
  OBVIOUS
<1>. QED
  BY <1>1, MapsIntro

\* What a throttle holds are sessions that were created.
LEMMA HeldTyped ==
  ASSUME TypeOK, NEW c \in Conns
  PROVE  /\ held[c] \in Maps(uids)
         /\ DOMAIN held[c] \subseteq Locos
         /\ \A l \in DOMAIN held[c] : held[c][l] \in 1 .. uids
         /\ HeldBy(c) \subseteq 1 .. uids
<1>1. held[c] \in Maps(uids)
  BY DEF TypeOK, ClientsOK
<1>. QED
  BY <1>1, MapsElim DEF HeldBy

\* The registry is finite; its iterator counts the sessions up to one.
LEMMA UidsFinite ==
  ASSUME NEW n \in Nat, NEW S \in SUBSET (1 .. n)
  PROVE  IsFiniteSet(S) /\ Cardinality(S) \in Nat /\ Cardinality(S) <= n
<1>1. IsFiniteSet(1 .. n) /\ Cardinality(1 .. n) = n
  BY FS_Interval
<1>2. IsFiniteSet(S) /\ Cardinality(S) <= n
  BY <1>1, FS_Subset
<1>. QED
  BY <1>2, FS_CardinalityType

LEMMA RegistryFinite ==
  ASSUME RegistryOK
  PROVE  /\ IsFiniteSet(reg) /\ Cardinality(reg) \in Nat
         /\ Cardinality(reg) <= uids
<1>1. uids \in Nat /\ reg \in SUBSET (1 .. uids)
  BY SessionsAssumption DEF RegistryOK
<1>. QED
  BY <1>1, UidsFinite

LEMMA PositionBounds ==
  ASSUME RegistryOK, NEW u \in reg
  PROVE  Position(u) \in 1 .. Cardinality(reg)
<1>. DEFINE S == {v \in reg : v <= u}
<1>1. IsFiniteSet(S) /\ Cardinality(S) <= Cardinality(reg)
  BY RegistryFinite, FS_Subset
<1>2. Cardinality(S) \in Nat
  BY <1>1, FS_CardinalityType
<1>3. S # {}
  BY DEF RegistryOK
<1>4. Cardinality(S) # 0
  BY <1>1, <1>3, FS_EmptySet
<1>. QED
  BY <1>1, <1>2, <1>4, RegistryFinite DEF Position

\* The order of the vector is the order of the uids.
LEMMA PositionRises ==
  ASSUME RegistryOK, NEW u \in reg, NEW v \in reg, u < v
  PROVE  Position(u) < Position(v)
<1>. DEFINE S == {x \in reg : x <= u}
            T == {x \in reg : x <= v}
<1>1. S \in SUBSET T /\ S # T
  <2>1. u \in Nat /\ v \in Nat /\ \A x \in reg : x \in Nat
    BY SessionsAssumption DEF RegistryOK
  <2>2. v \in T /\ v \notin S
    BY <2>1
  <2>3. \A x \in reg : x <= u => x <= v
    BY <2>1
  <2>. QED
    BY <2>2, <2>3 DEF S, T
<1>2. IsFiniteSet(T) /\ IsFiniteSet(S)
  BY RegistryFinite, FS_Subset
<1>3. Cardinality(S) \in Nat /\ Cardinality(T) \in Nat
  BY <1>2, FS_CardinalityType
<1>4. Cardinality(S) <= Cardinality(T) /\ Cardinality(S) # Cardinality(T)
  BY <1>1, <1>2, FS_Subset
<1>. QED
  BY <1>3, <1>4 DEF Position

\* The iterator points at one session.
LEMMA OneAtIterator ==
  ASSUME RegistryOK, NEW u \in AtIterator
  PROVE  AtIterator = {u}
<1>1. \A v, w \in reg : v # w => Position(v) # Position(w)
  <2>1. SUFFICES ASSUME NEW v \in reg, NEW w \in reg, v < w \/ w < v
                 PROVE  Position(v) # Position(w)
    <3>1. uids \in Nat /\ \A x \in reg : x \in 1 .. uids
      BY SessionsAssumption DEF RegistryOK
    <3>2. \A v, w \in reg : v # w => v < w \/ w < v
      BY <3>1
    <3>. QED
      BY <3>2
  <2>2. Position(v) \in Nat /\ Position(w) \in Nat
    BY PositionBounds, RegistryFinite
  <2>. QED
    BY <2>1, <2>2, PositionRises
<1>. QED
  BY <1>1 DEF AtIterator

\* A finite set of uids that is not empty has a least one.
LEMMA LeastElement ==
  ASSUME NEW S \in SUBSET Nat, IsFiniteSet(S), S # {}
  PROVE  \E u \in S : \A v \in S : u <= v
<1>. DEFINE Below(n) == {m \in S : m <= n}
            T == {Below(n) : n \in S}
<1>1. T \subseteq FiniteSubsetsOf(S) /\ T # {}
  <2>1. \A n \in S : Below(n) \in SUBSET S
    OBVIOUS
  <2>2. \A n \in S : IsFiniteSet(Below(n))
    BY <2>1, FS_Subset
  <2>. QED
    BY <2>1, <2>2 DEF FiniteSubsetsOf
<1>2. PICK X \in T : \A Y \in T : <<Y, X>> \notin StrictSubsetOrdering(S)
  BY <1>1, FS_StrictSubsetOrderingWellFounded, WFMin
<1>3. PICK n \in S : X = Below(n)
  BY <1>2
<1>4. ASSUME NEW k \in S, k < n
      PROVE  FALSE
  <2>1. Below(k) \in T /\ Below(k) \in SUBSET S /\ X \in SUBSET S
    BY <1>3
  <2>2. \A m \in Nat : m <= k => m <= n
    BY <1>4
  <2>3. Below(k) \subseteq X
    BY <1>3, <2>2
  <2>4. n \in X /\ n \notin Below(k)
    BY <1>3, <1>4
  <2>5. <<Below(k), X>> \in StrictSubsetOrdering(S)
    BY <2>1, <2>3, <2>4 DEF StrictSubsetOrdering
  <2>. QED
    BY <1>2, <2>1, <2>5
<1>. QED
  BY <1>4
\* And a greatest one.
LEMMA GreatestElement ==
  ASSUME NEW S \in SUBSET Nat, IsFiniteSet(S), S # {}
  PROVE  \E u \in S : \A v \in S : v <= u
<1>. DEFINE Above(n) == {m \in S : n <= m}
            T == {Above(n) : n \in S}
<1>1. T \subseteq FiniteSubsetsOf(S) /\ T # {}
  <2>1. \A n \in S : Above(n) \in SUBSET S
    OBVIOUS
  <2>2. \A n \in S : IsFiniteSet(Above(n))
    BY <2>1, FS_Subset
  <2>. QED
    BY <2>1, <2>2 DEF FiniteSubsetsOf
<1>2. PICK X \in T : \A Y \in T : <<Y, X>> \notin StrictSubsetOrdering(S)
  BY <1>1, FS_StrictSubsetOrderingWellFounded, WFMin
<1>3. PICK n \in S : X = Above(n)
  BY <1>2
<1>4. ASSUME NEW k \in S, n < k
      PROVE  FALSE
  <2>1. Above(k) \in T /\ Above(k) \in SUBSET S /\ X \in SUBSET S
    BY <1>3
  <2>2. \A m \in Nat : k <= m => n <= m
    BY <1>4
  <2>3. Above(k) \subseteq X
    BY <1>3, <2>2
  <2>4. n \in X /\ n \notin Above(k)
    BY <1>3, <1>4
  <2>5. <<Above(k), X>> \in StrictSubsetOrdering(S)
    BY <2>1, <2>3, <2>4 DEF StrictSubsetOrdering
  <2>. QED
    BY <1>2, <2>1, <2>5
<1>. QED
  BY <1>4

\* The last session of the registry is the last of any part that has it.
LEMMA LastStays ==
  ASSUME RegistryOK, NEW r \in SUBSET reg,
         \A m \in reg : (\A v \in reg : v <= m) => m \in r,
         NEW k \in r, \A v \in r : v <= k
  PROVE  \A v \in reg : v <= k
<1>1. reg \in SUBSET Nat /\ IsFiniteSet(reg) /\ reg # {}
  BY RegistryFinite, SessionsAssumption DEF RegistryOK
<1>2. PICK m \in reg : \A v \in reg : v <= m
  BY <1>1, GreatestElement
<1>3. m <= k /\ k <= m
  BY <1>2
<1>4. m = k
  BY <1>1, <1>3
<1>. QED
  BY <1>2, <1>4


\* The session that FirstOf chooses is one of the locomotive.
LEMMA FirstOfIs ==
  ASSUME RegistryOK, NEW S \in SUBSET reg, NEW l, \E u \in S : obj[u].loco = l
  PROVE  FirstOf(S, l) \in S /\ obj[FirstOf(S, l)].loco = l
<1>. DEFINE T == {u \in S : obj[u].loco = l}
<1>1. T \in SUBSET Nat /\ T # {} /\ T \in SUBSET reg
  <2>1. T \subseteq reg /\ T # {}
    OBVIOUS
  <2>2. uids \in Nat /\ reg \subseteq 1 .. uids
    BY SessionsAssumption DEF RegistryOK
  <2>3. reg \subseteq Nat
    BY <2>2
  <2>. QED
    BY <2>1, <2>3
<1>2. PICK u \in T : \A v \in T : u <= v
  BY <1>1, RegistryFinite, FS_Subset, LeastElement
<1>3. u \in S /\ obj[u].loco = l /\ \A v \in S : obj[v].loco = l => u <= v
  BY <1>2
<1>. QED
  BY <1>3 DEF FirstOf

\* What a new connection takes over are registered sessions of its device.
LEMMA TakenOver ==
  ASSUME TypeOK, Numbered, NEW c \in Conns,
         NEW m, m = MapOf(Retrieved(c)), NEW l \in DOMAIN m
  PROVE  /\ m[l] \in reg /\ obj[m[l]].ip = IpOf[c] /\ obj[m[l]].loco = l
         /\ m[l] \in 1 .. uids
         /\ IsSet(m[l]) => l \in Locos
<1>1. Retrieved(c) \in SUBSET reg /\ \E u \in Retrieved(c) : obj[u].loco = l
  BY DEF Retrieved, MapOf
<1>2. m[l] = FirstOf(Retrieved(c), l)
  BY DEF MapOf
<1>3. m[l] \in Retrieved(c) /\ obj[m[l]].loco = l
  BY <1>1, <1>2, FirstOfIs DEF TypeOK
<1>4. m[l] \in 1 .. uids
  BY <1>1, <1>3 DEF TypeOK, RegistryOK
<1>5. obj[m[l]].loco \in Locos \cup {0}
  BY <1>4 DEF TypeOK, RegistryOK, EdSession
<1>6. IsSet(m[l]) => l \in Locos
  BY <1>3, <1>4, <1>5 DEF Numbered
<1>. QED
  BY <1>3, <1>4, <1>6 DEF Retrieved

\* SetToSeq lists the elements of a finite set.
LEMMA SetToSeqTyped ==
  ASSUME NEW T, IsFiniteSet(T)
  PROVE  /\ Cardinality(T) \in Nat
         /\ SetToSeq(T) \in [1 .. Cardinality(T) -> T]
<1>1. PICK f : f \in Bijection(1 .. Cardinality(T), T)
  BY FS_CardinalityType DEF ExistsBijection
<1>2. f \in [1 .. Cardinality(T) -> T] /\ IsInjective(f)
  BY <1>1 DEF Bijection, Injection
<1>. QED
  BY <1>2, FS_CardinalityType DEF SetToSeq

\* KLOC is sent for each session of a set, in any order.
\* KLOC is sent for each session of a set, in any order.
LEMMA KlocsSent ==
  ASSUME NEW S \in SUBSET (1 .. MaxSid)
  PROVE  SetToSeq({Kloc(s) : s \in S}) \in Seq(Command)
<1>. DEFINE T == {Kloc(s) : s \in S}
<1>1. IsFiniteSet(S)
  <2>1. IsFiniteSet(1 .. MaxSid)
    BY FS_Interval, SessionsAssumption
  <2>. QED
    BY <2>1, FS_Subset
<1>2. IsFiniteSet(T)
  <2>1. [s \in S |-> Kloc(s)] \in Surjection(S, T)
    BY DEF Surjection
  <2>. QED
    BY <1>1, <2>1, FS_Surjection
<1>3. T \subseteq Command
  BY SessionsAssumption DEF Kloc, Command
<1>. HIDE DEF T
<1>4. SetToSeq(T) \in [1 .. Cardinality(T) -> T] /\ Cardinality(T) \in Nat
  BY <1>2, SetToSeqTyped
<1>5. SetToSeq(T) \in Seq(T)
  BY <1>4
<1>6. SetToSeq(T) \in Seq(Command)
  BY <1>3, <1>5
<1>. QED
  BY <1>6 DEF T

\* The numbers of some sessions.
LEMMA SidsTyped ==
  ASSUME RegistryOK, NEW S \in SUBSET (1 .. uids)
  PROVE  {obj[u].sid : u \in S} \ {0} \in SUBSET (1 .. MaxSid)
<1>1. \A u \in 1 .. uids : obj[u].sid \in 0 .. MaxSid
  BY DEF RegistryOK, EdSession
<1>. QED
  BY <1>1, SessionsAssumption

-----------------------------------------------------------------------------
(* Types: what each action leaves well formed.                             *)

LEMMA InitTyped == Init => TypeOK
<1>. SUFFICES ASSUME Init PROVE TypeOK
  OBVIOUS
<1>. USE SessionsAssumption DEF Init
<1>1. RegistryOK
  <2>1. obj \in [1 .. uids -> EdSession]
    <3>1. 1 .. 0 = {}
      OBVIOUS
    <3>2. <<>> \in [{} -> EdSession]
      OBVIOUS
    <3>. QED
      BY <3>1, <3>2
  <2>. QED
    BY <2>1 DEF RegistryOK
<1>2. ClientsOK
  <2>1. held \in [Conns -> Maps(uids)]
    BY EmptyTyped
  <2>2. inbox \in [Conns -> Seq(Answer)] /\ cur \in [Conns -> 0 .. uids]
    OBVIOUS
  <2>. QED
    BY <2>1, <2>2 DEF ClientsOK
<1>3. SweeperOK
  <2>1. sweep = 0 /\ victim = 0 /\ strayed = 0 /\ uids = 0 /\ stopped = FALSE
    OBVIOUS
  <2>2. sweep \in 0 .. MaxUid + 1 /\ victim \in 0 .. uids /\ strayed \in 0 .. uids
    BY <2>1
  <2>3. stopped \in BOOLEAN
    BY <2>1
  <2>. QED
    BY <2>2, <2>3 DEF SweeperOK
<1>4. StationOK
  BY DEF StationOK
<1>5. FaultsOK
  BY DEF FaultsOK
<1>. QED
  BY <1>1, <1>2, <1>3, <1>4, <1>5 DEF TypeOK

\* The parts of the type that an action leaves alone.
LEMMA RegistryStays ==
  RegistryOK /\ UNCHANGED <<registry, obj>> => RegistryOK'
  BY DEF RegistryOK, registry

LEMMA ClientsStay ==
  ClientsOK /\ UNCHANGED <<registry, clients>> => ClientsOK'
  BY DEF ClientsOK, registry, clients

LEMMA SweeperStays ==
  SweeperOK /\ uids' = uids /\ UNCHANGED sweeper => SweeperOK'
  BY DEF SweeperOK, sweeper

LEMMA StationStays ==
  StationOK /\ UNCHANGED station => StationOK'
  BY DEF StationOK, station

LEMMA FaultsStay ==
  FaultsOK /\ uids' = uids /\ UNCHANGED faults => FaultsOK'
  BY DEF FaultsOK, faults

\* The uids of a throttle.
LEMMA UsedTyped ==
  ASSUME TypeOK, NEW c \in Conns
  PROVE  /\ HeldBy(c) \subseteq 1 .. uids
         /\ \A S : SharedOf(c, S) \subseteq S
  BY HeldTyped DEF SharedOf

\* Recording that some sessions were lost to a race, and deleting some.
LEMMA LostTyped ==
  ASSUME FaultsOK, NEW S \in SUBSET (1 .. uids), NEW race \in Races,
         Lost(S, race), uids' = uids, undefined' \in BOOLEAN
  PROVE  FaultsOK'
  BY DEF FaultsOK, Lost

LEMMA DeleteTyped ==
  ASSUME TypeOK, NEW c \in Conns, NEW S \in SUBSET (1 .. uids), Delete(c, S),
         UNCHANGED <<uids, obj>>
  PROVE  RegistryOK' /\ FaultsOK'
<1>1. RegistryOK'
  BY DEF TypeOK, RegistryOK, Delete
<1>2. SharedOf(c, S) \in SUBSET (1 .. uids)
  BY UsedTyped
<1>3. undefined' \in BOOLEAN /\ Lost(SharedOf(c, S), "shared")
  BY DEF Delete
<1>4. FaultsOK'
  BY <1>2, <1>3, LostTyped DEF TypeOK, Races
<1>. QED
  BY <1>1, <1>4

\* Sending KLOC for numbered sessions keeps the types.
LEMMA KlocsTyped ==
  ASSUME StationOK, NEW S \in SUBSET (1 .. MaxSid), SendKlocs(S),
         UNCHANGED <<engines, sids>>
  PROVE  StationOK'
<1>. DEFINE ks == SetToSeq({Kloc(s) : s \in S})
<1>0. ks \in Seq(Command)
  BY KlocsSent
<1>1. toCs' \in Seq(Command)
  <2>1. toCs' = toCs \o ks
    BY DEF SendKlocs
  <2>. HIDE DEF ks
  <2>. QED
    BY <1>0, <2>1 DEF StationOK
<1>. QED
  BY <1>1 DEF SendKlocs, StationOK

\* So does changing a session in one of the ways the program does.
LEMMA SessionUpdated ==
  ASSUME NEW e \in EdSession
  PROVE  /\ \A l \in Locos : [e EXCEPT !.loco = l] \in EdSession
         /\ \A s \in 0 .. MaxSid : [e EXCEPT !.sid = s] \in EdSession
         /\ [e EXCEPT !.late = TRUE] \in EdSession
         /\ [e EXCEPT !.orphan = TRUE] \in EdSession
         /\ [e EXCEPT !.orphan = FALSE] \in EdSession
         /\ [e EXCEPT !.orphan = FALSE, !.late = FALSE] \in EdSession
  BY DEF EdSession

LEMMA NewSessionTyped ==
  ASSUME NEW c \in Conns
  PROVE  NewSession(c) \in EdSession
  BY SessionsAssumption DEF NewSession, EdSession

\* And creating one.
LEMMA CreateTyped ==
  ASSUME TypeOK, NEW c \in Conns, NEW o \in [1 .. uids -> EdSession],
         Create(c, o)
  PROVE  /\ uids \in Nat /\ uids' = uids + 1 /\ uids' \in 0 .. MaxUid
         /\ 1 .. uids \subseteq 1 .. uids'
         /\ obj' \in [1 .. uids' -> EdSession]
         /\ cur' \in [Conns -> 0 .. uids']
         /\ UNCHANGED sweeper => SweeperOK'
<1>1. uids \in Nat /\ MaxUid \in Nat /\ uids' = uids + 1 /\ uids' \in 0 .. MaxUid
  BY SessionsAssumption DEF TypeOK, RegistryOK, Create
<1>2. obj' \in [1 .. uids' -> EdSession]
  BY <1>1, NewSessionTyped DEF Create
<1>3. cur' \in [Conns -> 0 .. uids']
  BY <1>1 DEF Create, TypeOK, ClientsOK
<1>4. UNCHANGED sweeper => SweeperOK'
  BY <1>1 DEF sweeper, SweeperOK, TypeOK
<1>. QED
  BY <1>1, <1>2, <1>3, <1>4

\* One lemma per action.
LEMMA ConnectTyped ==
  ASSUME TypeOK, Numbered, NEW c \in Conns, Connect(c)
  PROVE  TypeOK'
<1>. DEFINE m == MapOf(Retrieved(c))
            unset == {l \in DOMAIN m : ~IsSet(m[l])}
            S == {m[l] : l \in unset}
<1>1. Adopted(c) \in [1 .. uids -> EdSession]
  BY DEF TypeOK, RegistryOK, EdSession, Adopted
<1>2. S \in SUBSET (1 .. uids)
  <2>1. \A l \in DOMAIN m : m[l] \in 1 .. uids
    BY TakenOver
  <2>. QED
    BY <2>1
<1>. HIDE DEF m
<1>3. /\ uids \in Nat /\ uids' = uids + 1 /\ uids' \in 0 .. MaxUid
      /\ 1 .. uids \subseteq 1 .. uids' /\ obj' \in [1 .. uids' -> EdSession]
      /\ cur' \in [Conns -> 0 .. uids'] /\ SweeperOK'
  BY <1>1, CreateTyped DEF Connect
<1>4. RegistryOK'
  <2>1. reg' = (reg \ S) \cup {uids + 1} /\ freed' = freed \cup S
    BY DEF Connect, m
  <2>. HIDE DEF S
  <2>. QED
    BY <1>2, <1>3, <2>1 DEF TypeOK, RegistryOK
<1>5. Without(m, unset) \in Maps(uids)
  <2>1. Without(m, unset) = [l \in DOMAIN m \ unset |-> m[l]]
    BY DEF Without
  <2>2. \A l \in DOMAIN m \ unset : l \in Locos /\ m[l] \in 1 .. uids
    BY TakenOver DEF m
  <2>3. DOMAIN m \ unset \in SUBSET Locos
    BY <2>2
  <2>4. Without(m, unset) \in [DOMAIN m \ unset -> 1 .. uids]
    BY <2>1, <2>2
  <2>. HIDE DEF unset
  <2>. QED
    BY <2>3, <2>4, MapsIntro
<1>6. held' \in [Conns -> Maps(uids')]
  <2>1. \A d \in Conns : held[d] \in Maps(uids')
    BY <1>3, MapsGrow, HeldTyped
  <2>2. Without(m, unset) \in Maps(uids')
    BY <1>3, <1>5, MapsGrow
  <2>3. /\ held \in [Conns -> Maps(uids)]
        /\ held' = [held EXCEPT ![c] = Without(m, unset)]
    BY DEF TypeOK, ClientsOK, Connect, m
  <2>. HIDE DEF unset
  <2>. QED
    BY <2>1, <2>2, <2>3
<1>7. ClientsOK'
  BY <1>3, <1>6 DEF TypeOK, ClientsOK, Connect
<1>8. StationOK'
  BY StationStays DEF TypeOK, Connect
<1>9. FaultsOK'
  <2>1. SharedOf(c, S) \in SUBSET (1 .. uids')
    BY <1>2, <1>3, UsedTyped
  <2>2. raced' = raced \cup SharedOf(c, S) \X {"shared"} /\ UNCHANGED undefined
    BY DEF Connect, Lost, m
  <2>. HIDE DEF S
  <2>. QED
    BY <1>3, <2>1, <2>2 DEF TypeOK, FaultsOK, Races
<1>. QED
  BY <1>3, <1>4, <1>7, <1>8, <1>9 DEF TypeOK

LEMMA DisconnectTyped ==
  ASSUME TypeOK, NEW c \in Conns, Disconnect(c)
  PROVE  TypeOK'
<1>. USE SessionsAssumption DEF TypeOK
<1>1. RegistryOK'
  BY SessionUpdated DEF Disconnect, registry, RegistryOK
<1>2. ClientsOK'
  BY HeldTyped DEF Disconnect, registry, ClientsOK
<1>3. SweeperOK' /\ StationOK'
  BY SweeperStays, StationStays DEF Disconnect, registry
<1>4. FaultsOK'
  <2>1. HeldBy(c) \subseteq 1 .. uids /\ SharedOf(c, HeldBy(c)) \subseteq 1 .. uids
    BY UsedTyped
  <2>. QED
    BY <2>1 DEF Disconnect, registry, FaultsOK, Races
<1>. QED
  BY <1>1, <1>2, <1>3, <1>4

LEMMA GoneTyped ==
  ASSUME TypeOK, NEW c \in Conns, Gone(c)
  PROVE  TypeOK'
<1>. USE SessionsAssumption DEF TypeOK
<1>1. RegistryOK' /\ SweeperOK' /\ StationOK' /\ FaultsOK'
  BY RegistryStays, SweeperStays, StationStays, FaultsStay DEF Gone, registry
<1>2. ClientsOK'
  <2>1. <<>> \in Maps(uids) /\ <<>> \in Seq(Answer) /\ 0 \in 0 .. uids
    BY EmptyTyped DEF RegistryOK
  <2>. QED
    BY <2>1 DEF Gone, registry, ClientsOK
<1>. QED
  BY <1>1, <1>2

LEMMA RequestTyped ==
  ASSUME TypeOK, NEW c \in Conns, NEW l \in Wants[c], Request(c, l),
         cur[c] \in 1 .. uids
  PROVE  TypeOK'
<1>. USE SessionsAssumption DEF TypeOK
<1>0. l \in Locos
  OBVIOUS
<1>1. RegistryOK'
  BY <1>0, SessionUpdated DEF Request, registry, RegistryOK
<1>2. ClientsOK'
  BY HeldTyped DEF Request, registry, ClientsOK
<1>3. SweeperOK'
  BY SweeperStays DEF Request, registry
<1>4. StationOK'
  <2>1. Rloc(l) \in Command
    BY <1>0 DEF Command, Rloc
  <2>. QED
    BY <2>1 DEF Request, StationOK
<1>5. FaultsOK'
  BY LostTyped DEF Request, registry, FaultsOK, Races
<1>. QED
  BY <1>1, <1>2, <1>3, <1>4, <1>5

\* The end of a handler.
LEMMA HandledTyped ==
  ASSUME ClientsOK, NEW c \in Conns, Handled(c)
  PROVE  /\ phase' \in [Conns -> {"new", "up", "down", "gone"}]
         /\ recv' \in [Conns -> {"idle", "wait", "release", "clear"}]
         /\ target' \in [Conns -> SUBSET Locos]
  BY DEF ClientsOK, Handled

LEMMA WaitOverTyped ==
  ASSUME TypeOK, NEW c \in Conns, WaitOver(c) \/ Leave(c)
  PROVE  TypeOK'
<1>. USE DEF TypeOK
<1>1. RegistryOK' /\ SweeperOK' /\ StationOK' /\ FaultsOK'
  BY RegistryStays, SweeperStays, StationStays, FaultsStay DEF WaitOver, Leave, registry
<1>2. ClientsOK'
  BY HandledTyped DEF WaitOver, Leave, registry, ClientsOK
<1>. QED
  BY <1>1, <1>2

LEMMA ReleaseTyped ==
  ASSUME TypeOK, NEW c \in Conns, NEW L \in SUBSET DOMAIN held[c],
         NEW how \in {"release", "clear"}, Release(c, L, how)
  PROVE  TypeOK'
<1>. USE DEF TypeOK
<1>1. RegistryOK' /\ SweeperOK' /\ FaultsOK'
  BY RegistryStays, SweeperStays, FaultsStay DEF Release, registry
<1>2. ClientsOK'
  BY HeldTyped DEF Release, registry, ClientsOK
<1>3. StationOK'
  <2>1. {held[c][l] : l \in L} \in SUBSET (1 .. uids)
    BY HeldTyped
  <2>2. {obj[u].sid : u \in {held[c][l] : l \in L}} = {obj[held[c][l]].sid : l \in L}
    OBVIOUS
  <2>3. {obj[held[c][l]].sid : l \in L} \ {0} \in SUBSET (1 .. MaxSid)
    BY <2>1, <2>2, SidsTyped
  <2>. QED
    BY <2>3, KlocsTyped DEF Release
<1>. QED
  BY <1>1, <1>2, <1>3

LEMMA ReleasedTyped ==
  ASSUME TypeOK, NEW c \in Conns, Released(c)
  PROVE  TypeOK'
<1>. USE DEF TypeOK
<1>1. {held[c][l] : l \in Doomed(c)} \in SUBSET (1 .. uids)
  BY HeldTyped DEF Released, MayDelete
<1>2. RegistryOK' /\ FaultsOK'
  BY <1>1, DeleteTyped DEF Released
<1>3. ClientsOK'
  <2>1. Without(held[c], Doomed(c)) \in Maps(uids)
    BY HeldTyped, WithoutTyped
  <2>. QED
    BY <2>1, HandledTyped DEF Released, ClientsOK
<1>4. SweeperOK' /\ StationOK'
  BY SweeperStays, StationStays DEF Released
<1>. QED
  BY <1>2, <1>3, <1>4

LEMMA PlocTyped ==
  ASSUME TypeOK, NEW c \in Conns, Ploc(c)
  PROVE  TypeOK'
<1>. USE DEF TypeOK
<1>1. RegistryOK' /\ SweeperOK' /\ StationOK' /\ FaultsOK'
  BY RegistryStays, SweeperStays, StationStays, FaultsStay DEF Ploc, registry
<1>2. ClientsOK'
  <2>1. inbox[c] \in Seq(Answer) /\ inbox[c] # <<>>
    BY DEF Ploc, ClientsOK
  <2>2. Tail(inbox[c]) \in Seq(Answer)
    BY <2>1
  <2>3. inbox' \in [Conns -> Seq(Answer)]
    BY <2>2 DEF Ploc, ClientsOK
  <2>4. \E b \in {"idle", "got", "exit"} : cbus' = [cbus EXCEPT ![c] = b]
    BY DEF Ploc
  <2>5. cbus' \in [Conns -> {"idle", "got", "new", "exit"}]
    BY <2>4 DEF ClientsOK
  <2>. QED
    BY <2>3, <2>5 DEF Ploc, registry, ClientsOK
<1>. QED
  BY <1>1, <1>2

LEMMA PlocAcceptTyped ==
  ASSUME TypeOK, NEW c \in Conns, PlocAccept(c),
         cur[c] \in 1 .. uids, inbox[c] # <<>>
  PROVE  TypeOK'
<1>1. inbox[c] \in Seq(Answer)
  BY DEF TypeOK, ClientsOK
<1>2. Head(inbox[c]) \in Answer /\ Tail(inbox[c]) \in Seq(Answer)
  BY <1>1
<1>3. Head(inbox[c]).loco \in Locos /\ Head(inbox[c]).sid \in 0 .. MaxSid
  BY <1>2, SessionsAssumption DEF Answer
<1>4. RegistryOK'
  BY <1>3, SessionUpdated DEF TypeOK, RegistryOK, registry, PlocAccept
<1>5. ClientsOK'
  <2>1. Inserted(held[c], Head(inbox[c]).loco, cur[c]) \in Maps(uids)
    BY <1>3, HeldTyped, InsertedTyped
  <2>. QED
    BY <1>2, <2>1 DEF TypeOK, ClientsOK, registry, PlocAccept
<1>6. SweeperOK' /\ StationOK'
  BY SweeperStays, StationStays DEF TypeOK, PlocAccept, registry
<1>7. FaultsOK'
  BY LostTyped DEF TypeOK, PlocAccept, registry, FaultsOK, Races
<1>. QED
  BY <1>4, <1>5, <1>6, <1>7 DEF TypeOK

LEMMA PlocNextTyped ==
  ASSUME TypeOK, NEW c \in Conns, PlocNext(c)
  PROVE  TypeOK'
<1>0. /\ uids \in Nat /\ uids' = uids + 1 /\ uids' \in 0 .. MaxUid
      /\ 1 .. uids \subseteq 1 .. uids' /\ obj' \in [1 .. uids' -> EdSession]
      /\ cur' \in [Conns -> 0 .. uids'] /\ SweeperOK'
  BY CreateTyped DEF TypeOK, RegistryOK, PlocNext
<1>1. RegistryOK'
  BY <1>0 DEF TypeOK, RegistryOK, PlocNext
<1>2. held' \in [Conns -> Maps(uids')]
  <2>1. \A d \in Conns : held[d] \in Maps(uids')
    BY <1>0, MapsGrow, HeldTyped
  <2>2. held \in [Conns -> Maps(uids)] /\ held' = held
    BY DEF TypeOK, ClientsOK, PlocNext
  <2>. QED
    BY <2>1, <2>2
<1>3. ClientsOK'
  BY <1>0, <1>2 DEF TypeOK, ClientsOK, PlocNext
<1>4. StationOK'
  BY StationStays DEF TypeOK, PlocNext
<1>5. FaultsOK'
  BY <1>0 DEF TypeOK, FaultsOK, faults, PlocNext
<1>. QED
  BY <1>0, <1>1, <1>3, <1>4, <1>5 DEF TypeOK

LEMMA KeepAliveTyped ==
  ASSUME TypeOK, NEW c \in Conns, NEW S, KeepAlive(c, S) \/ KeepAliveEnds(c)
  PROVE  TypeOK'
<1>. USE DEF TypeOK
<1>1. RegistryOK'
  BY SessionUpdated DEF KeepAlive, KeepAliveEnds, registry, RegistryOK
<1>2. ClientsOK'
  BY HeldTyped DEF KeepAlive, KeepAliveEnds, Running, registry, ClientsOK
<1>3. SweeperOK' /\ StationOK' /\ FaultsOK'
  BY SweeperStays, StationStays, FaultsStay DEF KeepAlive, KeepAliveEnds, registry
<1>. QED
  BY <1>1, <1>2, <1>3

LEMMA SweepStepTyped ==
  ASSUME TypeOK, SweepStart \/ SweepEnd \/ StopSweep
  PROVE  TypeOK'
<1>. USE SessionsAssumption DEF TypeOK
<1>1. RegistryOK' /\ ClientsOK' /\ StationOK'
  BY RegistryStays, ClientsStay, StationStays DEF SweepStart, SweepEnd, StopSweep
<1>2. SweeperOK'
  <2>1. sweep' \in {0, 1, sweep} /\ UNCHANGED <<uids, victim, strayed>>
    BY DEF SweepStart, SweepEnd, StopSweep, registry, sweeper
  <2>2. stopped' \in BOOLEAN
    BY DEF SweepStart, SweepEnd, StopSweep, sweeper, SweeperOK
  <2>. QED
    BY <2>1, <2>2 DEF SweeperOK
<1>3. FaultsOK'
  BY DEF SweepStart, SweepEnd, StopSweep, registry, faults, FaultsOK
<1>. QED
  BY <1>1, <1>2, <1>3

LEMMA SweepPassTyped ==
  ASSUME TypeOK, NEW u \in reg, SweepPass(u)
  PROVE  TypeOK'
<1>1. sweep' \in 0 .. MaxUid + 1
  <2>1. Position(u) \in 1 .. Cardinality(reg) /\ Position(u) = sweep
    BY PositionBounds DEF TypeOK, SweepPass, AtIterator
  <2>2. Cardinality(reg) <= uids /\ Cardinality(reg) \in Nat
    BY RegistryFinite DEF TypeOK
  <2>. QED
    BY <2>1, <2>2, SessionsAssumption DEF TypeOK, RegistryOK, SweepPass
<1>2. RegistryOK' /\ ClientsOK' /\ StationOK' /\ FaultsOK'
  BY RegistryStays, ClientsStay, StationStays, FaultsStay DEF TypeOK, SweepPass, registry
<1>3. SweeperOK'
  BY <1>1 DEF TypeOK, SweeperOK, SweepPass, registry
<1>. QED
  BY <1>2, <1>3 DEF TypeOK

LEMMA SweepKillTyped ==
  ASSUME TypeOK, Numbered, NEW u \in reg, SweepKill(u)
  PROVE  TypeOK'
<1>1. u \in 1 .. uids /\ IsSet(u) /\ obj[u] \in EdSession
  BY DEF TypeOK, RegistryOK, Numbered, SweepKill, Overdue
<1>2. obj[u].sid \in 1 .. MaxSid
  BY <1>1, SessionsAssumption DEF EdSession, IsSet
<1>3. RegistryOK' /\ ClientsOK' /\ FaultsOK'
  BY RegistryStays, ClientsStay, FaultsStay DEF TypeOK, SweepKill, registry
<1>4. SweeperOK'
  BY <1>1 DEF TypeOK, SweeperOK, SweepKill, registry
<1>5. StationOK'
  <2>1. Kloc(obj[u].sid) \in Command
    BY <1>2 DEF Kloc, Command
  <2>2. toCs' \in Seq(Command)
    BY <2>1 DEF TypeOK, StationOK, SweepKill
  <2>. QED
    BY <1>2, <2>2 DEF TypeOK, StationOK, SweepKill
<1>. QED
  BY <1>3, <1>4, <1>5 DEF TypeOK

LEMMA SweepEraseTyped ==
  ASSUME TypeOK, SweepErase
  PROVE  TypeOK'
<1>1. RegistryOK'
  BY DEF TypeOK, RegistryOK, SweepErase
<1>2. ClientsOK'
  BY DEF TypeOK, ClientsOK, clients, SweepErase
<1>3. SweeperOK'
  <2>1. Cardinality(reg) <= uids /\ Cardinality(reg) \in Nat
    BY RegistryFinite DEF TypeOK
  <2>2. sweep' \in 0 .. MaxUid + 1 /\ victim' \in 0 .. uids'
    BY <2>1, SessionsAssumption DEF TypeOK, RegistryOK, SweeperOK, SweepErase
  <2>3. strayed' \in 0 .. uids' /\ stopped' \in BOOLEAN
    BY DEF TypeOK, SweeperOK, SweepErase
  <2>. QED
    BY <2>2, <2>3 DEF SweeperOK
<1>4. StationOK'
  BY StationStays DEF TypeOK, SweepErase
<1>5. FaultsOK'
  BY DEF TypeOK, FaultsOK, SweepErase
<1>. QED
  BY <1>1, <1>2, <1>3, <1>4, <1>5 DEF TypeOK

LEMMA StopClientTyped ==
  ASSUME TypeOK, NEW c \in Conns, StopClient(c), cur[c] \in 1 .. uids
  PROVE  TypeOK'
<1>. DEFINE rest == Without(held[c], {obj[cur[c]].loco})
            S == {cur[c]} \cup {rest[l] : l \in DOMAIN rest}
<1>. USE DEF TypeOK
<1>1. RegistryOK' /\ FaultsOK'
  BY DeleteTyped DEF StopClient
<1>2. rest \in Maps(uids) /\ \A l \in DOMAIN rest : rest[l] \in 1 .. uids
  BY HeldTyped, WithoutTyped, MapsElim
<1>3. ClientsOK'
  BY <1>2 DEF StopClient, ClientsOK
<1>4. SweeperOK'
  BY SweeperStays DEF StopClient
<1>5. StationOK'
  <2>1. S \in SUBSET (1 .. uids)
    BY <1>2
  <2>2. SendKlocs({obj[u].sid : u \in S} \ {0}) /\ UNCHANGED <<engines, sids>>
    BY DEF StopClient
  <2>. HIDE DEF S
  <2>. QED
    BY <2>1, <2>2, SidsTyped, KlocsTyped
<1>. QED
  BY <1>1, <1>3, <1>4, <1>5

LEMMA StopDeleteTyped ==
  ASSUME TypeOK, NEW c \in Conns, StopDelete(c)
  PROVE  TypeOK'
<1>. USE DEF TypeOK
<1>1. RegistryOK' /\ FaultsOK'
  BY HeldTyped, DeleteTyped DEF StopDelete
<1>2. ClientsOK'
  BY EmptyTyped DEF StopDelete, ClientsOK
<1>3. SweeperOK' /\ StationOK'
  BY SweeperStays, StationStays DEF StopDelete
<1>. QED
  BY <1>1, <1>2, <1>3

LEMMA ElapseTyped ==
  ASSUME TypeOK, NEW u \in reg, Elapse(u)
  PROVE  TypeOK'
<1>. USE DEF TypeOK
<1>1. RegistryOK'
  BY SessionUpdated DEF Elapse, registry, RegistryOK
<1>2. ClientsOK' /\ SweeperOK' /\ StationOK' /\ FaultsOK'
  BY ClientsStay, SweeperStays, StationStays, FaultsStay DEF Elapse, registry
<1>. QED
  BY <1>1, <1>2

LEMMA StationGrantTyped ==
  ASSUME TypeOK, StationGrant
  PROVE  TypeOK'
<1>. DEFINE p == [loco |-> Head(toCs).loco, sid |-> sids + 1]
<1>1. toCs \in Seq(Command) /\ toCs # <<>>
  BY DEF TypeOK, StationOK, StationGrant
<1>2. Head(toCs) \in Command /\ Tail(toCs) \in Seq(Command)
  BY <1>1
<1>3. p \in Answer
  <2>1. Head(toCs).loco \in Locos
    BY <1>2 DEF Command, StationGrant
  <2>2. sids + 1 \in 1 .. MaxSid
    BY SessionsAssumption DEF TypeOK, StationOK, StationGrant
  <2>. QED
    BY <2>1, <2>2 DEF Answer
<1>4. ClientsOK'
  <2>1. \A d \in Conns : inbox[d] \in Seq(Answer) /\ Append(inbox[d], p) \in Seq(Answer)
    BY <1>3 DEF TypeOK, ClientsOK
  <2>2. inbox' = [d \in Conns |->
          IF phase[d] \in {"up", "down"} THEN Append(inbox[d], p) ELSE inbox[d]]
    BY DEF StationGrant
  <2>3. inbox' \in [Conns -> Seq(Answer)]
    BY <2>1, <2>2
  <2>. QED
    BY <2>3 DEF TypeOK, ClientsOK, registry, StationGrant
<1>5. StationOK'
  <2>1. sids + 1 \in 0 .. MaxSid
    BY SessionsAssumption DEF TypeOK, StationOK, StationGrant
  <2>. QED
    BY <1>2, <2>1 DEF TypeOK, StationOK, StationGrant
<1>6. RegistryOK' /\ SweeperOK' /\ FaultsOK'
  BY RegistryStays, SweeperStays, FaultsStay DEF TypeOK, StationGrant, registry
<1>. QED
  BY <1>4, <1>5, <1>6 DEF TypeOK

LEMMA StationTakesTyped ==
  ASSUME TypeOK, StationRefuse \/ StationRelease
  PROVE  TypeOK'
<1>. USE DEF TypeOK
<1>1. /\ RegistryOK' /\ ClientsOK' /\ SweeperOK' /\ FaultsOK'
  BY RegistryStays, ClientsStay, SweeperStays, FaultsStay
     DEF StationRefuse, StationRelease, registry
<1>2. StationOK'
  <2>1. Tail(toCs) \in Seq(Command)
    BY DEF StationOK, StationRefuse, StationRelease
  <2>2. engines' \in [Locos -> 0 .. MaxSid]
    BY SessionsAssumption DEF StationOK, StationRefuse, StationRelease
  <2>. QED
    BY <2>1, <2>2 DEF StationOK, StationRefuse, StationRelease
<1>. QED
  BY <1>1, <1>2

-----------------------------------------------------------------------------
(* What keeps each part of the invariant. An action needs to be looked at  *)
(* only where it goes beyond these conditions.                             *)

\* The sessions there are keep their numbers, the histories only grow, and
\* a throttle gets no further session.
SameSids == /\ 1 .. uids \subseteq 1 .. uids'
            /\ \A u \in 1 .. uids : obj'[u].sid = obj[u].sid
Grows == killed \subseteq killed' /\ raced \subseteq raced'
Fewer == \A c \in Conns : \A l \in DOMAIN held'[c] :
  l \in DOMAIN held[c] /\ held'[c][l] = held[c][l]

LEMMA NumberedKept ==
  ASSUME Numbered, uids' = uids, SameSids,
         \A u \in 1 .. uids : /\ obj'[u].orphan => obj[u].orphan \/ IsSet(u)
                              /\ IsSet(u) => obj'[u].loco # 0
  PROVE  Numbered'
  BY DEF Numbered, SameSids, IsSet

LEMMA HoldingKept ==
  ASSUME TypeOK, Holding, SameSids, Fewer
  PROVE  Holding'
<1>. SUFFICES ASSUME NEW c \in Conns, NEW l \in DOMAIN held'[c]
              PROVE  /\ IsSet(held[c][l])'
                     /\ \A k \in DOMAIN held'[c] : held'[c][k] = held'[c][l] => k = l
  BY DEF Holding
<1>1. l \in DOMAIN held[c] /\ held'[c][l] = held[c][l] /\ held[c][l] \in 1 .. uids
  BY HeldTyped DEF Fewer
<1>2. IsSet(held[c][l])'
  BY <1>1 DEF Holding, SameSids, IsSet
<1>3. \A k \in DOMAIN held'[c] : held'[c][k] = held'[c][l] => k = l
  BY <1>1 DEF Holding, Fewer
<1>. QED
  BY <1>2, <1>3

LEMMA LeavingKept ==
  ASSUME TypeOK, Leaving, SameSids, Fewer, Grows,
         \A c \in Conns :
           /\ recv'[c] \in {"release", "clear"} =>
                recv'[c] = recv[c] /\ target'[c] = target[c]
           /\ recv'[c] = "release" /\ ending'[c] = "no" =>
                held'[c] = held[c] /\ ending[c] = "no"
           /\ ending'[c] = "sleep" =>
                ending[c] = "sleep" \/ \A l \in DOMAIN held'[c] : Kloced(held[c][l])'
  PROVE  Leaving'
<1>1. \A c \in Conns : \A l \in DOMAIN held'[c] :
        /\ l \in DOMAIN held[c] /\ held'[c][l] = held[c][l]
        /\ held[c][l] \in 1 .. uids
        /\ Kloced(held[c][l]) => Kloced(held[c][l])'
  BY HeldTyped DEF Fewer, Kloced, SameSids, Grows
<1>. SUFFICES ASSUME NEW c \in Conns
       PROVE /\ recv'[c] = "release" => \A l \in target'[c] :
                /\ ending'[c] = "no" => l \in DOMAIN held'[c]
                /\ l \in DOMAIN held'[c] => Kloced(held[c][l])'
             /\ recv'[c] = "clear" => \A l \in DOMAIN held'[c] :
                Kloced(held[c][l])' \/ <<held'[c][l], "tardy">> \in raced'
             /\ ending'[c] = "sleep" => \A l \in DOMAIN held'[c] : Kloced(held[c][l])'
  BY DEF Leaving, Kloced
<1>2. recv'[c] = "release" => \A l \in target'[c] :
        /\ ending'[c] = "no" => l \in DOMAIN held'[c]
        /\ l \in DOMAIN held'[c] => Kloced(held[c][l])'
  BY <1>1 DEF Leaving
<1>3. recv'[c] = "clear" => \A l \in DOMAIN held'[c] :
        Kloced(held[c][l])' \/ <<held'[c][l], "tardy">> \in raced'
  BY <1>1 DEF Leaving, Grows
<1>4. ending'[c] = "sleep" => \A l \in DOMAIN held'[c] : Kloced(held[c][l])'
  BY <1>1 DEF Leaving
<1>. QED
  BY <1>2, <1>3, <1>4

LEMMA BehindKept ==
  ASSUME TypeOK, Behind, SameSids, reg' \subseteq reg,
         Acknowledged \subseteq Acknowledged',
         sweep' # 0 \/ ~stopped' => sweep # 0 \/ ~stopped,
         sweep' # 0 \/ ~stopped' =>
           \A m \in reg : (\A v \in reg : v <= m) => m \in reg'
  PROVE  Behind'
<1>. SUFFICES ASSUME sweep' # 0 \/ ~stopped', NEW m \in reg', \A v \in reg' : v <= m
              PROVE  ~IsSet(m)' \/ m \in Acknowledged'
  BY DEF Behind
<1>1. \A v \in reg : v <= m
  BY LastStays DEF TypeOK
<1>2. ~IsSet(m) \/ m \in Acknowledged
  BY <1>1 DEF Behind
<1>. QED
  BY <1>2 DEF SameSids, IsSet, TypeOK, RegistryOK

LEMMA IteratorKept ==
  ASSUME TypeOK, Iterator, SameSids, Grows, Fewer,
         UNCHANGED <<reg, sweep, victim, strayed>>,
         \A c \in Conns : phase'[c] = "up" => phase[c] = "up"
  PROVE  Iterator'
<1>1. AtIterator' = AtIterator
  BY DEF AtIterator, Position
<1>2. \A c \in Conns : victim' \in HeldBy(c)' => victim \in HeldBy(c)
  BY DEF Fewer, HeldBy
<1>3. victim # 0 => IsSet(victim)' /\ Kloced(victim)'
  BY DEF Iterator, SameSids, Grows, IsSet, Kloced, TypeOK, SweeperOK
<1>4. IsSet(victim)' = (obj'[victim'].sid # 0) /\ Kloced(victim)' = (obj'[victim'].sid \in killed')
  BY DEF IsSet, Kloced
<1>. QED
  BY <1>1, <1>2, <1>3, <1>4 DEF Iterator, Grows

\* Nothing but the sweep's own steps matters to a sweep that is not there.
LEMMA IteratorRests ==
  ASSUME TypeOK, Iterator, TypeOK', sweep = 0, UNCHANGED sweeper
  PROVE  Iterator'
<1>1. victim' = 0 /\ sweep' = 0 /\ strayed' = 0
  BY DEF Iterator, sweeper
<1>2. (Cardinality(reg) \in Nat)'
  <2>1. RegistryOK' => (Cardinality(reg) \in Nat)'
    BY RegistryFinite, PTL
  <2>. QED
    BY <2>1 DEF TypeOK
<1>. QED
  BY <1>1, <1>2 DEF Iterator

LEMMA RequestsKept ==
  ASSUME TypeOK, Requests, uids' = uids, SameSids, Grows,
         reg \cup freed \subseteq reg' \cup freed',
         \A c \in Conns : Live(c)' =>
           /\ Live(c) /\ cur'[c] = cur[c]
           /\ obj'[cur[c]].loco = obj[cur[c]].loco
           /\ cbus'[c] # cbus[c] => cbus[c] = "idle" /\ cbus'[c] = "exit"
           /\ cbus[c] = "got" => inbox'[c] # <<>> /\ Head(inbox'[c]) = Head(inbox[c])
           /\ cbus[c] = "new" /\ obj'[cur[c]].orphan =>
                obj[cur[c]].orphan \/ <<cur[c], "hurried">> \in raced'
           /\ ending'[c] # "no" => ending[c] # "no" \/ cur[c] \in freed'
                                   \/ cbus[c] \notin {"got", "idle"}
         , freed \subseteq freed'
  PROVE  Requests'
<1>1. ASSUME NEW c \in Conns, Live(c)'
      PROVE  Asking(c)'
  <2>1. Asking(c) /\ cur'[c] = cur[c] /\ cur[c] \in 1 .. uids
    BY <1>1 DEF Requests, Asking
  <2>2. IsSet(cur[c])' <=> IsSet(cur[c])
    BY <2>1 DEF SameSids, IsSet
  <2>. QED
    BY <1>1, <2>1, <2>2 DEF Asking, Grows
<1>2. \A c, d \in Conns : Live(c)' /\ Live(d)' /\ c # d => cur'[c] # cur'[d]
  BY DEF Requests
<1>. QED
  BY <1>1, <1>2 DEF Requests

LEMMA SoundKept ==
  ASSUME TypeOK, HeldIsSound, ~undefined, SameSids, Grows, Fewer,
         \A u \in 1 .. uids :
           /\ IsSet(u) => obj'[u].loco = obj[u].loco \/ <<u, "crossed">> \in raced'
         , \A c \in Conns : phase'[c] = "up" =>
           /\ phase[c] = "up" /\ cur'[c] = cur[c]
           /\ Running(c)' /\ cbus'[c] # "new" => Running(c) /\ cbus[c] # "new"
           /\ Running(c)' /\ cbus'[c] # "new" /\ cur[c] \in reg =>
                cur[c] \in reg' \/ <<cur[c], "shared">> \in raced'
           /\ \A l \in DOMAIN held'[c] : held[c][l] \in reg =>
                \/ /\ held[c][l] \in reg'
                   /\ obj'[held[c][l]].orphan => obj[held[c][l]].orphan
                \/ <<held[c][l], "shared">> \in raced'
  PROVE  HeldIsSound'
<1>. SUFFICES ASSUME NEW c \in Conns, phase'[c] = "up"
     PROVE /\ Running(c)' /\ cbus'[c] # "new" /\ <<cur'[c], "shared">> \notin raced'
                => cur'[c] \in reg'
           /\ \A l \in DOMAIN held'[c] :
                /\ IsSet(held[c][l])'
                /\ <<held'[c][l], "crossed">> \notin raced' => obj'[held'[c][l]].loco = l
                /\ <<held'[c][l], "shared">> \notin raced' =>
                     held'[c][l] \in reg' /\ ~obj'[held'[c][l]].orphan
  BY DEF HeldIsSound, IsSet
<1>1. Running(c)' /\ cbus'[c] # "new" /\ <<cur'[c], "shared">> \notin raced'
        => cur'[c] \in reg'
  BY DEF HeldIsSound, Grows
<1>2. ASSUME NEW l \in DOMAIN held'[c]
      PROVE  /\ IsSet(held[c][l])'
             /\ <<held'[c][l], "crossed">> \notin raced' => obj'[held'[c][l]].loco = l
             /\ <<held'[c][l], "shared">> \notin raced' =>
                  held'[c][l] \in reg' /\ ~obj'[held'[c][l]].orphan
  <2>1. l \in DOMAIN held[c] /\ held'[c][l] = held[c][l] /\ held[c][l] \in 1 .. uids
    BY HeldTyped DEF Fewer
  <2>2. /\ IsSet(held[c][l])
        /\ <<held[c][l], "crossed">> \notin raced => obj[held[c][l]].loco = l
        /\ <<held[c][l], "shared">> \notin raced =>
             held[c][l] \in reg /\ ~obj[held[c][l]].orphan
    BY <2>1 DEF HeldIsSound
  <2>3. IsSet(held[c][l])'
    BY <2>1, <2>2 DEF IsSet, SameSids
  <2>4. <<held[c][l], "crossed">> \notin raced' => obj'[held[c][l]].loco = l
    BY <2>1, <2>2 DEF Grows
  <2>5. <<held[c][l], "shared">> \notin raced' =>
          held[c][l] \in reg' /\ ~obj'[held[c][l]].orphan
    BY <2>1, <2>2 DEF Grows
  <2>. QED
    BY <2>1, <2>3, <2>4, <2>5
<1>. QED
  BY <1>1, <1>2

LEMMA ForgottenKept ==
  ASSUME TypeOK, TypeOK', ForgottenIsReleased, SameSids, Grows,
         \A u \in 1 .. uids' : IsSet(u)' /\ u \notin reg' =>
           /\ u \in 1 .. uids
           /\ u \in reg => Kloced(u)' \/ <<u, "tardy">> \in raced'
  PROVE  ForgottenIsReleased'
<1>1. DOMAIN obj = 1 .. uids /\ DOMAIN obj' = 1 .. uids'
  BY DEF TypeOK, RegistryOK
<1>. SUFFICES ASSUME NEW u \in 1 .. uids', obj'[u].sid # 0, u \notin reg',
                     <<u, "tardy">> \notin raced'
              PROVE  obj'[u].sid \in killed'
  BY <1>1 DEF ForgottenIsReleased, IsSet
<1>2. u \in 1 .. uids /\ obj'[u].sid = obj[u].sid
  BY DEF SameSids, IsSet
<1>3. CASE u \in reg
  BY <1>3 DEF Kloced, IsSet
<1>4. CASE u \notin reg
  BY <1>1, <1>2, <1>4 DEF ForgottenIsReleased, Grows, IsSet
<1>. QED
  BY <1>3, <1>4

LEMMA InBoundsKept ==
  ASSUME SweepInBounds, strayed' = strayed, Grows
  PROVE  SweepInBounds'
  BY DEF SweepInBounds, Grows

-----------------------------------------------------------------------------
(* Steps that touch neither the registry nor what a throttle holds.        *)

LEMMA Quiet ==
  ASSUME IInv, ~undefined, TypeOK',
         UNCHANGED <<registry, cur, held, ending, sweep, victim, strayed, killed,
                     faults>>,
         stopped => stopped',
         \A u \in 1 .. uids : /\ obj'[u].sid = obj[u].sid
                              /\ obj'[u].loco = obj[u].loco
                              /\ obj'[u].orphan => obj[u].orphan,
         \A c \in Conns :
           /\ phase'[c] # phase[c] =>
                phase[c] = "up" /\ phase'[c] = "down" /\ recv'[c] = "idle"
           /\ recv'[c] # "idle" => recv'[c] = recv[c] /\ target'[c] = target[c]
           /\ cbus'[c] # cbus[c] => cbus[c] = "idle" /\ cbus'[c] = "exit"
           /\ cbus[c] = "got" => inbox'[c] # <<>> /\ Head(inbox'[c]) = Head(inbox[c])
  PROVE  Safe'
<1>1. SameSids /\ Grows /\ uids' = uids /\ reg' = reg /\ freed' = freed
  BY DEF SameSids, Grows, registry, faults
<1>2. Fewer
  BY DEF Fewer
<1>3. TypeOK /\ Custody /\ ForgottenIsReleased /\ SweepInBounds
  BY DEF IInv, Safe
<1>4. ForgottenIsReleased'
  BY <1>1, <1>3, ForgottenKept DEF TypeOK, RegistryOK
<1>5. SweepInBounds'
  BY <1>1, <1>3, InBoundsKept
<1>6. Ends'
  <2>1. ASSUME NEW c \in Conns
        PROVE  /\ ~Live(c)' => /\ held'[c] = <<>> /\ cbus'[c] \in {"idle", "exit"}
                               /\ ending'[c] # "sleep"
               /\ phase'[c] # "up" => recv'[c] = "idle"
               /\ phase'[c] = "new" => ending'[c] = "no"
               /\ ending'[c] # "no" => stopped'
    BY <1>3 DEF Custody, Ends, Live
  <2>. QED
    BY <2>1 DEF Ends
<1>7. Requests'
  <2>1. \A c \in Conns : Live(c)' => Live(c)
    BY DEF Live
  <2>2. \A c \in Conns : Live(c) => cur[c] \in 1 .. uids
    BY <1>3 DEF Custody, Requests, Asking
  <2>. QED
    BY <1>1, <1>3, <2>1, <2>2, RequestsKept DEF Custody
<1>8. Numbered'
  BY <1>1, <1>3, NumberedKept DEF Custody, Numbered
<1>9. Holding'
  BY <1>1, <1>2, <1>3, HoldingKept DEF Custody
<1>10. Leaving'
  BY <1>1, <1>2, <1>3, LeavingKept DEF Custody
<1>11. Behind'
  <2>1. Acknowledged \subseteq Acknowledged'
    BY DEF Acknowledged, Live
  <2>. QED
    BY <1>1, <1>3, <2>1, BehindKept DEF Custody
<1>12. Iterator'
  BY <1>1, <1>2, <1>3, IteratorKept DEF Custody
<1>13. HeldIsSound'
  <2>1. \A c \in Conns : \A l \in DOMAIN held[c] : held[c][l] \in 1 .. uids
    BY <1>3, HeldTyped
  <2>. QED
    BY <1>1, <1>2, <1>3, <2>1, SoundKept DEF Custody, Running
<1>. QED
  BY <1>4, <1>5, <1>6, <1>7, <1>8, <1>9, <1>10, <1>11, <1>12, <1>13 DEF Safe, Custody

\* A reader that has found its answer has it before it.
LEMMA AnswerThere ==
  ASSUME Custody, NEW c \in Conns, cbus[c] = "got"
  PROVE  Live(c) /\ Asking(c) /\ inbox[c] # <<>>
<1>1. Live(c)
  BY DEF Custody, Ends
<1>. QED
  BY <1>1 DEF Custody, Requests, Asking

LEMMA KeepAliveSafe ==
  ASSUME IInv, ~undefined, TypeOK', NEW c \in Conns, NEW S,
         KeepAlive(c, S) \/ KeepAliveEnds(c)
  PROVE  Safe'
<1>1. \A u \in 1 .. uids : /\ obj'[u].sid = obj[u].sid
                           /\ obj'[u].loco = obj[u].loco
                           /\ obj'[u].orphan => obj[u].orphan
  <2>1. ASSUME NEW u \in 1 .. uids
        PROVE  /\ obj'[u].sid = obj[u].sid /\ obj'[u].loco = obj[u].loco
               /\ obj'[u].orphan => obj[u].orphan
    <3>1. obj[u] \in EdSession /\ u \in DOMAIN obj
      BY DEF IInv, TypeOK, RegistryOK
    <3>2. \/ obj'[u] = obj[u]
          \/ obj'[u] = [obj[u] EXCEPT !.orphan = FALSE, !.late = FALSE]
      BY <3>1 DEF KeepAlive, KeepAliveEnds
    <3>. QED
      BY <3>1, <3>2 DEF EdSession
  <2>. QED
    BY <2>1
<1>2. /\ UNCHANGED <<registry, cur, held, ending, sweep, victim, strayed, killed,
                     faults>>
      /\ UNCHANGED <<stopped, phase, recv, target, cbus, inbox>>
  BY DEF KeepAlive, KeepAliveEnds, sweeper, station
<1>3. \A d \in Conns : cbus[d] = "got" => inbox[d] # <<>>
  BY AnswerThere DEF IInv, Safe
<1>. QED
  BY <1>1, <1>2, <1>3, Quiet

LEMMA ElapseSafe ==
  ASSUME IInv, ~undefined, TypeOK', NEW u \in reg, Elapse(u)
  PROVE  Safe'
<1>1. \A v \in 1 .. uids : /\ obj'[v].sid = obj[v].sid
                           /\ obj'[v].loco = obj[v].loco
                           /\ obj'[v].orphan => obj[v].orphan
  BY DEF IInv, TypeOK, RegistryOK, EdSession, Elapse
<1>2. /\ UNCHANGED <<registry, cur, held, ending, sweep, victim, strayed, killed,
                     faults>>
      /\ UNCHANGED <<stopped, phase, recv, target, cbus, inbox>>
  BY DEF Elapse, sweeper, station, clients
<1>3. \A d \in Conns : cbus[d] = "got" => inbox[d] # <<>>
  BY AnswerThere DEF IInv, Safe
<1>. QED
  BY <1>1, <1>2, <1>3, Quiet

LEMMA WaitOverSafe ==
  ASSUME IInv, ~undefined, TypeOK', NEW c \in Conns, WaitOver(c) \/ Leave(c)
  PROVE  Safe'
<1>1. /\ UNCHANGED <<registry, cur, held, ending, sweep, victim, strayed, killed,
                     faults>>
      /\ UNCHANGED <<stopped, obj, cbus, inbox>>
  BY DEF WaitOver, Leave, sweeper, station
<1>2. \A d \in Conns : cbus[d] = "got" => inbox[d] # <<>>
  BY AnswerThere DEF IInv, Safe
<1>3. phase[c] = "up"
  BY DEF IInv, Safe, Custody, Ends, WaitOver, Leave
<1>4. \A d \in Conns :
        /\ phase'[d] # phase[d] =>
             phase[d] = "up" /\ phase'[d] = "down" /\ recv'[d] = "idle"
        /\ recv'[d] # "idle" => recv'[d] = recv[d] /\ target'[d] = target[d]
  BY <1>3 DEF WaitOver, Leave, Handled, IInv, TypeOK, ClientsOK
<1>. QED
  BY <1>1, <1>2, <1>4, Quiet

LEMMA StationSafe ==
  ASSUME IInv, ~undefined, TypeOK', Station
  PROVE  Safe'
<1>1. /\ UNCHANGED <<registry, cur, held, ending, sweep, victim, strayed, killed,
                     faults>>
      /\ UNCHANGED <<stopped, obj, phase, recv, target, cbus>>
  BY DEF Station, StationGrant, StationRefuse, StationRelease, sweeper, clients
<1>2. \A d \in Conns : cbus[d] = "got" =>
        inbox'[d] # <<>> /\ Head(inbox'[d]) = Head(inbox[d])
  <2>1. ASSUME NEW d \in Conns, cbus[d] = "got"
        PROVE  inbox'[d] # <<>> /\ Head(inbox'[d]) = Head(inbox[d])
    <3>1. inbox[d] # <<>> /\ inbox[d] \in Seq(Answer)
      BY <2>1, AnswerThere DEF IInv, Safe, TypeOK, ClientsOK
    <3>2. \A p : /\ Append(inbox[d], p) # <<>>
                 /\ Head(Append(inbox[d], p)) = Head(inbox[d])
      BY <3>1
    <3>3. inbox'[d] = inbox[d] \/ \E p : inbox'[d] = Append(inbox[d], p)
      BY DEF Station, StationGrant, StationRefuse, StationRelease, clients
    <3>. QED
      BY <3>1, <3>2, <3>3
  <2>. QED
    BY <2>1
<1>. QED
  BY <1>1, <1>2, Quiet

LEMMA StopSweepSafe ==
  ASSUME IInv, ~undefined, TypeOK', StopSweep
  PROVE  Safe'
<1>1. /\ UNCHANGED <<registry, cur, held, ending, sweep, victim, strayed, killed,
                     faults>>
      /\ UNCHANGED <<obj, phase, recv, target, cbus, inbox>> /\ stopped'
  BY DEF StopSweep, clients, station
<1>2. \A d \in Conns : cbus[d] = "got" => inbox[d] # <<>>
  BY AnswerThere DEF IInv, Safe
<1>. QED
  BY <1>1, <1>2, Quiet
-----------------------------------------------------------------------------
(* The sweep.                                                              *)

\* Its steps along the registry change nothing but its own state.
LEMMA SweepSafe ==
  ASSUME IInv, ~undefined, TypeOK', Iterator',
         UNCHANGED <<registry, obj, clients, strayed, stopped, raced>>,
         killed \subseteq killed', sweep' # 0 => sweep # 0 \/ ~stopped
  PROVE  Safe'
<1>1. SameSids /\ Grows /\ uids' = uids /\ reg' = reg /\ freed' = freed
  BY DEF SameSids, Grows, registry
<1>2. Fewer /\ UNCHANGED <<phase, cur, held, recv, target, cbus, inbox, ending>>
  BY DEF Fewer, clients
<1>3. TypeOK /\ Custody /\ ForgottenIsReleased /\ SweepInBounds
  BY DEF IInv, Safe
<1>4. ForgottenIsReleased'
  BY <1>1, <1>3, ForgottenKept DEF TypeOK, RegistryOK
<1>5. SweepInBounds'
  BY <1>1, <1>3, InBoundsKept
<1>6. Ends' /\ Holding'
  BY <1>1, <1>2, <1>3, HoldingKept DEF Custody, Ends, Live
<1>7. Requests' /\ Numbered'
  BY <1>1, <1>2, <1>3 DEF Custody, Requests, Numbered, Asking, Live, IsSet
<1>8. Leaving'
  BY <1>1, <1>2, <1>3, LeavingKept DEF Custody
<1>9. Behind'
  BY <1>1, <1>2, <1>3 DEF Custody, Behind, Acknowledged, Live, IsSet
<1>10. HeldIsSound'
  BY <1>1, <1>2, <1>3 DEF Custody, HeldIsSound, Running, IsSet
<1>. QED
  BY <1>4, <1>5, <1>6, <1>7, <1>8, <1>9, <1>10 DEF Safe, Custody

LEMMA SweepStartSafe ==
  ASSUME IInv, ~undefined, TypeOK', SweepStart
  PROVE  Safe'
<1>1. TypeOK /\ Iterator
  BY DEF IInv, Safe, Custody
<1>2. victim' = 0 /\ sweep' = 1 /\ strayed' = 0 /\ reg' = reg
  BY <1>1 DEF SweepStart, Iterator, registry
<1>3. Cardinality(reg) \in Nat
  BY <1>1, RegistryFinite DEF TypeOK
<1>4. Iterator'
  BY <1>2, <1>3 DEF Iterator
<1>. QED
  BY <1>4, SweepSafe DEF SweepStart, station, faults

LEMMA SweepEndSafe ==
  ASSUME IInv, ~undefined, TypeOK', SweepEnd
  PROVE  Safe'
<1>1. TypeOK /\ Iterator
  BY DEF IInv, Safe, Custody
<1>2. victim' = 0 /\ sweep' = 0 /\ strayed' = 0 /\ reg' = reg
  BY <1>1 DEF SweepEnd, Iterator, registry
<1>3. Cardinality(reg) \in Nat
  BY <1>1, RegistryFinite DEF TypeOK
<1>4. Iterator'
  BY <1>2, <1>3 DEF Iterator
<1>. QED
  BY <1>4, SweepSafe DEF SweepEnd, station

LEMMA SweepPassSafe ==
  ASSUME IInv, ~undefined, TypeOK', NEW u \in reg, SweepPass(u)
  PROVE  Safe'
<1>1. TypeOK /\ Iterator
  BY DEF IInv, Safe, Custody
<1>2. victim' = 0 /\ sweep' = sweep + 1 /\ strayed' = 0 /\ reg' = reg
  BY <1>1 DEF SweepPass, Iterator, registry
<1>3. Cardinality(reg) \in Nat /\ sweep \in 1 .. Cardinality(reg)
  BY <1>1, RegistryFinite, PositionBounds DEF TypeOK, SweepPass, AtIterator
<1>4. Iterator'
  BY <1>2, <1>3 DEF Iterator
<1>. QED
  BY <1>3, <1>4, SweepSafe DEF SweepPass, station, faults

\* The session it kills has a number and is nobody's, and if it is the last
\* of the registry its connection was lost while it was acknowledged.
LEMMA SweepKillSafe ==
  ASSUME IInv, ~undefined, TypeOK', NEW u \in reg, SweepKill(u)
  PROVE  Safe'
<1>1. TypeOK /\ Custody
  BY DEF IInv, Safe
<1>2. /\ victim' = u /\ sweep' = sweep /\ strayed' = 0 /\ reg' = reg
      /\ UNCHANGED <<registry, obj, clients, strayed, stopped, raced>>
      /\ killed' = killed \cup {obj[u].sid} /\ obj[u].orphan
  BY <1>1 DEF SweepKill, Custody, Iterator, registry, faults, Overdue
<1>3. Cardinality(reg) \in Nat /\ sweep \in 1 .. Cardinality(reg)
  BY <1>1, RegistryFinite, PositionBounds DEF TypeOK, SweepKill, AtIterator
<1>4. u \in 1 .. uids /\ IsSet(u)
  BY <1>1, <1>2 DEF TypeOK, RegistryOK, Custody, Numbered
<1>5. (victim \in AtIterator /\ IsSet(victim) /\ Kloced(victim))'
  BY <1>2, <1>4 DEF SweepKill, AtIterator, Position, IsSet, Kloced
<1>6. \A c \in Conns : phase'[c] = "up" /\ u \in HeldBy(c)' => <<u, "shared">> \in raced'
  BY <1>1, <1>2 DEF Custody, HeldIsSound, HeldBy, clients
<1>7. (\A v \in reg : v <= u) => <<u, "hurried">> \in raced
  <2>1. SUFFICES ASSUME \A v \in reg : v <= u PROVE <<u, "hurried">> \in raced
    OBVIOUS
  <2>2. u \in Acknowledged
    BY <1>1, <1>3, <1>4, <2>1 DEF Custody, Behind
  <2>3. PICK c \in Conns : Live(c) /\ cbus[c] = "new" /\ cur[c] = u
    BY <2>2 DEF Acknowledged
  <2>. QED
    BY <1>1, <1>2, <2>3 DEF Custody, Requests, Asking
<1>8. Iterator'
  BY <1>2, <1>3, <1>5, <1>6, <1>7 DEF Iterator
<1>. QED
  BY <1>2, <1>8, SweepSafe

\* Where the iterator is behind the last session.
LEMMA LastPosition ==
  ASSUME RegistryOK, NEW u \in reg
  PROVE  Position(u) = Cardinality(reg) <=> \A v \in reg : v <= u
<1>. DEFINE S == {v \in reg : v <= u}
<1>1. S \subseteq reg /\ IsFiniteSet(reg)
  BY RegistryFinite
<1>2. Cardinality(S) = Cardinality(reg) => S = reg
  BY <1>1, FS_Subset
<1>3. S = reg <=> \A v \in reg : v <= u
  OBVIOUS
<1>. QED
  BY <1>2, <1>3 DEF Position

LEMMA SweepEraseSafe ==
  ASSUME IInv, ~undefined, TypeOK', SweepErase
  PROVE  Safe'
<1>1. TypeOK /\ Custody /\ ForgottenIsReleased /\ SweepInBounds
  BY DEF IInv, Safe
<1>2. /\ victim \in reg /\ Position(victim) = sweep /\ AtIterator = {victim}
      /\ IsSet(victim) /\ Kloced(victim) /\ victim \in 1 .. uids
  BY <1>1, OneAtIterator DEF SweepErase, Custody, Iterator, AtIterator, TypeOK, RegistryOK
<1>3. /\ Cardinality(reg) \in Nat /\ sweep \in 1 .. Cardinality(reg)
      /\ IsFiniteSet(reg)
  BY <1>1, <1>2, RegistryFinite, PositionBounds DEF TypeOK
<1>4. /\ reg' = reg \ {victim} /\ UNCHANGED <<uids, freed, obj, clients, stopped, station, raced>>
      /\ UNCHANGED <<phase, cur, held, recv, target, cbus, inbox, ending, killed>>
  BY <1>2 DEF SweepErase, clients, station
<1>5. SameSids /\ Grows /\ Fewer
  BY <1>4 DEF SameSids, Grows, Fewer
<1>6. ForgottenIsReleased'
  <2>1. \A u \in 1 .. uids : u \in reg /\ u \notin reg' => u = victim
    BY <1>4
  <2>2. Kloced(victim) => obj'[victim].sid \in killed'
    BY <1>4 DEF Kloced
  <2>3. \A u : Kloced(u)' <=> obj'[u].sid \in killed'
    BY DEF Kloced
  <2>. QED
    BY <1>1, <1>2, <1>4, <1>5, <2>1, <2>2, <2>3, ForgottenKept
<1>7. SweepInBounds'
  <2>1. CASE sweep < Cardinality(reg)
    BY <1>1, <1>5, <2>1, InBoundsKept DEF SweepErase
  <2>2. CASE ~(sweep < Cardinality(reg))
    <3>1. \A v \in reg : v <= victim
      BY <1>1, <1>2, <1>3, <2>2, LastPosition DEF TypeOK
    <3>2. <<victim, "hurried">> \in raced
      BY <1>1, <3>1 DEF SweepErase, Custody, Iterator
    <3>. QED
      BY <1>4, <2>2, <3>2 DEF SweepErase, SweepInBounds
  <2>. QED
    BY <2>1, <2>2
<1>8. ASSUME ~undefined' PROVE Custody'
  <2>1. sweep < Cardinality(reg) /\ sweep' = sweep + 1 /\ victim' = 0 /\ strayed' = strayed
    BY <1>8 DEF SweepErase
  <2>2. Ends' /\ Holding' /\ Numbered'
    BY <1>1, <1>4, <1>5, HoldingKept DEF Custody, Ends, Live, Numbered, IsSet
  <2>3. Requests'
    <3>1. ASSUME NEW c \in Conns, Live(c)' PROVE Asking(c)'
      <4>1. Live(c) /\ Asking(c)
        BY <1>1, <1>4, <3>1 DEF Custody, Requests, Live
      <4>2. cbus[c] # "new" => cur[c] # victim
        BY <1>2, <4>1 DEF Asking
      <4>. QED
        BY <1>4, <4>1, <4>2 DEF Asking, IsSet
    <3>2. \A c, d \in Conns : Live(c)' /\ Live(d)' /\ c # d => cur'[c] # cur'[d]
      BY <1>1, <1>4 DEF Custody, Requests, Live
    <3>. QED
      BY <3>1, <3>2 DEF Requests
  <2>4. Leaving'
    BY <1>1, <1>4, <1>5, LeavingKept DEF Custody
  <2>5. Behind'
    <3>1. \A m \in reg : (\A v \in reg : v <= m) => m \in reg'
      <4>1. ~ \A v \in reg : v <= victim
        BY <1>1, <1>2, <1>3, <2>1, LastPosition DEF TypeOK
      <4>. QED
        BY <1>4, <4>1
    <3>2. Acknowledged' = Acknowledged
      BY <1>4 DEF Acknowledged, Live
    <3>. QED
      BY <1>1, <1>3, <1>4, <1>5, <3>1, <3>2, BehindKept DEF Custody
  <2>6. Iterator'
    <3>1. Cardinality(reg') = Cardinality(reg) - 1
      BY <1>2, <1>3, <1>4, FS_RemoveElement
    <3>. QED
      BY <1>1, <1>3, <2>1, <3>1 DEF Iterator, Custody
  <2>7. HeldIsSound'
    <3>1. \A c \in Conns : phase[c] = "up" => 
            /\ Running(c) /\ cbus[c] # "new" => cur[c] # victim
            /\ \A l \in DOMAIN held[c] : held[c][l] \in 1 .. uids
               /\ (held[c][l] = victim => <<held[c][l], "shared">> \in raced)
      <4>1. ASSUME NEW c \in Conns, phase[c] = "up"
            PROVE  cbus[c] # "new" => cur[c] # victim
        BY <1>1, <1>2, <4>1 DEF Custody, Requests, Asking, Live
      <4>2. ASSUME NEW c \in Conns, phase[c] = "up", NEW l \in DOMAIN held[c]
            PROVE  /\ held[c][l] \in 1 .. uids
                   /\ held[c][l] = victim => <<held[c][l], "shared">> \in raced
        BY <1>1, <4>2, HeldTyped DEF Custody, Iterator, HeldBy, SweepErase
      <4>. QED
        BY <4>1, <4>2
    <3>. QED
      BY <1>1, <1>4, <1>5, <3>1, SoundKept DEF Custody, Running
  <2>. QED
    BY <2>2, <2>3, <2>4, <2>5, <2>6, <2>7 DEF Custody
<1>. QED
  BY <1>6, <1>7, <1>8 DEF Safe

-----------------------------------------------------------------------------
(* A connection comes and goes.                                            *)

\* Nothing but the sweep comes between two changes of the registry.
LEMMA NoSweep ==
  ASSUME IInv, ~undefined, Serialized, RegistryFree
  PROVE  sweep = 0 /\ victim = 0 /\ strayed = 0
  BY DEF RegistryFree, IInv, Safe, Custody, Iterator

\* The session that Create makes.
LEMMA CreatedNew ==
  ASSUME TypeOK, NEW c \in Conns, NEW o, Create(c, o)
  PROVE  /\ uids \in Nat /\ uids' = uids + 1 /\ uids + 1 \notin 1 .. uids
         /\ 1 .. uids' = 1 .. uids \cup {uids + 1}
         /\ \A u \in 1 .. uids : obj'[u] = o[u]
         /\ obj'[uids + 1] = NewSession(c)
         /\ obj'[uids + 1].sid = 0 /\ ~obj'[uids + 1].orphan
         /\ cur'[c] = uids + 1
         /\ \A d \in Conns : d # c => cur'[d] = cur[d]
  BY SessionsAssumption DEF Create, TypeOK, RegistryOK, ClientsOK, NewSession

LEMMA PlocNextSafe ==
  ASSUME IInv, ~undefined, Serialized, TypeOK', NEW c \in Conns, PlocNext(c)
  PROVE  Safe'
<1>1. TypeOK /\ Custody /\ ForgottenIsReleased /\ SweepInBounds
  BY DEF IInv, Safe
<1>2. sweep = 0 /\ victim = 0 /\ strayed = 0
  BY NoSweep DEF PlocNext
<1>3. /\ uids \in Nat /\ uids' = uids + 1 /\ uids + 1 \notin 1 .. uids
      /\ 1 .. uids' = 1 .. uids \cup {uids + 1}
      /\ \A u \in 1 .. uids : obj'[u] = obj[u]
      /\ obj'[uids + 1].sid = 0 /\ ~obj'[uids + 1].orphan
      /\ cur'[c] = uids + 1
      /\ \A d \in Conns : d # c => cur'[d] = cur[d]
  BY <1>1, CreatedNew DEF PlocNext
<1>4. /\ reg' = reg \cup {uids + 1} /\ reg \subseteq 1 .. uids
      /\ UNCHANGED <<freed, phase, held, recv, target, inbox, ending, stopped,
                     killed, raced, undefined>>
      /\ UNCHANGED sweeper /\ cbus[c] = "new"
      /\ \A d \in Conns : d # c => cbus'[d] = cbus[d]
      /\ cbus'[c] = IF Running(c) THEN "idle" ELSE "exit"
  BY <1>1 DEF PlocNext, sweeper, station, faults, TypeOK, RegistryOK, ClientsOK
<1>5. SameSids /\ Grows /\ Fewer
  BY <1>3, <1>4 DEF SameSids, Grows, Fewer
<1>6. ForgottenIsReleased'
  <2>1. ASSUME NEW u \in 1 .. uids', u \notin reg'
        PROVE  u \in 1 .. uids /\ u \notin reg
    BY <1>3, <1>4, <2>1
  <2>. QED
    BY <1>1, <1>5, <2>1, ForgottenKept
<1>7. SweepInBounds'
  BY <1>1, <1>4, <1>5, InBoundsKept DEF sweeper
<1>8. Live(c)
  BY <1>1, <1>4 DEF Custody, Ends
<1>9. Ends'
  BY <1>1, <1>4, <1>8 DEF Custody, Ends, Live
<1>10. Requests'
  <2>1. Asking(c)'
    BY <1>3, <1>4 DEF Asking, IsSet, Running
  <2>2. ASSUME NEW d \in Conns, d # c, Live(d)'
        PROVE  Asking(d)' /\ cur'[d] \in 1 .. uids
    <3>1. Live(d) /\ Asking(d)
      BY <1>1, <1>4, <2>2 DEF Custody, Requests, Live
    <3>2. cur[d] \in 1 .. uids /\ cur'[d] = cur[d] /\ obj'[cur[d]] = obj[cur[d]]
      BY <1>3, <2>2, <3>1 DEF Asking
    <3>. QED
      BY <1>3, <1>4, <2>2, <3>1, <3>2 DEF Asking, IsSet
  <2>. QED
    BY <1>1, <1>3, <1>4, <2>1, <2>2 DEF Requests, Custody, Live
<1>11. Numbered'
  BY <1>1, <1>3 DEF Custody, Numbered, IsSet
<1>12. Holding'
  BY <1>1, <1>5, HoldingKept DEF Custody
<1>13. Leaving'
  BY <1>1, <1>4, <1>5, LeavingKept DEF Custody
<1>14. Behind'
  <2>1. SUFFICES ASSUME NEW m \in reg', \A v \in reg' : v <= m
                 PROVE  obj'[m].sid = 0
    BY DEF Behind, IsSet
  <2>2. m = uids + 1
    BY <1>3, <1>4, <2>1
  <2>. QED
    BY <1>3, <2>2
<1>15. Iterator'
  BY <1>1, <1>2, <1>4, IteratorRests DEF Custody, sweeper
<1>16. HeldIsSound'
  <2>1. ASSUME NEW d \in Conns, phase'[d] = "up"
        PROVE  /\ Running(d)' /\ cbus'[d] # "new" /\ <<cur'[d], "shared">> \notin raced'
                    => cur'[d] \in reg'
               /\ \A l \in DOMAIN held'[d] :
                    /\ IsSet(held[d][l])'
                    /\ <<held'[d][l], "crossed">> \notin raced' => obj'[held'[d][l]].loco = l
                    /\ <<held'[d][l], "shared">> \notin raced' =>
                         held'[d][l] \in reg' /\ ~obj'[held'[d][l]].orphan
    <3>1. \A l \in DOMAIN held[d] : obj'[held[d][l]] = obj[held[d][l]]
      BY <1>1, <1>3, HeldTyped
    <3>2. /\ Running(d) /\ cbus[d] # "new" /\ <<cur[d], "shared">> \notin raced
               => cur[d] \in reg
          /\ \A l \in DOMAIN held[d] :
               /\ obj[held[d][l]].sid # 0
               /\ <<held[d][l], "crossed">> \notin raced => obj[held[d][l]].loco = l
               /\ <<held[d][l], "shared">> \notin raced =>
                    held[d][l] \in reg /\ ~obj[held[d][l]].orphan
      BY <1>1, <1>4, <2>1 DEF Custody, HeldIsSound, IsSet
    <3>3. Running(d)' /\ cbus'[d] # "new" /\ <<cur'[d], "shared">> \notin raced'
            => cur'[d] \in reg'
      BY <1>3, <1>4, <3>2 DEF Running
    <3>4. held'[d] = held[d] /\ raced' = raced /\ reg \subseteq reg'
      BY <1>4
    <3>. QED
      BY <3>1, <3>2, <3>3, <3>4 DEF IsSet
  <2>. QED
    BY <2>1 DEF HeldIsSound
<1>. QED
  BY <1>6, <1>7, <1>9, <1>10, <1>11, <1>12, <1>13, <1>14, <1>15, <1>16 DEF Safe, Custody

LEMMA ConnectSafe ==
  ASSUME IInv, ~undefined, Serialized, TypeOK', NEW c \in Conns, Connect(c)
  PROVE  Safe'
<1>. DEFINE m == MapOf(Retrieved(c))
            unset == {l \in DOMAIN m : ~IsSet(m[l])}
            S == {m[l] : l \in unset}
<1>1. TypeOK /\ Custody /\ ForgottenIsReleased /\ SweepInBounds
  BY DEF IInv, Safe
<1>2. sweep = 0 /\ victim = 0 /\ strayed = 0
  BY NoSweep DEF Connect, MayConnect
<1>3. /\ uids \in Nat /\ uids' = uids + 1 /\ uids + 1 \notin 1 .. uids
      /\ 1 .. uids' = 1 .. uids \cup {uids + 1}
      /\ \A u \in 1 .. uids : obj'[u] = Adopted(c)[u]
      /\ obj'[uids + 1].sid = 0 /\ ~obj'[uids + 1].orphan
      /\ cur'[c] = uids + 1
      /\ \A d \in Conns : d # c => cur'[d] = cur[d]
  BY <1>1, CreatedNew DEF Connect
<1>4. \A u \in 1 .. uids : /\ obj'[u].sid = obj[u].sid /\ obj'[u].loco = obj[u].loco
                           /\ obj'[u].orphan => obj[u].orphan
                           /\ u \in Retrieved(c) => ~obj'[u].orphan
  <2>1. \A u \in 1 .. uids : u \in DOMAIN obj /\ obj[u] \in EdSession
    BY <1>1 DEF TypeOK, RegistryOK
  <2>. QED
    BY <1>3, <2>1 DEF Adopted, EdSession
<1>5. /\ \A l \in DOMAIN m : /\ m[l] \in reg /\ m[l] \in 1 .. uids /\ obj[m[l]].loco = l
                             /\ m[l] \in Retrieved(c)
  BY <1>1, TakenOver DEF Custody, Retrieved
<1>6. S \subseteq reg /\ \A u \in S : ~IsSet(u)
  BY <1>5
<1>7. /\ held'[c] = Without(m, unset)
      /\ \A d \in Conns : d # c => held'[d] = held[d] /\ phase'[d] = phase[d]
      /\ phase[c] = "new" /\ phase'[c] = "up"
  BY <1>1 DEF Connect, MayConnect, TypeOK, ClientsOK
<1>8. \A l \in DOMAIN held'[c] : l \in DOMAIN m /\ IsSet(m[l]) /\ held'[c][l] = m[l]
  BY <1>7 DEF Without
<1>9. /\ reg' = (reg \ S) \cup {uids + 1} /\ freed' = freed \cup S
      /\ raced' = raced \cup SharedOf(c, S) \X {"shared"}
      /\ UNCHANGED <<recv, target, cbus, inbox, ending, stopped, killed, undefined>>
      /\ UNCHANGED sweeper
  BY DEF Connect, Lost, sweeper, station
<1>. HIDE DEF m, unset, S
<1>10. SameSids /\ Grows /\ reg \subseteq 1 .. uids
  BY <1>1, <1>3, <1>4, <1>9 DEF SameSids, Grows, TypeOK, RegistryOK
<1>11. ForgottenIsReleased'
  <2>1. ASSUME NEW u \in 1 .. uids', IsSet(u)', u \notin reg'
        PROVE  u \in 1 .. uids /\ u \notin reg
    BY <1>3, <1>4, <1>6, <1>9, <2>1 DEF IsSet
  <2>. QED
    BY <1>1, <1>10, <2>1, ForgottenKept
<1>12. SweepInBounds'
  BY <1>1, <1>9, <1>10, InBoundsKept DEF sweeper
<1>13. Ends'
  <2>1. ending[c] = "no" /\ recv[c] = "idle" /\ cbus[c] \in {"idle", "exit"}
    BY <1>1, <1>7 DEF Custody, Ends, Live
  <2>2. ASSUME NEW d \in Conns
        PROVE  /\ ~Live(d)' => /\ held'[d] = <<>> /\ cbus'[d] \in {"idle", "exit"}
                               /\ ending'[d] # "sleep"
               /\ phase'[d] # "up" => recv'[d] = "idle"
               /\ phase'[d] = "new" => ending'[d] = "no"
               /\ ending'[d] # "no" => stopped'
    BY <1>1, <1>7, <1>9, <2>1 DEF Custody, Ends, Live
  <2>. QED
    BY <2>2 DEF Ends
<1>14. Requests'
  <2>1. Asking(c)'
    <3>1. ending[c] = "no" /\ cbus[c] \in {"idle", "exit"}
      BY <1>1, <1>7 DEF Custody, Ends, Live
    <3>. QED
      BY <1>3, <1>9, <3>1 DEF Asking, IsSet
  <2>2. ASSUME NEW d \in Conns, d # c, Live(d)'
        PROVE  Asking(d)' /\ cur'[d] \in 1 .. uids
    <3>1. Live(d) /\ Asking(d)
      BY <1>1, <1>7, <2>2 DEF Custody, Requests, Live
    <3>2. cur[d] \in 1 .. uids /\ cur'[d] = cur[d]
      BY <1>3, <2>2, <3>1 DEF Asking
    <3>. QED
      BY <1>3, <1>4, <1>9, <2>2, <3>1, <3>2 DEF Asking, IsSet
  <2>3. \A d, e \in Conns : d # c /\ e # c /\ Live(d)' /\ Live(e)' /\ d # e => cur'[d] # cur'[e]
    BY <1>1, <1>3, <1>7 DEF Requests, Custody, Live
  <2>. QED
    BY <1>3, <2>1, <2>2, <2>3 DEF Requests
<1>15. Numbered'
  BY <1>1, <1>3, <1>4 DEF Custody, Numbered, IsSet
<1>16. Holding'
  <2>1. ASSUME NEW d \in Conns, NEW l \in DOMAIN held'[d]
        PROVE  /\ IsSet(held[d][l])'
               /\ \A k \in DOMAIN held'[d] : held'[d][k] = held'[d][l] => k = l
    <3>1. CASE d = c
      BY <1>4, <1>5, <1>8, <2>1, <3>1 DEF IsSet
    <3>2. CASE d # c
      <4>1. held'[d] = held[d] /\ held[d][l] \in 1 .. uids
        BY <1>1, <1>7, <2>1, <3>2, HeldTyped
      <4>. QED
        BY <1>1, <1>4, <2>1, <4>1 DEF Custody, Holding, IsSet
    <3>. QED
      BY <3>1, <3>2
  <2>. QED
    BY <2>1 DEF Holding
<1>17. Leaving'
  <2>1. ending[c] = "no" /\ recv[c] = "idle"
    BY <1>1, <1>7 DEF Custody, Ends, Live
  <2>2. ASSUME NEW d \in Conns, d # c
        PROVE  \A l \in DOMAIN held[d] : Kloced(held[d][l]) => Kloced(held[d][l])'
    BY <1>1, <1>4, <1>7, <1>9, <2>2, HeldTyped DEF Kloced
  <2>3. ASSUME NEW d \in Conns
       PROVE /\ recv'[d] = "release" => \A l \in target'[d] :
                /\ ending'[d] = "no" => l \in DOMAIN held'[d]
                /\ l \in DOMAIN held'[d] => Kloced(held[d][l])'
             /\ recv'[d] = "clear" => \A l \in DOMAIN held'[d] :
                Kloced(held[d][l])' \/ <<held'[d][l], "tardy">> \in raced'
             /\ ending'[d] = "sleep" => \A l \in DOMAIN held'[d] : Kloced(held[d][l])'
    BY <1>1, <1>7, <1>9, <1>10, <2>1, <2>2 DEF Custody, Leaving, Grows
  <2>. QED
    BY <2>3 DEF Leaving
<1>18. Behind'
  <2>1. SUFFICES ASSUME NEW k \in reg', \A v \in reg' : v <= k
                 PROVE  obj'[k].sid = 0
    BY DEF Behind, IsSet
  <2>2. k \in 1 .. uids \/ k = uids + 1
    BY <1>9, <1>10, <2>1
  <2>3. uids + 1 <= k
    BY <1>9, <2>1
  <2>4. k = uids + 1
    BY <1>3, <2>2, <2>3
  <2>. QED
    BY <1>3, <2>4
<1>19. Iterator'
  BY <1>1, <1>2, <1>9, IteratorRests DEF Custody
<1>20. HeldIsSound'
  <2>1. \A l \in DOMAIN held'[c] :
          /\ IsSet(held[c][l])' /\ obj'[held'[c][l]].loco = l
          /\ held'[c][l] \in reg' /\ ~obj'[held'[c][l]].orphan
    BY <1>4, <1>5, <1>6, <1>8, <1>9 DEF IsSet
  <2>2. ASSUME NEW d \in Conns, phase'[d] = "up", d # c
        PROVE  /\ Running(d)' /\ cbus'[d] # "new" /\ <<cur'[d], "shared">> \notin raced'
                    => cur'[d] \in reg'
               /\ \A l \in DOMAIN held'[d] :
                    /\ IsSet(held[d][l])'
                    /\ <<held'[d][l], "crossed">> \notin raced' => obj'[held'[d][l]].loco = l
                    /\ <<held'[d][l], "shared">> \notin raced' =>
                         held'[d][l] \in reg' /\ ~obj'[held'[d][l]].orphan
    <3>1. held'[d] = held[d] /\ cur'[d] = cur[d] /\ phase[d] = "up"
      BY <1>3, <1>7, <2>2
    <3>2. \A u \in Used(d) : u \in S => <<u, "shared">> \in raced'
      BY <1>9, <2>2, <3>1 DEF SharedOf
    <3>3. Running(d)' /\ cbus'[d] # "new" /\ <<cur'[d], "shared">> \notin raced'
            => cur'[d] \in reg'
      BY <1>1, <1>9, <3>1, <3>2 DEF Custody, HeldIsSound, Running, Used
    <3>4. ASSUME NEW l \in DOMAIN held[d]
          PROVE  /\ IsSet(held[d][l])'
                 /\ <<held[d][l], "crossed">> \notin raced' => obj'[held[d][l]].loco = l
                 /\ <<held[d][l], "shared">> \notin raced' =>
                      held[d][l] \in reg' /\ ~obj'[held[d][l]].orphan
      <4>1. held[d][l] \in 1 .. uids /\ held[d][l] \in Used(d)
        BY <1>1, HeldTyped DEF Used, HeldBy
      <4>2. /\ obj[held[d][l]].sid # 0
            /\ <<held[d][l], "crossed">> \notin raced => obj[held[d][l]].loco = l
            /\ <<held[d][l], "shared">> \notin raced =>
                 held[d][l] \in reg /\ ~obj[held[d][l]].orphan
        BY <1>1, <3>1 DEF Custody, HeldIsSound, IsSet
      <4>3. IsSet(held[d][l])'
        BY <1>4, <3>1, <4>1, <4>2 DEF IsSet
      <4>4. <<held[d][l], "crossed">> \notin raced' => obj'[held[d][l]].loco = l
        BY <1>4, <1>9, <4>1, <4>2
      <4>5. <<held[d][l], "shared">> \notin raced' =>
              held[d][l] \in reg' /\ ~obj'[held[d][l]].orphan
        BY <1>4, <1>9, <3>2, <4>1, <4>2
      <4>. QED
        BY <4>3, <4>4, <4>5
    <3>. QED
      BY <3>1, <3>3, <3>4
  <2>. QED
    BY <1>3, <1>9, <2>1, <2>2 DEF HeldIsSound
<1>. QED
  BY <1>11, <1>12, <1>13, <1>14, <1>15, <1>16, <1>17, <1>18, <1>19, <1>20 DEF Safe, Custody

LEMMA DisconnectSafe ==
  ASSUME IInv, ~undefined, TypeOK', NEW c \in Conns, Disconnect(c)
  PROVE  Safe'
<1>1. TypeOK /\ Custody /\ ForgottenIsReleased /\ SweepInBounds
  BY DEF IInv, Safe
<1>2. /\ UNCHANGED <<reg, uids, freed, cur, held, recv, target, cbus, inbox, ending,
                     sweep, victim, strayed, stopped, killed, undefined>>
      /\ phase[c] = "up" /\ recv[c] = "idle" /\ phase'[c] = "down"
      /\ \A d \in Conns : d # c => phase'[d] = phase[d]
      /\ raced' = raced \cup SharedOf(c, HeldBy(c)) \X {"shared"}
                        \cup (HeldBy(c) \cap Acknowledged) \X {"hurried"}
  BY <1>1 DEF Disconnect, registry, sweeper, station, TypeOK, ClientsOK
<1>3. \A u \in 1 .. uids : /\ obj'[u].sid = obj[u].sid /\ obj'[u].loco = obj[u].loco
                           /\ u \notin HeldBy(c) => obj'[u].orphan = obj[u].orphan
  <2>1. \A u \in 1 .. uids : u \in DOMAIN obj /\ obj[u] \in EdSession
    BY <1>1 DEF TypeOK, RegistryOK
  <2>. QED
    BY <2>1 DEF Disconnect, EdSession
<1>4. SameSids /\ Grows /\ Fewer
  BY <1>2, <1>3 DEF SameSids, Grows, Fewer
<1>5. \A u \in HeldBy(c) : u \in 1 .. uids /\ IsSet(u)
  BY <1>1, HeldTyped DEF Custody, Holding, HeldBy
<1>6. ForgottenIsReleased' /\ SweepInBounds'
  BY <1>1, <1>2, <1>4, ForgottenKept, InBoundsKept
<1>7. Ends' /\ Holding' /\ Leaving'
  BY <1>1, <1>2, <1>4, HoldingKept, LeavingKept DEF Custody, Ends, Live
<1>8. Acknowledged' = Acknowledged
  BY <1>2 DEF Acknowledged, Live
<1>9. Requests'
  <2>1. ASSUME NEW d \in Conns, Live(d)'
        PROVE  /\ Live(d) /\ cur[d] \in 1 .. uids
               /\ cbus[d] = "got" => inbox'[d] # <<>> /\ Head(inbox'[d]) = Head(inbox[d])
               /\ cbus[d] = "new" /\ obj'[cur[d]].orphan =>
                    obj[cur[d]].orphan \/ <<cur[d], "hurried">> \in raced'
    <3>1. Live(d) /\ Asking(d)
      BY <1>1, <1>2, <2>1 DEF Custody, Requests, Live
    <3>2. cur[d] \in HeldBy(c) /\ cbus[d] = "new" => <<cur[d], "hurried">> \in raced'
      BY <1>2, <3>1 DEF Acknowledged
    <3>. QED
      BY <1>2, <1>3, <3>1, <3>2 DEF Asking
  <2>. QED
    BY <1>1, <1>2, <1>3, <1>4, <2>1, RequestsKept DEF Custody
<1>10. Numbered'
  BY <1>1, <1>2, <1>3, <1>4, <1>5, NumberedKept DEF Custody, Numbered
<1>11. Behind'
  BY <1>1, <1>2, <1>4, <1>8, BehindKept DEF Custody
<1>12. Iterator'
  BY <1>1, <1>2, <1>4, IteratorKept DEF Custody
<1>13. HeldIsSound'
  <2>1. ASSUME NEW d \in Conns, phase'[d] = "up", NEW l \in DOMAIN held[d]
        PROVE  /\ held[d][l] \in 1 .. uids
               /\ obj'[held[d][l]].orphan =>
                    obj[held[d][l]].orphan \/ <<held[d][l], "shared">> \in raced'
    <3>1. held[d][l] \in 1 .. uids /\ held[d][l] \in Used(d)
      BY <1>1, HeldTyped DEF Used, HeldBy
    <3>2. d # c /\ phase[d] = "up"
      BY <1>2, <2>1
    <3>3. held[d][l] \in HeldBy(c) => <<held[d][l], "shared">> \in raced'
      BY <1>2, <3>1, <3>2 DEF SharedOf
    <3>. QED
      BY <1>3, <3>1, <3>3
  <2>. QED
    BY <1>1, <1>2, <1>3, <1>4, <2>1, SoundKept DEF Custody, Running
<1>. QED
  BY <1>6, <1>7, <1>9, <1>10, <1>11, <1>12, <1>13 DEF Safe, Custody

LEMMA GoneSafe ==
  ASSUME IInv, ~undefined, TypeOK', NEW c \in Conns, Gone(c)
  PROVE  Safe'
<1>1. TypeOK /\ Custody /\ ForgottenIsReleased /\ SweepInBounds
  BY DEF IInv, Safe
<1>2. /\ UNCHANGED <<reg, uids, freed, obj, recv, target, ending,
                     sweep, victim, strayed, stopped, killed, raced, undefined>>
      /\ phase[c] = "down" /\ recv[c] = "idle" /\ phase'[c] = "gone"
      /\ ending[c] # "sleep" /\ held'[c] = <<>> /\ cbus'[c] = "exit"
      /\ cbus[c] # "new"
      /\ \A d \in Conns : d # c =>
           /\ phase'[d] = phase[d] /\ cur'[d] = cur[d] /\ held'[d] = held[d]
           /\ cbus'[d] = cbus[d] /\ inbox'[d] = inbox[d]
  BY <1>1 DEF Gone, registry, sweeper, station, faults, TypeOK, ClientsOK
<1>3. SameSids /\ Grows /\ Fewer
  BY <1>2 DEF SameSids, Grows, Fewer
<1>4. ForgottenIsReleased' /\ SweepInBounds'
  BY <1>1, <1>2, <1>3, ForgottenKept, InBoundsKept
<1>5. Ends' /\ Holding' /\ Leaving'
  BY <1>1, <1>2, <1>3, HoldingKept, LeavingKept DEF Custody, Ends, Live
<1>6. Acknowledged \subseteq Acknowledged'
  BY <1>2 DEF Acknowledged, Live
<1>7. Requests'
  <2>1. ASSUME NEW d \in Conns, Live(d)'
        PROVE  Live(d) /\ d # c /\ cur[d] \in 1 .. uids /\ Asking(d)
    BY <1>1, <1>2, <2>1 DEF Custody, Requests, Live, Asking
  <2>2. ASSUME NEW d \in Conns, Live(d)'
        PROVE  /\ Live(d) /\ cur'[d] = cur[d]
               /\ obj'[cur[d]].loco = obj[cur[d]].loco
               /\ cbus'[d] # cbus[d] => cbus[d] = "idle" /\ cbus'[d] = "exit"
               /\ cbus[d] = "got" => inbox'[d] # <<>> /\ Head(inbox'[d]) = Head(inbox[d])
               /\ cbus[d] = "new" /\ obj'[cur[d]].orphan =>
                    obj[cur[d]].orphan \/ <<cur[d], "hurried">> \in raced'
               /\ ending'[d] # "no" => ending[d] # "no" \/ cur[d] \in freed'
                                       \/ cbus[d] \notin {"got", "idle"}
    BY <1>2, <2>1, <2>2 DEF Asking
  <2>. QED
    BY <1>1, <1>2, <1>3, <2>2, RequestsKept DEF Custody
<1>8. Numbered'
  BY <1>1, <1>2, <1>3, NumberedKept DEF Custody, Numbered
<1>9. Behind'
  BY <1>1, <1>2, <1>3, <1>6, BehindKept DEF Custody
<1>10. \A d \in Conns : phase'[d] = "up" =>
         d # c /\ phase[d] = "up" /\ cur'[d] = cur[d] /\ cbus'[d] = cbus[d]
         /\ held'[d] = held[d]
  BY <1>2
<1>11. Iterator'
  BY <1>1, <1>2, <1>3, <1>10, IteratorKept DEF Custody
<1>12. HeldIsSound'
  BY <1>1, <1>2, <1>3, <1>10, SoundKept DEF Custody, Running
<1>. QED
  BY <1>4, <1>5, <1>7, <1>8, <1>9, <1>11, <1>12 DEF Safe, Custody

-----------------------------------------------------------------------------
(* The receiver and the shutdown.                                          *)

LEMMA RequestSafe ==
  ASSUME IInv, ~undefined, TypeOK', NEW c \in Conns, NEW l \in Wants[c],
         Request(c, l)
  PROVE  Safe'
<1>1. TypeOK /\ Custody /\ ForgottenIsReleased /\ SweepInBounds
  BY DEF IInv, Safe
<1>2. /\ UNCHANGED <<reg, uids, freed, phase, cur, held, target, cbus, inbox,
                     ending, sweep, victim, strayed, stopped, killed, undefined>>
      /\ phase[c] = "up" /\ recv[c] = "idle" /\ recv'[c] = "wait"
      /\ \A d \in Conns : d # c => recv'[d] = recv[d]
      /\ raced' = raced \cup (IF cbus[c] = "idle" THEN {} ELSE {cur[c]}) \X {"crossed"}
  BY <1>1 DEF Request, Lost, registry, sweeper, TypeOK, ClientsOK
<1>3. Asking(c) /\ cur[c] \in 1 .. uids /\ l # 0
  BY <1>1, <1>2, SessionsAssumption DEF Custody, Requests, Asking, Live
<1>4. /\ \A u \in 1 .. uids :
           /\ obj'[u].sid = obj[u].sid /\ obj'[u].orphan = obj[u].orphan
           /\ u # cur[c] => obj'[u].loco = obj[u].loco
      /\ obj'[cur[c]].loco = l
  <2>1. \A u \in 1 .. uids : u \in DOMAIN obj /\ obj[u] \in EdSession
    BY <1>1 DEF TypeOK, RegistryOK
  <2>. QED
    BY <1>3, <2>1 DEF Request, EdSession
<1>5. SameSids /\ Grows /\ Fewer
  BY <1>2, <1>4 DEF SameSids, Grows, Fewer
<1>6. cbus[c] # "idle" => <<cur[c], "crossed">> \in raced'
  BY <1>2
<1>7. ForgottenIsReleased' /\ SweepInBounds'
  BY <1>1, <1>2, <1>5, ForgottenKept, InBoundsKept
<1>8. Ends' /\ Holding' /\ Leaving'
  BY <1>1, <1>2, <1>5, HoldingKept, LeavingKept DEF Custody, Ends, Live
<1>9. Requests'
  <2>1. Asking(c)'
    BY <1>2, <1>3, <1>4, <1>6 DEF Asking, IsSet
  <2>2. ASSUME NEW d \in Conns, d # c, Live(d)'
        PROVE  Asking(d)'
    <3>1. Live(d) /\ Asking(d) /\ cur[d] # cur[c] /\ Live(c)
      BY <1>1, <1>2, <2>2 DEF Custody, Requests, Live
    <3>2. cur[d] \in 1 .. uids
      BY <3>1 DEF Asking
    <3>. QED
      BY <1>2, <1>4, <3>1, <3>2 DEF Asking, IsSet
  <2>3. \A d, e \in Conns : Live(d)' /\ Live(e)' /\ d # e => cur'[d] # cur'[e]
    BY <1>1, <1>2 DEF Requests, Custody, Live
  <2>. QED
    BY <2>1, <2>2, <2>3 DEF Requests
<1>10. Numbered'
  <2>1. \A u \in 1 .. uids : IsSet(u) => obj'[u].loco # 0
    BY <1>1, <1>3, <1>4 DEF Custody, Numbered
  <2>. QED
    BY <1>1, <1>2, <1>4, <1>5, <2>1, NumberedKept DEF Custody
<1>11. Behind'
  <2>1. Acknowledged' = Acknowledged
    BY <1>2 DEF Acknowledged, Live
  <2>. QED
    BY <1>1, <1>2, <1>5, <2>1, BehindKept DEF Custody
<1>12. Iterator'
  BY <1>1, <1>2, <1>5, IteratorKept DEF Custody
<1>13. HeldIsSound'
  <2>1. \A u \in 1 .. uids : IsSet(u) =>
          obj'[u].loco = obj[u].loco \/ <<u, "crossed">> \in raced'
    BY <1>3, <1>4, <1>6 DEF Asking
  <2>2. \A d \in Conns : \A k \in DOMAIN held[d] : held[d][k] \in 1 .. uids
    BY <1>1, HeldTyped
  <2>. QED
    BY <1>1, <1>2, <1>4, <1>5, <2>1, <2>2, SoundKept DEF Custody, Running
<1>. QED
  BY <1>7, <1>8, <1>9, <1>10, <1>11, <1>12, <1>13 DEF Safe, Custody

LEMMA ReleaseSafe ==
  ASSUME IInv, ~undefined, TypeOK', NEW c \in Conns, NEW L \in SUBSET DOMAIN held[c],
         NEW how \in {"release", "clear"}, how = "clear" => L = DOMAIN held[c],
         Release(c, L, how)
  PROVE  Safe'
<1>1. TypeOK /\ Custody /\ ForgottenIsReleased /\ SweepInBounds
  BY DEF IInv, Safe
<1>2. /\ UNCHANGED <<reg, uids, freed, obj, phase, cur, held, cbus, inbox,
                     ending, sweep, victim, strayed, stopped, raced, undefined>>
      /\ phase[c] = "up" /\ recv[c] = "idle" /\ recv'[c] = how /\ target'[c] = L
      /\ \A d \in Conns : d # c => recv'[d] = recv[d] /\ target'[d] = target[d]
      /\ killed' = killed \cup ({obj[held[c][l]].sid : l \in L} \ {0})
  BY <1>1 DEF Release, MayRelease, SendKlocs, registry, sweeper, faults, TypeOK, ClientsOK
<1>3. SameSids /\ Grows /\ Fewer
  BY <1>2 DEF SameSids, Grows, Fewer
<1>4. \A l \in L : obj[held[c][l]].sid \in killed'
  BY <1>1, <1>2 DEF Custody, Holding, IsSet
<1>5. ForgottenIsReleased' /\ SweepInBounds'
  BY <1>1, <1>2, <1>3, ForgottenKept, InBoundsKept
<1>6. Ends' /\ Holding'
  BY <1>1, <1>2, <1>3, HoldingKept DEF Custody, Ends, Live
<1>7. Leaving'
  <2>1. ASSUME NEW d \in Conns
       PROVE /\ recv'[d] = "release" => \A l \in target'[d] :
                /\ ending'[d] = "no" => l \in DOMAIN held'[d]
                /\ l \in DOMAIN held'[d] => Kloced(held[d][l])'
             /\ recv'[d] = "clear" => \A l \in DOMAIN held'[d] :
                Kloced(held[d][l])' \/ <<held'[d][l], "tardy">> \in raced'
             /\ ending'[d] = "sleep" => \A l \in DOMAIN held'[d] : Kloced(held[d][l])'
    <3>1. \A l \in DOMAIN held[d] : Kloced(held[d][l]) => Kloced(held[d][l])'
      BY <1>2 DEF Kloced
    <3>2. CASE d = c
      <4>1. \A l \in L : Kloced(held[c][l])'
        BY <1>2, <1>4 DEF Kloced
      <4>. QED
        BY <1>1, <1>2, <3>1, <3>2, <4>1 DEF Custody, Leaving
    <3>3. CASE d # c
      BY <1>1, <1>2, <3>1, <3>3 DEF Custody, Leaving
    <3>. QED
      BY <3>2, <3>3
  <2>. QED
    BY <2>1 DEF Leaving
<1>8. Requests' /\ Numbered'
  BY <1>1, <1>2 DEF Custody, Requests, Numbered, Asking, Live, IsSet
<1>9. Behind'
  BY <1>1, <1>2 DEF Custody, Behind, Acknowledged, Live, IsSet
<1>10. Iterator'
  BY <1>1, <1>2, <1>3, IteratorKept DEF Custody
<1>11. HeldIsSound'
  BY <1>1, <1>2 DEF Custody, HeldIsSound, Running, IsSet
<1>. QED
  BY <1>5, <1>6, <1>7, <1>8, <1>9, <1>10, <1>11 DEF Safe, Custody

\* A deletion: whoever else is connected and uses one of the sessions has
\* lost it, and a session that is being acknowledged ends the model.
LEMMA DeleteSafe ==
  ASSUME IInv, ~undefined, Serialized, RegistryFree, TypeOK',
         NEW c \in Conns, Live(c), NEW S \in SUBSET (1 .. uids), Delete(c, S), Fewer,
         UNCHANGED <<uids, obj, cur, cbus, inbox, sweeper>>,
         killed \subseteq killed',
         \A d \in Conns : d # c =>
           /\ phase'[d] = phase[d] /\ held'[d] = held[d] /\ recv'[d] = recv[d]
           /\ target'[d] = target[d] /\ ending'[d] = ending[d],
         phase'[c] # phase[c] => phase[c] = "up" /\ phase'[c] = "down",
         phase'[c] # "up" => recv'[c] = "idle",
         recv'[c] # "idle" => recv'[c] = recv[c] /\ target'[c] = target[c]
                              /\ (ending'[c] = "no" => held'[c] = held[c]),
         ending'[c] # ending[c] => ending'[c] # "no" /\ stopped
              /\ (ending[c] # "no" \/ cur[c] \in freed' \/ cbus[c] \notin {"got", "idle"}),
         ending'[c] = "sleep" =>
           ending[c] = "sleep" \/ \A l \in DOMAIN held'[c] : Kloced(held[c][l])',
         ~undefined' => S \cap HeldBy(c)' = {},
         cur[c] \in S => ending'[c] # "no" \/ cbus[c] = "new",
         \A u \in S : IsSet(u) => Kloced(u)' \/ <<u, "tardy">> \in raced,
         stopped \/ \A u \in S : IsSet(u)
  PROVE  Safe'
<1>1. TypeOK /\ Custody /\ ForgottenIsReleased /\ SweepInBounds
  BY DEF IInv, Safe
<1>2. sweep = 0 /\ victim = 0 /\ strayed = 0
  BY NoSweep
<1>3. /\ reg' = reg \ S /\ freed' = freed \cup (S \cap reg)
      /\ undefined' = (S \cap Acknowledged # {})
      /\ raced' = raced \cup SharedOf(c, S) \X {"shared"}
      /\ UNCHANGED <<sweep, victim, strayed, stopped>>
  BY DEF Delete, Lost, sweeper
<1>4. SameSids /\ Grows
  BY <1>3 DEF SameSids, Grows
<1>5. ForgottenIsReleased'
  <2>1. ASSUME NEW u \in 1 .. uids', IsSet(u)', u \notin reg', u \in reg
        PROVE  Kloced(u)' \/ <<u, "tardy">> \in raced'
    <3>1. u \in S /\ IsSet(u)
      BY <1>3, <2>1 DEF IsSet
    <3>. QED
      BY <1>4, <3>1 DEF Grows
  <2>. QED
    BY <1>1, <1>4, <2>1, ForgottenKept
<1>6. SweepInBounds'
  BY <1>1, <1>3, <1>4, InBoundsKept
<1>7. ASSUME ~undefined' PROVE Custody'
  <2>0. S \cap Acknowledged = {} /\ \A d \in Conns : Live(d)' <=> Live(d)
    BY <1>3, <1>7 DEF Live
  <2>1. Ends'
    <3>1. ASSUME NEW d \in Conns
          PROVE  /\ ~Live(d)' => /\ held'[d] = <<>> /\ cbus'[d] \in {"idle", "exit"}
                                 /\ ending'[d] # "sleep"
                 /\ phase'[d] # "up" => recv'[d] = "idle"
                 /\ phase'[d] = "new" => ending'[d] = "no"
                 /\ ending'[d] # "no" => stopped'
      <4>1. CASE d = c
        BY <1>1, <1>3, <2>0, <4>1 DEF Custody, Ends, Live
      <4>2. CASE d # c
        BY <1>1, <1>3, <2>0, <4>2 DEF Custody, Ends, Live
      <4>. QED
        BY <4>1, <4>2
    <3>. QED
      BY <3>1 DEF Ends
  <2>2. Holding' /\ Numbered'
    BY <1>1, <1>4, HoldingKept DEF Custody, Numbered, IsSet
  <2>3. Leaving'
    BY <1>1, <1>4, LeavingKept DEF Custody
  <2>4. Requests'
    <3>1. ASSUME NEW d \in Conns, Live(d)'
          PROVE  /\ Live(d) /\ Asking(d)
                 /\ cbus[d] = "got" => inbox'[d] # <<>> /\ Head(inbox'[d]) = Head(inbox[d])
                 /\ ending'[d] # "no" => ending[d] # "no" \/ cur[d] \in freed'
                                         \/ cbus[d] \notin {"got", "idle"}
      BY <1>1, <2>0, <3>1 DEF Custody, Requests, Asking
    <3>. QED
      BY <1>1, <1>3, <1>4, <3>1, RequestsKept DEF Custody
  <2>5. Behind'
    <3>1. Acknowledged' = Acknowledged
      BY <2>0 DEF Acknowledged
    <3>2. ~stopped => \A m \in reg : (\A v \in reg : v <= m) => m \in reg'
      BY <1>1, <1>3, <2>0 DEF Custody, Behind
    <3>. QED
      BY <1>1, <1>2, <1>3, <1>4, <3>1, <3>2, BehindKept DEF Custody
  <2>6. Iterator'
    BY <1>1, <1>2, IteratorRests DEF Custody
  <2>7. HeldIsSound'
    <3>1. ASSUME NEW d \in Conns, phase'[d] = "up"
          PROVE  /\ phase[d] = "up" /\ (Running(d)' => Running(d))
                 /\ Running(d)' /\ cbus'[d] # "new" /\ cur[d] \in reg =>
                      cur[d] \in reg' \/ <<cur[d], "shared">> \in raced'
                 /\ \A l \in DOMAIN held'[d] : held[d][l] \in reg =>
                      held[d][l] \in reg' \/ <<held[d][l], "shared">> \in raced'
      <4>1. phase[d] = "up" /\ (Running(d)' => Running(d))
        BY <1>7, <3>1 DEF Running
      <4>2. CASE d # c
        <5>1. \A u \in Used(d) : u \in S => <<u, "shared">> \in raced'
          BY <1>3, <4>1, <4>2 DEF SharedOf
        <5>. QED
          BY <1>3, <4>1, <4>2, <5>1 DEF Used, HeldBy
      <4>3. CASE d = c
        <5>1. Running(c)' /\ cbus'[c] # "new" => cur[c] \notin S
          BY DEF Running
        <5>2. \A l \in DOMAIN held'[c] : held[c][l] \notin S
          BY <1>7 DEF Fewer, HeldBy
        <5>. QED
          BY <1>3, <4>1, <4>3, <5>1, <5>2
      <4>. QED
        BY <4>2, <4>3
    <3>. QED
      BY <1>1, <1>3, <1>4, <3>1, SoundKept DEF Custody
  <2>. QED
    BY <2>1, <2>2, <2>3, <2>4, <2>5, <2>6, <2>7 DEF Custody
<1>. QED
  BY <1>5, <1>6, <1>7 DEF Safe

LEMMA ReleasedSafe ==
  ASSUME IInv, ~undefined, Serialized, TypeOK', NEW c \in Conns, Released(c)
  PROVE  Safe'
<1>. DEFINE S == {held[c][l] : l \in Doomed(c)}
<1>1. TypeOK /\ Custody
  BY DEF IInv, Safe
<1>2. /\ recv[c] \in {"release", "clear"} /\ RegistryFree
      /\ Doomed(c) \subseteq DOMAIN held[c] /\ Delete(c, S)
      /\ UNCHANGED <<uids, obj, cur, cbus, inbox, ending, sweeper, killed, stopped>>
      /\ held'[c] = Without(held[c], Doomed(c)) /\ recv'[c] = "idle"
      /\ \A d \in Conns : d # c =>
           /\ phase'[d] = phase[d] /\ held'[d] = held[d] /\ recv'[d] = recv[d]
           /\ target'[d] = target[d] /\ ending'[d] = ending[d]
      /\ phase'[c] # phase[c] => phase'[c] = "down"
  BY <1>1 DEF Released, MayDelete, Handled, sweeper, station, TypeOK, ClientsOK
<1>3. phase[c] = "up" /\ Live(c) /\ Asking(c)
  BY <1>1, <1>2 DEF Custody, Ends, Live, Requests
<1>4. S \subseteq 1 .. uids /\ S \subseteq HeldBy(c) /\ \A u \in S : IsSet(u)
  BY <1>1, <1>2, HeldTyped DEF Custody, Holding, HeldBy
<1>5. Fewer
  BY <1>2 DEF Fewer, Without
<1>6. S \cap HeldBy(c)' = {}
  <2>1. \A l \in DOMAIN held'[c] : l \in DOMAIN held[c] \ Doomed(c) /\ held'[c][l] = held[c][l]
    BY <1>2 DEF Without
  <2>2. \A l \in Doomed(c) : \A k \in DOMAIN held[c] : held[c][k] = held[c][l] => k = l
    BY <1>1, <1>2 DEF Custody, Holding
  <2>3. \A l \in DOMAIN held'[c] : held'[c][l] \notin S
    BY <2>1, <2>2
  <2>. QED
    BY <2>3 DEF HeldBy
<1>7. \A u \in S : Kloced(u) \/ <<u, "tardy">> \in raced
  BY <1>1, <1>2 DEF Custody, Leaving, Doomed
<1>8. \A u \in S : Kloced(u)' \/ <<u, "tardy">> \in raced
  BY <1>2, <1>7 DEF Kloced
<1>9. cur[c] \in S => cbus[c] = "new"
  BY <1>3, <1>4 DEF Asking
<1>10. phase'[c] # phase[c] => phase[c] = "up" /\ phase'[c] = "down"
  BY <1>2, <1>3
<1>. HIDE DEF S
<1>. QED
  BY <1>2, <1>3, <1>4, <1>5, <1>6, <1>8, <1>9, <1>10, DeleteSafe

\* The shutdown sends KLOC for all that a client holds, and deletes the
\* session of its next request before the others.
LEMMA StopClientSafe ==
  ASSUME IInv, ~undefined, Serialized, TypeOK', NEW c \in Conns, StopClient(c)
  PROVE  Safe'
<1>. DEFINE rest == Without(held[c], {obj[cur[c]].loco})
            S == {cur[c]}
            T == {cur[c]} \cup {rest[l] : l \in DOMAIN rest}
<1>1. TypeOK /\ Custody
  BY DEF IInv, Safe
<1>2. /\ RegistryFree /\ stopped /\ Live(c) /\ Delete(c, S)
      /\ UNCHANGED <<uids, obj, phase, cur, recv, target, cbus, inbox, sweeper>>
      /\ held'[c] = rest /\ ending'[c] = "sleep" /\ ending[c] = "no"
      /\ \A d \in Conns : d # c => held'[d] = held[d] /\ ending'[d] = ending[d]
      /\ killed' = killed \cup ({obj[u].sid : u \in T} \ {0})
  BY <1>1 DEF StopClient, SendKlocs, TypeOK, ClientsOK
<1>3. Asking(c) /\ cur[c] \in 1 .. uids
  BY <1>1, <1>2 DEF Custody, Requests, Asking
<1>4. \A l \in DOMAIN held'[c] : l \in DOMAIN held[c] /\ held'[c][l] = held[c][l]
                                /\ held[c][l] \in T
  BY <1>2 DEF Without
<1>5. Fewer
  BY <1>2, <1>4 DEF Fewer
<1>6. \A u \in T : IsSet(u) => obj'[u].sid \in killed'
  BY <1>2 DEF IsSet
<1>7. IsSet(cur[c]) => Kloced(cur[c])'
  BY <1>2, <1>6 DEF Kloced
<1>8. \A l \in DOMAIN held'[c] : Kloced(held[c][l])'
  BY <1>1, <1>4, <1>6 DEF Custody, Holding, Kloced
<1>9. cbus[c] \in {"got", "idle", "exit"} => cur[c] \in freed'
  BY <1>2, <1>3 DEF Asking, Delete
<1>10. ~undefined' => S \cap HeldBy(c)' = {}
  <2>1. ASSUME ~undefined' PROVE ~IsSet(cur[c])
    BY <1>2, <1>3, <2>1 DEF Delete, Acknowledged, Asking
  <2>2. \A u \in HeldBy(c)' : IsSet(u)
    BY <1>1, <1>4 DEF HeldBy, Custody, Holding
  <2>. QED
    BY <2>1, <2>2
<1>11. Kloced(cur[c])' = (obj'[cur'[c]].sid \in killed') /\ cur'[c] = cur[c]
  BY <1>2 DEF Kloced
<1>12. \A u \in S : IsSet(u) => Kloced(u)'
  BY <1>7, <1>11 DEF Kloced
<1>13. /\ killed \subseteq killed' /\ S \in SUBSET (1 .. uids)
       /\ cbus[c] \in {"idle", "got", "new", "exit"}
       /\ phase'[c] # "up" => recv'[c] = "idle"
  BY <1>1, <1>2, <1>3 DEF TypeOK, ClientsOK, Custody, Ends
<1>14. cur[c] \in freed' \/ cbus[c] \notin {"got", "idle"}
  BY <1>9
<1>. HIDE DEF rest, S, T
<1>. QED
  BY <1>2, <1>5, <1>8, <1>10, <1>12, <1>13, <1>14, DeleteSafe

LEMMA StopDeleteSafe ==
  ASSUME IInv, ~undefined, Serialized, TypeOK', NEW c \in Conns, StopDelete(c)
  PROVE  Safe'
<1>1. TypeOK /\ Custody
  BY DEF IInv, Safe
<1>2. /\ RegistryFree /\ Delete(c, HeldBy(c)) /\ ending[c] = "sleep"
      /\ UNCHANGED <<uids, obj, phase, cur, recv, target, cbus, inbox, sweeper, killed>>
      /\ held'[c] = <<>> /\ ending'[c] = "done"
      /\ \A d \in Conns : d # c => held'[d] = held[d] /\ ending'[d] = ending[d]
  BY <1>1 DEF StopDelete, station, TypeOK, ClientsOK
<1>3. Live(c) /\ stopped /\ (phase'[c] # "up" => recv'[c] = "idle")
  BY <1>1, <1>2 DEF Custody, Ends
<1>4. Fewer /\ HeldBy(c)' = {}
  BY <1>2 DEF Fewer, HeldBy
<1>5. HeldBy(c) \in SUBSET (1 .. uids)
  BY <1>1, HeldTyped
<1>6. \A u \in HeldBy(c) : Kloced(u)'
  BY <1>1, <1>2 DEF Custody, Leaving, HeldBy, Kloced
<1>7. \A l \in DOMAIN held'[c] : FALSE
  BY <1>2
<1>. QED
  BY <1>2, <1>3, <1>4, <1>5, <1>6, <1>7, DeleteSafe

-----------------------------------------------------------------------------
(* The CBUS reader.                                                        *)

LEMMA PlocSafe ==
  ASSUME IInv, ~undefined, TypeOK', NEW c \in Conns, Ploc(c)
  PROVE  Safe'
<1>1. TypeOK /\ Custody /\ ForgottenIsReleased /\ SweepInBounds
  BY DEF IInv, Safe
<1>2. /\ UNCHANGED <<registry, obj, phase, cur, held, recv, target, ending,
                     sweep, victim, strayed, stopped, killed, faults>>
      /\ Live(c) /\ cbus[c] = "idle" /\ inbox[c] # <<>> /\ cur[c] \notin freed
      /\ \A d \in Conns : d # c => cbus'[d] = cbus[d] /\ inbox'[d] = inbox[d]
  BY <1>1 DEF Ploc, Usable, sweeper, station, TypeOK, ClientsOK
<1>3. \A d \in Conns : d # c /\ cbus[d] = "got" => inbox[d] # <<>>
  BY <1>1, AnswerThere
<1>4. ending[c] = "no"
  BY <1>1, <1>2 DEF Custody, Requests, Asking
<1>5. CASE cbus'[c] # "got"
  <2>1. cbus'[c] # cbus[c] => cbus[c] = "idle" /\ cbus'[c] = "exit"
    BY <1>1, <1>2, <1>5 DEF Ploc, TypeOK, ClientsOK
  <2>2. \A d \in Conns :
          /\ cbus'[d] # cbus[d] => cbus[d] = "idle" /\ cbus'[d] = "exit"
          /\ cbus[d] = "got" => inbox'[d] # <<>> /\ Head(inbox'[d]) = Head(inbox[d])
    BY <1>2, <1>3, <2>1
  <2>. QED
    BY <1>2, <2>2, Quiet
<1>6. CASE cbus'[c] = "got"
  <2>1. inbox' = inbox /\ obj[cur[c]].loco = Head(inbox[c]).loco
    BY <1>1, <1>2, <1>6 DEF Ploc, TypeOK, ClientsOK
  <2>2. Head(inbox[c]).loco # 0
    <3>1. Head(inbox[c]) \in Answer
      BY <1>1, <1>2, TailIs DEF TypeOK, ClientsOK
    <3>. QED
      BY <3>1, SessionsAssumption DEF Answer
  <2>3. /\ SameSids /\ Grows /\ Fewer /\ UNCHANGED <<reg, uids, freed, raced, undefined>>
    BY <1>2 DEF SameSids, Grows, Fewer, registry, faults
  <2>4. ForgottenIsReleased' /\ SweepInBounds'
    BY <1>1, <1>2, <2>3, ForgottenKept, InBoundsKept
  <2>5. Ends' /\ Holding' /\ Leaving' /\ Numbered'
    BY <1>1, <1>2, <2>3, HoldingKept, LeavingKept, NumberedKept
       DEF Custody, Ends, Live, Numbered
  <2>6. Requests'
    <3>1. Asking(c)'
      BY <1>1, <1>2, <1>4, <1>6, <2>1, <2>2, <2>3 DEF Custody, Requests, Asking, IsSet
    <3>2. ASSUME NEW d \in Conns, d # c, Live(d)'
          PROVE  Asking(d)'
      BY <1>1, <1>2, <2>3, <3>2 DEF Custody, Requests, Asking, IsSet, Live
    <3>3. \A d, e \in Conns : Live(d)' /\ Live(e)' /\ d # e => cur'[d] # cur'[e]
      BY <1>1, <1>2 DEF Requests, Custody, Live
    <3>. QED
      BY <3>1, <3>2, <3>3 DEF Requests
  <2>7. Behind'
    <3>1. Acknowledged \subseteq Acknowledged'
      BY <1>2 DEF Acknowledged, Live
    <3>. QED
      BY <1>1, <1>2, <2>3, <3>1, BehindKept DEF Custody
  <2>8. Iterator'
    BY <1>1, <1>2, <2>3, IteratorKept DEF Custody
  <2>9. HeldIsSound'
    <3>1. \A d \in Conns : cbus'[d] # "new" <=> cbus[d] # "new"
      BY <1>2, <1>6
    <3>. QED
      BY <1>1, <1>2, <2>3, <3>1 DEF Custody, HeldIsSound, Running, IsSet
  <2>. QED
    BY <2>4, <2>5, <2>6, <2>7, <2>8, <2>9 DEF Safe, Custody
<1>. QED
  BY <1>5, <1>6

LEMMA PlocAcceptSafe ==
  ASSUME IInv, ~undefined, TypeOK', NEW c \in Conns, PlocAccept(c)
  PROVE  Safe'
<1>. DEFINE p == Head(inbox[c])
            u == cur[c]
<1>1. TypeOK /\ Custody /\ ForgottenIsReleased /\ SweepInBounds
  BY DEF IInv, Safe
<1>2. /\ UNCHANGED <<reg, uids, freed, phase, cur, recv, target, ending,
                     sweep, victim, strayed, stopped, killed, undefined>>
      /\ cbus[c] = "got" /\ cbus'[c] = "new" /\ u \notin freed
      /\ held'[c] = Inserted(held[c], p.loco, u)
      /\ \A d \in Conns : d # c =>
           cbus'[d] = cbus[d] /\ inbox'[d] = inbox[d] /\ held'[d] = held[d]
      /\ raced' = raced \cup (IF recv[c] = "clear" THEN {u} ELSE {}) \X {"tardy"}
  BY <1>1 DEF PlocAccept, Lost, Usable, registry, sweeper, station, TypeOK, ClientsOK
<1>3. Live(c) /\ Asking(c) /\ inbox[c] # <<>>
  BY <1>1, <1>2, AnswerThere
<1>4. /\ u \in 1 .. uids /\ u \in reg /\ ~IsSet(u) /\ ending[c] = "no"
      /\ obj[u].loco # 0 /\ ~obj[u].orphan
      /\ p.loco = obj[u].loco \/ <<u, "crossed">> \in raced
  BY <1>1, <1>2, <1>3 DEF Asking, Custody, Numbered
<1>5. p \in Answer
  BY <1>1, <1>3, TailIs DEF TypeOK, ClientsOK
<1>6. /\ \A v \in 1 .. uids :
           /\ obj'[v].loco = obj[v].loco /\ obj'[v].orphan = obj[v].orphan
           /\ v # u => obj'[v].sid = obj[v].sid
      /\ obj'[u].sid # 0
  <2>1. \A v \in 1 .. uids : v \in DOMAIN obj /\ obj[v] \in EdSession
    BY <1>1 DEF TypeOK, RegistryOK
  <2>2. p.sid # 0
    BY <1>5, SessionsAssumption DEF Answer
  <2>. QED
    BY <1>4, <2>1, <2>2 DEF PlocAccept, EdSession
<1>7. \A d \in Conns : \A l \in DOMAIN held[d] :
        held[d][l] \in 1 .. uids /\ held[d][l] # u /\ IsSet(held[d][l])
  BY <1>1, <1>4, HeldTyped DEF Custody, Holding
<1>8. /\ \A l \in DOMAIN held[c] : l \in DOMAIN held'[c] /\ held'[c][l] = held[c][l]
      /\ \A l \in DOMAIN held'[c] :
           l \in DOMAIN held[c] \/ (l = p.loco /\ held'[c][l] = u)
  BY <1>2 DEF Inserted
<1>9. killed' = killed /\ raced \subseteq raced'
  BY <1>2
<1>. HIDE DEF p, u
<1>10. ForgottenIsReleased'
  <2>1. DOMAIN obj = 1 .. uids /\ DOMAIN obj' = 1 .. uids
    BY <1>1, <1>2 DEF TypeOK, RegistryOK, IInv
  <2>2. ASSUME NEW v \in 1 .. uids, obj'[v].sid # 0, v \notin reg, <<v, "tardy">> \notin raced'
        PROVE  obj'[v].sid \in killed'
    <3>1. v # u /\ obj'[v].sid = obj[v].sid
      BY <1>4, <1>6, <2>2
    <3>. QED
      BY <1>1, <1>9, <2>1, <2>2, <3>1 DEF ForgottenIsReleased, IsSet
  <2>. QED
    BY <1>2, <2>1, <2>2 DEF ForgottenIsReleased, IsSet
<1>11. SweepInBounds'
  BY <1>1, <1>2, <1>9 DEF SweepInBounds
<1>12. Ends'
  <2>1. ASSUME NEW d \in Conns
        PROVE  /\ ~Live(d)' => /\ held'[d] = <<>> /\ cbus'[d] \in {"idle", "exit"}
                               /\ ending'[d] # "sleep"
               /\ phase'[d] # "up" => recv'[d] = "idle"
               /\ phase'[d] = "new" => ending'[d] = "no"
               /\ ending'[d] # "no" => stopped'
    BY <1>1, <1>2, <1>3 DEF Custody, Ends, Live
  <2>. QED
    BY <2>1 DEF Ends
<1>13. Requests'
  <2>1. Asking(c)'
    <3>1. cur'[c] = u /\ obj'[u].orphan = obj[u].orphan
      BY <1>2, <1>4, <1>6 DEF u
    <3>. QED
      BY <1>2, <1>4, <1>6, <3>1 DEF Asking, IsSet
  <2>2. ASSUME NEW d \in Conns, d # c, Live(d)'
        PROVE  Asking(d)'
    <3>1. Live(d) /\ Asking(d) /\ cur[d] # u /\ cur'[d] = cur[d]
      BY <1>1, <1>2, <1>3, <2>2 DEF Custody, Requests, Live, u
    <3>2. cur[d] \in 1 .. uids /\ obj'[cur[d]].sid = obj[cur[d]].sid
          /\ obj'[cur[d]].loco = obj[cur[d]].loco /\ obj'[cur[d]].orphan = obj[cur[d]].orphan
      BY <1>6, <3>1 DEF Asking
    <3>. QED
      BY <1>2, <1>9, <2>2, <3>1, <3>2 DEF Asking, IsSet
  <2>3. \A d, e \in Conns : Live(d)' /\ Live(e)' /\ d # e => cur'[d] # cur'[e]
    BY <1>1, <1>2 DEF Requests, Custody, Live
  <2>. QED
    BY <2>1, <2>2, <2>3 DEF Requests
<1>14. Numbered'
  <2>1. ASSUME NEW v \in 1 .. uids
        PROVE  /\ obj'[v].orphan => obj'[v].sid # 0
               /\ obj'[v].sid # 0 => obj'[v].loco # 0
    BY <1>1, <1>4, <1>6 DEF Custody, Numbered, IsSet
  <2>. QED
    BY <1>2, <2>1 DEF Numbered, IsSet
<1>15. Holding'
  <2>1. ASSUME NEW d \in Conns, NEW l \in DOMAIN held'[d]
        PROVE  /\ IsSet(held[d][l])'
               /\ \A k \in DOMAIN held'[d] : held'[d][k] = held'[d][l] => k = l
    <3>1. CASE d # c
      <4>1. held'[d] = held[d] /\ obj'[held[d][l]].sid = obj[held[d][l]].sid
        BY <1>2, <1>6, <1>7, <3>1
      <4>. QED
        BY <1>1, <1>7, <4>1 DEF Custody, Holding, IsSet
    <3>2. CASE d = c
      <4>1. \A k \in DOMAIN held'[c] :
              \/ k \in DOMAIN held[c] /\ held'[c][k] = held[c][k] /\ held[c][k] # u
              \/ k = p.loco /\ held'[c][k] = u
        BY <1>7, <1>8
      <4>2. IsSet(held[c][l])'
        BY <1>6, <1>7, <3>2, <4>1 DEF IsSet
      <4>. QED
        BY <1>1, <3>2, <4>1, <4>2 DEF Custody, Holding
    <3>. QED
      BY <3>1, <3>2
  <2>. QED
    BY <2>1 DEF Holding
<1>16. Leaving'
  <2>1. \A d \in Conns : \A l \in DOMAIN held[d] :
          /\ held'[d][l] = held[d][l] /\ l \in DOMAIN held'[d]
          /\ Kloced(held[d][l]) => Kloced(held[d][l])'
    BY <1>2, <1>6, <1>7, <1>8 DEF Kloced
  <2>2. \A d \in Conns : \A l \in DOMAIN held'[d] :
          l \in DOMAIN held[d] \/ (d = c /\ held'[d][l] = u)
    BY <1>2, <1>8
  <2>3. recv[c] = "clear" => <<u, "tardy">> \in raced'
    BY <1>2
  <2>4. ASSUME NEW d \in Conns
       PROVE /\ recv'[d] = "release" => \A l \in target'[d] :
                /\ ending'[d] = "no" => l \in DOMAIN held'[d]
                /\ l \in DOMAIN held'[d] => Kloced(held[d][l])'
             /\ recv'[d] = "clear" => \A l \in DOMAIN held'[d] :
                Kloced(held[d][l])' \/ <<held'[d][l], "tardy">> \in raced'
             /\ ending'[d] = "sleep" => \A l \in DOMAIN held'[d] : Kloced(held[d][l])'
    <3>1. recv[d] = "release" => \A l \in target[d] :
                /\ ending[d] = "no" => l \in DOMAIN held'[d]
                /\ l \in DOMAIN held'[d] => Kloced(held[d][l])'
      BY <1>1, <1>4, <2>1, <2>2 DEF Custody, Leaving
    <3>2. recv[d] = "clear" => \A l \in DOMAIN held'[d] :
                Kloced(held[d][l])' \/ <<held'[d][l], "tardy">> \in raced'
      BY <1>1, <1>9, <2>1, <2>2, <2>3 DEF Custody, Leaving
    <3>3. ending[d] = "sleep" => \A l \in DOMAIN held'[d] : Kloced(held[d][l])'
      BY <1>1, <1>4, <2>1, <2>2 DEF Custody, Leaving
    <3>. QED
      BY <1>2, <3>1, <3>2, <3>3
  <2>. QED
    BY <2>4 DEF Leaving
<1>17. Behind'
  <2>1. Acknowledged \subseteq Acknowledged' /\ u \in Acknowledged'
    BY <1>2, <1>3 DEF Acknowledged, Live, u
  <2>2. \A m \in reg : m # u => obj'[m].sid = obj[m].sid
    BY <1>1, <1>6 DEF TypeOK, RegistryOK
  <2>. QED
    BY <1>1, <1>2, <2>1, <2>2 DEF Custody, Behind, IsSet
<1>18. Iterator'
  <2>1. AtIterator' = AtIterator
    BY <1>2 DEF AtIterator, Position
  <2>2. ASSUME victim # 0
        PROVE  /\ obj'[victim].sid # 0 /\ obj'[victim].sid \in killed'
               /\ \A d \in Conns : victim \in HeldBy(d)' => victim \in HeldBy(d)
    <3>1. victim \in 1 .. uids /\ victim # u
      BY <1>1, <1>4, <2>2 DEF TypeOK, SweeperOK, Custody, Iterator
    <3>2. \A d \in Conns : victim \in HeldBy(d)' => victim \in HeldBy(d)
      BY <1>2, <1>8, <3>1 DEF HeldBy
    <3>. QED
      BY <1>1, <1>6, <1>9, <2>2, <3>1, <3>2 DEF Custody, Iterator, IsSet, Kloced
  <2>. QED
    BY <1>1, <1>2, <1>9, <2>1, <2>2 DEF Custody, Iterator, IsSet, Kloced
<1>19. HeldIsSound'
  <2>1. ASSUME NEW d \in Conns, phase'[d] = "up"
        PROVE  /\ Running(d)' /\ cbus'[d] # "new" /\ <<cur'[d], "shared">> \notin raced'
                    => cur'[d] \in reg'
               /\ \A l \in DOMAIN held'[d] :
                    /\ IsSet(held[d][l])'
                    /\ <<held'[d][l], "crossed">> \notin raced' => obj'[held'[d][l]].loco = l
                    /\ <<held'[d][l], "shared">> \notin raced' =>
                         held'[d][l] \in reg' /\ ~obj'[held'[d][l]].orphan
    <3>1. Running(d)' /\ cbus'[d] # "new" /\ <<cur'[d], "shared">> \notin raced'
            => cur'[d] \in reg'
      BY <1>1, <1>2, <1>9, <2>1 DEF Custody, HeldIsSound, Running
    <3>2. ASSUME NEW l \in DOMAIN held'[d]
          PROVE  /\ IsSet(held[d][l])'
                 /\ <<held'[d][l], "crossed">> \notin raced' => obj'[held'[d][l]].loco = l
                 /\ <<held'[d][l], "shared">> \notin raced' =>
                      held'[d][l] \in reg' /\ ~obj'[held'[d][l]].orphan
      <4>1. CASE l \in DOMAIN held[d]
        <5>1. held'[d][l] = held[d][l] /\ held[d][l] \in 1 .. uids /\ held[d][l] # u
          BY <1>2, <1>7, <1>8, <4>1
        <5>2. /\ <<held[d][l], "crossed">> \notin raced => obj[held[d][l]].loco = l
              /\ <<held[d][l], "shared">> \notin raced =>
                   held[d][l] \in reg /\ ~obj[held[d][l]].orphan
          BY <1>1, <1>2, <2>1, <4>1 DEF Custody, HeldIsSound
        <5>3. IsSet(held[d][l])'
          BY <1>6, <1>7, <4>1, <5>1 DEF IsSet
        <5>. QED
          BY <1>2, <1>6, <1>9, <5>1, <5>2, <5>3
      <4>2. CASE l \notin DOMAIN held[d]
        <5>1. l = p.loco /\ held'[d][l] = u
          BY <1>2, <1>8, <3>2, <4>2
        <5>. QED
          BY <1>2, <1>4, <1>6, <1>9, <5>1 DEF IsSet
      <4>. QED
        BY <4>1, <4>2
    <3>. QED
      BY <3>1, <3>2
  <2>. QED
    BY <2>1 DEF HeldIsSound
<1>. QED
  BY <1>10, <1>11, <1>12, <1>13, <1>14, <1>15, <1>16, <1>17, <1>18, <1>19 DEF Safe, Custody

-----------------------------------------------------------------------------
(* The theorems.                                                           *)

LEMMA InitSafe == Init => IInv
<1>. SUFFICES ASSUME Init PROVE IInv
  OBVIOUS
<1>1. TypeOK
  BY InitTyped
<1>2. /\ reg = {} /\ uids = 0 /\ obj = <<>> /\ sweep = 0 /\ victim = 0 /\ strayed = 0
      /\ undefined = FALSE
      /\ \A c \in Conns : /\ phase[c] = "new" /\ held[c] = <<>> /\ recv[c] = "idle"
                          /\ cbus[c] = "idle" /\ ending[c] = "no"
  BY DEF Init
<1>3. DOMAIN obj = 1 .. uids
  BY <1>1 DEF TypeOK, RegistryOK
<1>4. ForgottenIsReleased /\ SweepInBounds
  BY <1>2, <1>3 DEF ForgottenIsReleased, SweepInBounds
<1>5. Ends /\ Requests /\ Numbered /\ Holding /\ Leaving /\ HeldIsSound
  BY <1>2 DEF Ends, Requests, Numbered, Holding, Leaving, HeldIsSound, Live
<1>6. Behind
  BY <1>2 DEF Behind
<1>7. Iterator
  <2>1. Cardinality(reg) = 0
    BY <1>2, FS_EmptySet
  <2>. QED
    BY <1>2, <2>1 DEF Iterator
<1>. QED
  BY <1>1, <1>4, <1>5, <1>6, <1>7 DEF IInv, Safe, Custody

\* Each action preserves the invariant.
LEMMA StepTyped ==
  ASSUME IInv, Next
  PROVE  TypeOK'
<1>1. TypeOK /\ Custody /\ ~undefined
  BY DEF IInv, Safe, Next
<1>2. \A c \in Conns : Live(c) => cur[c] \in 1 .. uids
  BY <1>1 DEF Custody, Requests, Asking
<1>3. ASSUME NEW c \in Conns, Connect(c) \/ Gone(c) PROVE TypeOK'
  BY <1>1, <1>3, ConnectTyped, GoneTyped DEF Custody
<1>4. ASSUME NEW c \in Conns, Receiver(c) PROVE TypeOK'
  <2>1. CASE Disconnect(c) \/ Leave(c) \/ WaitOver(c) \/ Released(c)
    BY <1>1, <2>1, DisconnectTyped, WaitOverTyped, ReleasedTyped
  <2>2. ASSUME NEW l \in Wants[c], Request(c, l) PROVE TypeOK'
    BY <1>1, <1>2, <2>2, RequestTyped DEF Request, Live
  <2>3. ASSUME NEW l \in DOMAIN held[c], ReleaseOne(c, l) PROVE TypeOK'
    BY <1>1, <2>3, ReleaseTyped DEF ReleaseOne
  <2>4. CASE ReleaseAll(c)
    BY <1>1, <2>4, ReleaseTyped DEF ReleaseAll
  <2>. QED
    BY <1>4, <2>1, <2>2, <2>3, <2>4 DEF Receiver
<1>5. ASSUME NEW c \in Conns, CbusReader(c) PROVE TypeOK'
  <2>1. CASE PlocAccept(c)
    BY <1>1, <1>2, <2>1, AnswerThere, PlocAcceptTyped DEF PlocAccept
  <2>. QED
    BY <1>1, <1>5, <2>1, PlocTyped, PlocNextTyped DEF CbusReader
<1>6. ASSUME NEW c \in Conns, KeepAliveThread(c) PROVE TypeOK'
  BY <1>1, <1>6, KeepAliveTyped DEF KeepAliveThread
<1>7. ASSUME NEW u \in DOMAIN obj, Elapse(u) PROVE TypeOK'
  BY <1>1, <1>7, ElapseTyped DEF Elapse
<1>8. CASE Sweep
  BY <1>1, <1>8, SweepStepTyped, SweepEraseTyped, SweepPassTyped, SweepKillTyped
     DEF Sweep, Custody
<1>9. CASE Main
  BY <1>1, <1>2, <1>9, SweepStepTyped, StopClientTyped, StopDeleteTyped
     DEF Main, StopClient
<1>10. CASE Station
  BY <1>1, <1>10, StationGrantTyped, StationTakesTyped DEF Station
<1>. QED
  BY <1>3, <1>4, <1>5, <1>6, <1>7, <1>8, <1>9, <1>10 DEF Next, Step

LEMMA StepSafe ==
  ASSUME Serialized, IInv, Next
  PROVE  Safe'
<1>1. TypeOK' /\ ~undefined
  BY StepTyped DEF Next
<1>2. ASSUME NEW c \in Conns, Connect(c) \/ Gone(c) PROVE Safe'
  BY <1>1, <1>2, ConnectSafe, GoneSafe
<1>3. ASSUME NEW c \in Conns, Receiver(c) PROVE Safe'
  <2>1. CASE Disconnect(c) \/ Leave(c) \/ WaitOver(c) \/ Released(c)
    BY <1>1, <2>1, DisconnectSafe, WaitOverSafe, ReleasedSafe
  <2>2. ASSUME NEW l \in Wants[c], Request(c, l) PROVE Safe'
    BY <1>1, <2>2, RequestSafe
  <2>3. ASSUME NEW l \in DOMAIN held[c], ReleaseOne(c, l) PROVE Safe'
    BY <1>1, <2>3, ReleaseSafe DEF ReleaseOne
  <2>4. CASE ReleaseAll(c)
    BY <1>1, <2>4, ReleaseSafe DEF ReleaseAll
  <2>. QED
    BY <1>3, <2>1, <2>2, <2>3, <2>4 DEF Receiver
<1>4. ASSUME NEW c \in Conns, CbusReader(c) PROVE Safe'
  BY <1>1, <1>4, PlocSafe, PlocAcceptSafe, PlocNextSafe DEF CbusReader
<1>5. ASSUME NEW c \in Conns, KeepAliveThread(c) PROVE Safe'
  BY <1>1, <1>5, KeepAliveSafe DEF KeepAliveThread
<1>6. ASSUME NEW u \in DOMAIN obj, Elapse(u) PROVE Safe'
  BY <1>1, <1>6, ElapseSafe DEF Elapse
<1>7. CASE Sweep
  BY <1>1, <1>7, SweepStartSafe, SweepEndSafe, SweepEraseSafe, SweepPassSafe,
     SweepKillSafe DEF Sweep
<1>8. CASE Main
  BY <1>1, <1>8, StopSweepSafe, StopClientSafe, StopDeleteSafe DEF Main
<1>9. CASE Station
  BY <1>1, <1>9, StationSafe
<1>. QED
  BY <1>2, <1>3, <1>4, <1>5, <1>6, <1>7, <1>8, <1>9 DEF Next, Step

LEMMA StutterSafe == IInv /\ UNCHANGED vars => IInv'
<1>. SUFFICES ASSUME IInv, UNCHANGED vars PROVE IInv'
  OBVIOUS
<1>1. /\ UNCHANGED <<registry, obj, sweeper, station, faults>>
      /\ UNCHANGED <<reg, uids, freed, phase, cur, held, recv, target, cbus, inbox,
                     alive, ending, sweep, victim, strayed, stopped, killed, raced,
                     undefined>> /\ UNCHANGED clients
  BY DEF vars, registry, clients, sweeper, station, faults
<1>2. TypeOK'
  BY <1>1, RegistryStays, ClientsStay, SweeperStays, StationStays, FaultsStay
     DEF IInv, TypeOK
<1>3. Safe'
  <2>1. UNCHANGED <<Ends, Requests, Numbered, Holding, Leaving, Behind, Iterator,
                    HeldIsSound>>
    BY <1>1 DEF Ends, Requests, Numbered, Holding, Leaving, Behind, Iterator,
         HeldIsSound, Asking, Live, IsSet, Kloced, Acknowledged, Running,
         AtIterator, Position, HeldBy
  <2>2. UNCHANGED <<ForgottenIsReleased, SweepInBounds>>
    BY <1>1 DEF ForgottenIsReleased, SweepInBounds, IsSet
  <2>. QED
    BY <1>1, <2>1, <2>2 DEF IInv, Safe, Custody
<1>. QED
  BY <1>2, <1>3 DEF IInv

\* The invariant is inductive: from the first state on, and through every
\* action of every thread, the conversation with the command station and the
\* custody of the sessions stay as IInv says.
THEOREM Inductive ==
  ASSUME Serialized
  PROVE  Spec => []IInv
<1>1. IInv /\ [Next]_vars => IInv'
  BY StepTyped, StepSafe, StutterSafe DEF IInv
<1>. QED
  BY <1>1, InitSafe, PTL DEF Spec

\* Every variable of the sessions keeps its type (sessionHandler.cpp,
\* tcpClient.cpp, edsession.cpp).
THEOREM SessionsTyped ==
  ASSUME Serialized
  PROVE  Spec => []TypeOK
<1>1. IInv => TypeOK
  BY DEF IInv
<1>. QED
  BY <1>1, Inductive, PTL

\* What a connected throttle drives is its own: registered, numbered, of the
\* locomotive it knows it by, and not an orphan the sweep could take away,
\* unless another connection of its address gave the session up while it used
\* it, or it asked for another locomotive in the middle of an answer.
THEOREM ThrottleKeepsItsSessions ==
  ASSUME Serialized
  PROVE  Spec => []HeldIsSound
<1>1. IInv => HeldIsSound
  BY DEF IInv, Safe, Custody, HeldIsSound
<1>. QED
  BY <1>1, Inductive, PTL

\* A session with a number leaves the registry only after KLOC was sent for
\* it, however connections overlap and however late its answer came; but for
\* the one that gets its number while its throttle releases all.
THEOREM NoSessionForgotten ==
  ASSUME Serialized
  PROVE  Spec => []ForgottenIsReleased
<1>1. IInv => ForgottenIsReleased
  BY DEF IInv, Safe
<1>. QED
  BY <1>1, Inductive, PTL

\* The erase-and-increment of the sweep (sessionHandler.cpp:148) hits the last
\* session of the registry only if its connection was lost while the answer
\* that numbered it was being handled.
THEOREM SweepStaysInside ==
  ASSUME Serialized
  PROVE  Spec => []SweepInBounds
<1>1. IInv => SweepInBounds
  BY DEF IInv, Safe
<1>. QED
  BY <1>1, Inductive, PTL
=============================================================================
