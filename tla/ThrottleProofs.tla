--------------------------- MODULE ThrottleProofs ---------------------------
(***************************************************************************)
(* What holds of a throttle's locomotives for any number of locomotives,   *)
(* functions, types and speeds: functions, speed and direction are those   *)
(* of the session, and what was programmed is neither lost nor brought     *)
(* back. Orderly and Tidy are named where a theorem needs them.            *)
(***************************************************************************)
EXTENDS Throttle, TLAPS

-----------------------------------------------------------------------------
(* Holdings.                                                               *)

LEMMA HoldingIntro ==
  ASSUME NEW K \in SUBSET Keys, NEW h \in [K -> SUBSET Fns]
  PROVE  h \in Holding
  BY DEF Holding

LEMMA HoldingElim ==
  ASSUME NEW h \in Holding
  PROVE  /\ DOMAIN h \in SUBSET Keys
         /\ h \in [DOMAIN h -> SUBSET Fns]
         /\ \A k \in DOMAIN h : h[k] \in SUBSET Fns
  BY DEF Holding

LEMMA WithHolding ==
  ASSUME NEW h \in Holding, NEW g \in Holding
  PROVE  /\ With(h, g) \in Holding
         /\ DOMAIN With(h, g) = DOMAIN h \cup DOMAIN g
         /\ \A k \in DOMAIN g : With(h, g)[k] = g[k]
         /\ \A k \in DOMAIN h \ DOMAIN g : With(h, g)[k] = h[k]
<1>1. DOMAIN h \cup DOMAIN g \in SUBSET Keys
  BY HoldingElim
<1>2. With(h, g) \in [DOMAIN h \cup DOMAIN g -> SUBSET Fns]
  BY HoldingElim DEF With
<1>3. With(h, g) \in Holding
  BY <1>1, <1>2, HoldingIntro
<1> QED
  BY <1>3 DEF With

LEMMA GeneralHolding ==
  ASSUME NEW v \in SUBSET Fns
  PROVE  GeneralList(v) \in Holding /\ DOMAIN GeneralList(v) = {FnMomentary}
<1>1. GeneralList(v) \in [{FnMomentary} -> SUBSET Fns] /\ {FnMomentary} \in SUBSET Keys
  BY DEF GeneralList, Keys
<1> QED
  BY <1>1, HoldingIntro DEF GeneralList

LEMMA WithGeneral ==
  ASSUME NEW h \in Holding, NEW v \in SUBSET Fns
  PROVE  /\ DOMAIN With(h, GeneralList(v)) = DOMAIN h \cup {FnMomentary}
         /\ With(h, GeneralList(v))[FnMomentary] = GeneralList(v)[FnMomentary]
         /\ \A k \in DOMAIN h \ {FnMomentary} : With(h, GeneralList(v))[k] = h[k]
<1>1. GeneralList(v) \in Holding /\ DOMAIN GeneralList(v) = {FnMomentary}
  BY GeneralHolding
<1>2. /\ DOMAIN With(h, GeneralList(v)) = DOMAIN h \cup DOMAIN GeneralList(v)
      /\ \A k \in DOMAIN GeneralList(v) : With(h, GeneralList(v))[k] = GeneralList(v)[k]
      /\ \A k \in DOMAIN h \ DOMAIN GeneralList(v) : With(h, GeneralList(v))[k] = h[k]
  BY <1>1, WithHolding
<1> QED
  BY <1>1, <1>2

\* The functions that are momentary in a session are functions.
LEMMA AppliedFns ==
  ASSUME NEW c \in Holding, NEW k, NEW fns \in SUBSET Fns
  PROVE  Applied(c, k, fns) \in SUBSET Fns
  BY HoldingElim DEF Applied

LEMMA GeneralFnsFns ==
  ASSUME NEW c \in Holding
  PROVE  GeneralFns(c) \in SUBSET Fns
  BY AppliedFns, FnConfigAssumption DEF GeneralFns

-----------------------------------------------------------------------------
(* The groups of the functions.                                            *)

LEMMA Groups ==
  /\ \A f \in 0..4 : Group(f) = 1 /\ Bit(f) = IF f = 0 THEN 4 ELSE f - 1
  /\ \A f \in 5..8 : Group(f) = 2 /\ Bit(f) = f - 5
  /\ \A f \in 9..12 : Group(f) = 3 /\ Bit(f) = f - 9
  /\ \A f \in 13..20 : Group(f) = 4 /\ Bit(f) = f - 13
  /\ \A f \in 21..28 : Group(f) = 5 /\ Bit(f) = f - 21
<1> DEFINE First == <<1, 5, 9, 13, 21>>
<1>1. First[1] = 1 /\ First[2] = 5 /\ First[3] = 9 /\ First[4] = 13 /\ First[5] = 21
  OBVIOUS
<1>2. /\ \A f \in 0..4 : Group(f) = 1
      /\ \A f \in 5..8 : Group(f) = 2
      /\ \A f \in 9..12 : Group(f) = 3
      /\ \A f \in 13..20 : Group(f) = 4
      /\ \A f \in 21..28 : Group(f) = 5
  BY DEF Group
<1> QED
  BY <1>1, <1>2 DEF Bit, FirstOf

LEMMA Rows ==
  /\ DccTable[1] = <<1, 2, 3, 4, 0>>
  /\ DccTable[2] = <<5, 6, 7, 8>>
  /\ DccTable[3] = <<9, 10, 11, 12>>
  /\ DccTable[4] = <<13, 14, 15, 16, 17, 18, 19, 20>>
  /\ DccTable[5] = <<21, 22, 23, 24, 25, 26, 27, 28>>
  BY DEF DccTable

LEMMA BitOfTable ==
  ASSUME NEW f \in 0..28
  PROVE  /\ Group(f) \in 1..5 /\ Bit(f) \in Nat
         /\ Bit(f) + 1 \in DOMAIN DccTable[Group(f)]
         /\ DccTable[Group(f)][Bit(f) + 1] = f
<1>1. CASE f \in 0..4
  BY <1>1, Groups, Rows
<1>2. CASE f \in 5..8
  BY <1>2, Groups, Rows
<1>3. CASE f \in 9..12
  BY <1>3, Groups, Rows
<1>4. CASE f \in 13..20
  BY <1>4, Groups, Rows
<1>5. CASE f \in 21..28
  BY <1>5, Groups, Rows
<1> QED
  BY <1>1, <1>2, <1>3, <1>4, <1>5

LEMMA TableOfBit ==
  ASSUME NEW g \in 1..5, NEW i \in DOMAIN DccTable[g]
  PROVE  /\ DccTable[g][i] \in 0..28
         /\ Group(DccTable[g][i]) = g
<1>1. CASE g = 1
  BY <1>1, Groups, Rows
<1>2. CASE g = 2
  BY <1>2, Groups, Rows
<1>3. CASE g = 3
  BY <1>3, Groups, Rows
<1>4. CASE g = 4
  BY <1>4, Groups, Rows
<1>5. CASE g = 5
  BY <1>5, Groups, Rows
<1> QED
  BY <1>1, <1>2, <1>3, <1>4, <1>5

LEMMA FnsOfIsGroup ==
  ASSUME NEW g \in 1..5
  PROVE  FnsOf(g) = {f \in Fns : Group(f) = g}
<1>1. ASSUME NEW f \in FnsOf(g) PROVE f \in Fns /\ Group(f) = g
  BY TableOfBit DEF FnsOf
<1>2. ASSUME NEW f \in Fns, Group(f) = g PROVE f \in FnsOf(g)
  BY <1>2, BitOfTable, FnConfigAssumption DEF FnsOf
<1> QED
  BY <1>1, <1>2

\* The byte of a group carries the functions of the group that are on, and the
\* station switches exactly these.
Switched(s, on, f) == Dfun(s, Group(f), DccByte(on, f))
OthersKept(s, on, f) ==
  \A g \in (1..5) \ {Group(f)} : Switched(s, on, f).lit \cap FnsOf(g) = s.lit \cap FnsOf(g)

LEMMA DfunSwitches ==
  ASSUME NEW on \in SUBSET Fns, NEW f \in Fns, NEW s \in Loco
  PROVE  /\ Switched(s, on, f) \in Loco
         /\ Switched(s, on, f).speed = s.speed /\ Switched(s, on, f).dir = s.dir
         /\ Switched(s, on, f).lit \cap FnsOf(Group(f)) = on \cap FnsOf(Group(f))
         /\ OthersKept(s, on, f)
<1> DEFINE G == Group(f)
           byte == DccByte(on, f)
           Set == {DccTable[G][b + 1] : b \in {x \in byte : x + 1 \in DOMAIN DccTable[G]}}
           t == Switched(s, on, f)
<1>1. G \in 1..5
  BY BitOfTable, FnConfigAssumption
<1>2. Set \cap Fns = {h \in on : Group(h) = G}
  <2>1. ASSUME NEW h \in on, Group(h) = G PROVE h \in Set
    <3>1. Bit(h) \in byte
      BY <2>1 DEF DccByte
    <3>2. Bit(h) + 1 \in DOMAIN DccTable[G] /\ DccTable[G][Bit(h) + 1] = h
      BY <2>1, BitOfTable, FnConfigAssumption
    <3> QED
      BY <3>1, <3>2
  <2>2. ASSUME NEW h \in Set PROVE h \in on /\ Group(h) = G
    <3>1. PICK b \in byte : b + 1 \in DOMAIN DccTable[G] /\ h = DccTable[G][b + 1]
      BY <2>2
    <3>2. PICK k \in on : Group(k) = G /\ b = Bit(k)
      BY <3>1 DEF DccByte
    <3>3. DccTable[G][b + 1] = k
      BY <3>2, BitOfTable, FnConfigAssumption
    <3> QED
      BY <3>1, <3>2, <3>3
  <2> QED
    BY <2>1, <2>2
<1>3. t = [s EXCEPT !.lit = (@ \ FnsOf(G)) \cup (Set \cap Fns)]
  BY DEF Dfun, Switched
<1>4. \A g \in 1..5 : FnsOf(g) = {h \in Fns : Group(h) = g}
  BY FnsOfIsGroup
<1>5. t.lit = (s.lit \ FnsOf(G)) \cup {h \in on : Group(h) = G}
  BY <1>2, <1>3 DEF Loco
<1>6. t \in Loco /\ t.speed = s.speed /\ t.dir = s.dir
  BY <1>3, <1>2 DEF Loco
<1>7. t.lit \cap FnsOf(G) = on \cap FnsOf(G)
  BY <1>1, <1>4, <1>5
<1>8. \A g \in (1..5) \ {G} : t.lit \cap FnsOf(g) = s.lit \cap FnsOf(g)
  BY <1>1, <1>4, <1>5
<1> QED
  BY <1>6, <1>7, <1>8 DEF OthersKept

-----------------------------------------------------------------------------
(* Types.                                                                  *)

LEMMA AfterTyped ==
  ASSUME NEW s \in Session, NEW f \in Fns, NEW down \in BOOLEAN
  PROVE  /\ After(s, f, down) \in Session
         /\ After(s, f, down).speed = s.speed /\ After(s, f, down).dir = s.dir
<1>1. Toggled(s, f) \in Session /\ Toggled(s, f).speed = s.speed /\ Toggled(s, f).dir = s.dir
  BY DEF Toggled, Session
<1>2. Retyped(s, f) \in Session /\ Retyped(s, f).speed = s.speed /\ Retyped(s, f).dir = s.dir
  BY DEF Retyped, Session
<1> QED
  BY <1>1, <1>2 DEF After

LEMMA AcquiredTyped ==
  ASSUME TypeOK, NEW l \in Locos, NEW t \in Types
  PROVE  /\ Acquired(l, t) \in Session
         /\ Acquired(l, t).on = {}
         /\ Acquired(l, t).momentary = Applied(map, l, fresh)
         /\ Acquired(l, t).speed = station[l].speed /\ Acquired(l, t).dir = station[l].dir
<1>1. station[l].dir \in {0, 1} /\ station[l].speed \in 0..126
  BY DEF TypeOK, Loco
<1>2. PlocByte(l) % 128 = station[l].speed /\ PlocByte(l) \div 128 = station[l].dir
  BY <1>1 DEF PlocByte
<1>3. Applied(map, l, fresh) \in SUBSET Fns
  BY AppliedFns DEF TypeOK, FnConfigTypeOK
<1> QED
  BY <1>1, <1>2, <1>3 DEF Acquired, Session

LEMMA DspdTyped ==
  ASSUME NEW s \in Loco, NEW d \in {0, 1}, NEW v \in 0..126
  PROVE  /\ Dspd(s, d, v) \in Loco
         /\ Dspd(s, d, v).lit = s.lit /\ Dspd(s, d, v).dir = d /\ Dspd(s, d, v).speed = v
  BY DEF Dspd, Loco

LEMMA ProgrammingHolding ==
  ASSUME TypeOK, NEW S \in SUBSET DOMAIN sessions
  PROVE  Programming(S) \in Holding /\ DOMAIN Programming(S) = S
<1>1. S \in SUBSET Keys
  BY DEF TypeOK, Keys
<1>2. Programming(S) \in [S -> SUBSET Fns]
  BY DEF Programming, TypeOK, Session
<1> QED
  BY <1>1, <1>2, HoldingIntro

LEMMA InitTypeOK == Init => TypeOK
<1> SUFFICES ASSUME Init PROVE TypeOK
  OBVIOUS
<1>1. PICK v \in Lists : file = GeneralList(v)
  BY DEF Init, FnConfigInit
<1>2. file \in Holding
  BY <1>1, GeneralHolding, FnConfigAssumption
<1>3. FnConfigTypeOK
  BY <1>2 DEF Init, FnConfigInit, FnConfigTypeOK
<1>4. station \in [Locos -> Loco]
  BY DEF Init, Loco
<1>5. DOMAIN sessions = {} /\ 0 \in 0..MaxEvents
  BY ThrottleAssumption DEF Init
<1>6. buttons \in [Locos -> SUBSET Fns] /\ told \in [Locos -> SUBSET (1..5)]
  BY DEF Init
<1> QED
  BY <1>3, <1>4, <1>5, <1>6 DEF Init, TypeOK

LEMMA TypeSettings ==
  ASSUME TypeOK,
         \/ UNCHANGED settings
         \/ LoadConfig /\ UNCHANGED <<file, page, wanted, cut>>
         \/ \E S \in SUBSET DOMAIN sessions :
              SetNewPairs(Programming(S)) \/ CutSave(Programming(S))
         \/ PageRead
         \/ \E v \in Lists : PageSave(v)
  PROVE  FnConfigTypeOK'
<1> USE DEF TypeOK, FnConfigTypeOK
<1>1. CASE UNCHANGED settings
  BY <1>1 DEF settings
<1>2. CASE LoadConfig /\ UNCHANGED <<file, page, wanted, cut>>
  BY <1>2 DEF LoadConfig
<1>3. ASSUME NEW S \in SUBSET DOMAIN sessions, SetNewPairs(Programming(S))
      PROVE  FnConfigTypeOK'
  <2>1. Programming(S) \in Holding
    BY ProgrammingHolding
  <2>2. With(map, Programming(S)) \in Holding /\ With(wanted, Programming(S)) \in Holding
    BY <2>1, WithHolding
  <2> QED
    BY <1>3, <2>2 DEF SetNewPairs
<1>4. ASSUME NEW S \in SUBSET DOMAIN sessions, CutSave(Programming(S))
      PROVE  FnConfigTypeOK'
  <2> DEFINE whole == With(map, Programming(S))
  <2>1. whole \in Holding /\ wanted' \in Holding
    BY <1>4, ProgrammingHolding, WithHolding DEF CutSave
  <2>2. PICK K \in SUBSET (DOMAIN whole \cap Locos) : file' = [k \in K |-> whole[k]]
    BY <1>4 DEF CutSave
  <2>3. K \in SUBSET Keys /\ file' \in [K -> SUBSET Fns]
    BY <2>1, <2>2, HoldingElim DEF Keys
  <2>4. file' \in Holding
    BY <2>3, HoldingIntro
  <2> QED
    BY <1>4, <2>1, <2>4 DEF CutSave
<1>5. CASE PageRead
  BY <1>5 DEF PageRead
<1>6. ASSUME NEW v \in Lists, PageSave(v) PROVE FnConfigTypeOK'
  <2>1. GeneralList(v) \in Holding
    BY GeneralHolding, FnConfigAssumption
  <2>2. With(page, GeneralList(v)) \in Holding /\ With(wanted, GeneralList(v)) \in Holding
    BY <2>1, WithHolding
  <2> QED
    BY <1>6, <2>2 DEF PageSave
<1> QED
  BY <1>1, <1>2, <1>3, <1>4, <1>5, <1>6

LEMMA EventTyped == ASSUME TypeOK, Event \/ UNCHANGED events PROVE events' \in 0..MaxEvents
  BY ThrottleAssumption DEF TypeOK, Event

-----------------------------------------------------------------------------
(* A command is for sessions there are.                                    *)

Commands == \E L \in SUBSET DOMAIN sessions, all \in BOOLEAN : Command(L, all)

LEMMA NextCases ==
  ASSUME Next
  PROVE  \/ Connect \/ Disconnect \/ Restart
         \/ \E l \in Locos : Sweep(l)
         \/ \E l \in Locos, t \in Types : Acquire(l, t)
         \/ Commands
         \/ PageOpen
         \/ \E v \in Lists : PagePost(v)
<1>1. ASSUME NEW l \in DOMAIN sessions, Command({l}, FALSE) PROVE Commands
  BY <1>1 DEF Commands
<1>2. ASSUME NEW t \in Types, Command(OfType(t), TRUE) PROVE Commands
  BY <1>2 DEF Commands, OfType
<1> QED
  BY <1>1, <1>2 DEF Next

LEMMA CommandCases ==
  ASSUME TypeOK, NEW L \in SUBSET DOMAIN sessions, NEW all \in BOOLEAN, Command(L, all)
  PROVE  \/ Release(L)
         \/ \E v \in 0..126 : Speed(L, v)
         \/ EmergencyStop(L) \/ Idle(L)
         \/ \E d \in {0, 1} : Direction(L, d, all)
         \/ \E f \in Fns, down \in BOOLEAN : SetFunction(L, f, down) \/ SetFunctionCut(L, f, down)
  BY ThrottleAssumption DEF Command

\* The effect of a button, locomotive by locomotive.
Effect(L, f, down) ==
  /\ DOMAIN sessions' = DOMAIN sessions
  /\ \A l \in L : sessions'[l] = After(sessions[l], f, down)
  /\ \A l \in DOMAIN sessions \ L : sessions'[l] = sessions[l]
  /\ \A l \in Sent(L, f, down) :
       /\ station'[l] = Switched(station[l], After(sessions[l], f, down).on, f)
       /\ told'[l] = told[l] \cup {Group(f)}
  /\ \A l \in Locos \ Sent(L, f, down) : station'[l] = station[l] /\ told'[l] = told[l]

LEMMA SetFunctionEffect ==
  ASSUME TypeOK, NEW L \in SUBSET DOMAIN sessions, NEW f \in Fns, NEW down \in BOOLEAN,
         SetFunction(L, f, down)
  PROVE  Effect(L, f, down)
  BY DEF SetFunction, Effect, Sent, TypeOK, Switched

LEMMA SetFunctionTyped ==
  ASSUME TypeOK, NEW L \in SUBSET DOMAIN sessions, NEW f \in Fns, NEW down \in BOOLEAN,
         SetFunction(L, f, down)
  PROVE  TypeOK'
<1>0. Effect(L, f, down)
  BY SetFunctionEffect
<1>1. ASSUME NEW l \in DOMAIN sessions PROVE sessions'[l] \in Session
  <2>1. sessions[l] \in Session
    BY DEF TypeOK
  <2>2. After(sessions[l], f, down) \in Session
    BY <2>1, AfterTyped
  <2> QED
    BY <1>0, <2>1, <2>2 DEF Effect
<1>2. station' \in [Locos -> Loco]
  <2>1. ASSUME NEW l \in Sent(L, f, down) PROVE station'[l] \in Loco
    <3>1. sessions[l] \in Session /\ station[l] \in Loco
      BY DEF TypeOK, Sent
    <3>2. After(sessions[l], f, down).on \in SUBSET Fns
      BY <3>1, AfterTyped DEF Session
    <3> QED
      <4>1. Switched(station[l], After(sessions[l], f, down).on, f) \in Loco
        BY <3>1, <3>2, DfunSwitches
      <4> QED
        BY <1>0, <4>1 DEF Effect
  <2>2. ASSUME NEW l \in Locos \ Sent(L, f, down) PROVE station'[l] \in Loco
    BY <1>0 DEF TypeOK, Effect
  <2>3. station' = [l \in Locos |-> station'[l]]
    BY DEF SetFunction
  <2> QED
    BY <2>1, <2>2, <2>3
<1>3. told' \in [Locos -> SUBSET (1..5)]
  <2>1. Group(f) \in 1..5
    BY BitOfTable, FnConfigAssumption
  <2>2. ASSUME NEW l \in Locos PROVE told'[l] \in SUBSET (1..5)
    BY <1>0, <2>1 DEF TypeOK, Effect
  <2>3. told' = [l \in Locos |-> told'[l]]
    BY DEF SetFunction
  <2> QED
    BY <2>2, <2>3
<1>4. FnConfigTypeOK'
  <2>1. Saved(L, f, down) \in SUBSET DOMAIN sessions
    BY DEF Saved, Sent
  <2> QED
    BY <2>1, TypeSettings DEF SetFunction
<1>5. buttons' \in [Locos -> SUBSET Fns] /\ connected' = connected
  BY DEF SetFunction, Key, TypeOK
<1>6. events' \in 0..MaxEvents
  BY EventTyped DEF SetFunction, Key
<1>7. fresh' = fresh /\ DOMAIN sessions' = DOMAIN sessions
  BY DEF SetFunction
<1> QED
  BY <1>1, <1>2, <1>3, <1>4, <1>5, <1>6, <1>7 DEF TypeOK

LEMMA DriveTyped ==
  ASSUME TypeOK, NEW L \in SUBSET DOMAIN sessions, NEW s \in 0..126, NEW v \in 0..126,
         Drive(L, s, v)
  PROVE  TypeOK'
<1>1. \A l \in DOMAIN sessions' : sessions'[l] \in Session
  BY DEF Drive, TypeOK, Session
<1>2. station' \in [Locos -> Loco]
  <2>1. ASSUME NEW l \in Locos PROVE station'[l] \in Loco
    <3>1. CASE l \in L
      <4>1. station[l] \in Loco /\ sessions[l].dir \in {0, 1}
        BY <3>1 DEF TypeOK, Session
      <4>2. station'[l] = Dspd(station[l], sessions[l].dir, v)
        BY <3>1 DEF Drive
      <4> QED
        BY <4>1, <4>2, DspdTyped
    <3>2. CASE l \notin L
      BY <3>2 DEF Drive, TypeOK
    <3> QED
      BY <3>1, <3>2
  <2>2. station' = [l \in Locos |-> station'[l]]
    BY DEF Drive
  <2> QED
    BY <2>1, <2>2
<1>3. FnConfigTypeOK' /\ events' \in 0..MaxEvents
  BY TypeSettings, EventTyped DEF Drive
<1> QED
  BY <1>1, <1>2, <1>3 DEF Drive, TypeOK

LEMMA DirectionTyped ==
  ASSUME TypeOK, NEW L \in SUBSET DOMAIN sessions, NEW d \in {0, 1}, NEW all \in BOOLEAN,
         Direction(L, d, all)
  PROVE  TypeOK'
<1>1. \A l \in DOMAIN sessions' : sessions'[l] \in Session
  BY DEF Direction, TypeOK, Session
<1>2. station' \in [Locos -> Loco]
  <2>1. ASSUME NEW l \in Locos PROVE station'[l] \in Loco
    <3>1. CASE l \in L
      <4>1. /\ station[l] \in Loco /\ sessions[l].speed \in 0..126
            /\ AsSent(sessions[l].speed) \in 0..126
        <5>1. station[l] \in Loco /\ sessions[l] \in Session
          BY <3>1 DEF TypeOK
        <5>2. sessions[l].speed \in 0..126
          BY <5>1 DEF Session
        <5> QED
          BY <5>1, <5>2 DEF AsSent
      <4>2. PICK v \in 0..126 : station'[l] = Dspd(station[l], d, v)
        <5>1. station'[l] = Dspd(station[l], d, IF all THEN sessions[l].speed
                                                       ELSE AsSent(sessions[l].speed))
          BY <3>1 DEF Direction
        <5> QED
          BY <4>1, <5>1
      <4>3. Dspd(station[l], d, v) \in Loco
        BY <4>1, DspdTyped
      <4> QED
        BY <4>2, <4>3
    <3>2. CASE l \notin L
      BY <3>2 DEF Direction, TypeOK
    <3> QED
      BY <3>1, <3>2
  <2>2. station' = [l \in Locos |-> station'[l]]
    BY DEF Direction
  <2> QED
    BY <2>1, <2>2
<1>3. FnConfigTypeOK' /\ events' \in 0..MaxEvents
  BY TypeSettings, EventTyped DEF Direction
<1> QED
  BY <1>1, <1>2, <1>3 DEF Direction, TypeOK

LEMMA CommandTyped ==
  ASSUME TypeOK, NEW L \in SUBSET DOMAIN sessions, NEW all \in BOOLEAN, Command(L, all)
  PROVE  TypeOK'
<1>1. CASE Release(L)
  <2>1. FnConfigTypeOK'
    BY <1>1, TypeSettings DEF Release
  <2> QED
    BY <1>1, <2>1 DEF Release, TypeOK, layout
<1>2. ASSUME NEW v \in 0..126, Speed(L, v) PROVE TypeOK'
  <2>1. AsSent(v) \in 0..126
    BY DEF AsSent
  <2> QED
    BY <1>2, <2>1, DriveTyped DEF Speed
<1>3. CASE EmergencyStop(L) \/ Idle(L)
  <2>1. 0 \in 0..126 /\ 1 \in 0..126
    OBVIOUS
  <2> QED
    BY <1>3, <2>1, DriveTyped DEF EmergencyStop, Idle
<1>4. ASSUME NEW d \in {0, 1}, Direction(L, d, all) PROVE TypeOK'
  BY <1>4, DirectionTyped
<1>5. ASSUME NEW f \in Fns, NEW down \in BOOLEAN, SetFunction(L, f, down) PROVE TypeOK'
  BY <1>5, SetFunctionTyped
<1>6. ASSUME NEW f \in Fns, NEW down \in BOOLEAN, SetFunctionCut(L, f, down) PROVE TypeOK'
  <2>1. Saved(L, f, down) \in SUBSET DOMAIN sessions
    BY DEF Saved, Sent
  <2>2. FnConfigTypeOK'
    BY <1>6, <2>1, TypeSettings DEF SetFunctionCut
  <2>3. DOMAIN sessions' = {} /\ UNCHANGED <<station, told, events>>
    BY <1>6 DEF SetFunctionCut, Down, layout
  <2>4. buttons' \in [Locos -> SUBSET Fns] /\ connected' = FALSE /\ fresh' = {}
    BY <1>6 DEF SetFunctionCut, Down
  <2> QED
    BY <2>2, <2>3, <2>4 DEF TypeOK
<1> QED
  BY <1>1, <1>2, <1>3, <1>4, <1>5, <1>6, CommandCases

LEMMA NextTyped == ASSUME TypeOK, [Next]_vars PROVE TypeOK'
<1>1. CASE Connect
  <2>1. FnConfigTypeOK'
    BY <1>1, TypeSettings DEF Connect
  <2>2. GeneralFns(file) \in SUBSET Fns
    BY GeneralFnsFns DEF TypeOK, FnConfigTypeOK
  <2> QED
    BY <1>1, <2>1, <2>2 DEF Connect, TypeOK, layout
<1>2. CASE Disconnect
  <2>1. FnConfigTypeOK'
    BY <1>2, TypeSettings DEF Disconnect
  <2> QED
    BY <1>2, <2>1 DEF Disconnect, TypeOK, layout, daemon
<1>3. CASE Restart
  <2>1. FnConfigTypeOK'
    BY <1>3, TypeSettings DEF Restart
  <2>2. DOMAIN sessions' = {} /\ buttons' \in [Locos -> SUBSET Fns]
    BY <1>3 DEF Restart, Down
  <2> QED
    BY <1>3, <2>1, <2>2 DEF Restart, Down, TypeOK, layout
<1>4. ASSUME NEW l \in Locos, Sweep(l) PROVE TypeOK'
  <2>1. FnConfigTypeOK'
    BY <1>4, TypeSettings DEF Sweep
  <2>2. station' \in [Locos -> Loco]
    BY <1>4, DspdTyped DEF Sweep, TypeOK, Session
  <2> QED
    BY <1>4, <2>1, <2>2 DEF Sweep, TypeOK, device
<1>5. ASSUME NEW l \in Locos, NEW t \in Types, Acquire(l, t) PROVE TypeOK'
  <2>1. FnConfigTypeOK'
    BY <1>5, TypeSettings DEF Acquire
  <2>2. DOMAIN sessions' = DOMAIN sessions \cup {l}
    BY <1>5 DEF Acquire, With
  <2>3. \A k \in DOMAIN sessions' : sessions'[k] \in Session
    BY <1>5, AcquiredTyped DEF Acquire, With, TypeOK
  <2>4. GeneralFns(file) \in SUBSET Fns
    BY GeneralFnsFns DEF TypeOK, FnConfigTypeOK
  <2>5. events' \in 0..MaxEvents
    BY <1>5, EventTyped DEF Acquire
  <2> QED
    BY <1>5, <2>1, <2>2, <2>3, <2>4, <2>5 DEF Acquire, TypeOK
<1>6. CASE Commands
  BY <1>6, CommandTyped DEF Commands
<1>7. CASE PageOpen
  <2>1. FnConfigTypeOK'
    BY <1>7, TypeSettings DEF PageOpen
  <2> QED
    BY <1>7, <2>1 DEF PageOpen, TypeOK, daemon, device, layout
<1>8. ASSUME NEW v \in Lists, PagePost(v) PROVE TypeOK'
  <2>1. FnConfigTypeOK'
    BY <1>8, TypeSettings DEF PagePost
  <2> QED
    BY <1>8, <2>1 DEF PagePost, TypeOK, daemon, device, layout
<1>9. CASE UNCHANGED vars
  <2>1. FnConfigTypeOK'
    BY <1>9, TypeSettings DEF vars
  <2> QED
    BY <1>9, <2>1 DEF vars, TypeOK, daemon, device, layout
<1> QED
  BY <1>1, <1>2, <1>3, <1>4, <1>5, <1>6, <1>7, <1>8, <1>9, NextCases

\* Holdings, sessions, station and buttons keep their types: no command leaves
\* a session or a locomotive with a speed or a function there is not.
THEOREM ThrottleTyped == Spec => []TypeOK
  BY InitTypeOK, NextTyped, PTL DEF Spec

-----------------------------------------------------------------------------
(* Speed and direction.                                                    *)

\* Speed and direction leave the functions of locomotive l alone.
FunctionsKept(l) ==
  /\ sessions'[l].on = sessions[l].on
  /\ sessions'[l].momentary = sessions[l].momentary
  /\ station'[l].lit = station[l].lit

Driven(l, L, s, v) ==
  /\ sessions'[l].speed = (IF l \in L THEN s ELSE sessions[l].speed)
  /\ station'[l].speed = (IF l \in L THEN v ELSE station[l].speed)
  /\ sessions'[l].dir = sessions[l].dir
  /\ station'[l].dir = (IF l \in L THEN sessions[l].dir ELSE station[l].dir)

LEMMA DriveEffect ==
  ASSUME TypeOK, NEW L \in SUBSET DOMAIN sessions, NEW s \in 0..126, NEW v \in 0..126,
         Drive(L, s, v), NEW l \in DOMAIN sessions
  PROVE  Driven(l, L, s, v) /\ FunctionsKept(l)
<1> USE DEF Driven, FunctionsKept
<1>1. sessions[l] \in Session /\ station[l] \in Loco /\ sessions[l].dir \in {0, 1}
  BY DEF TypeOK, Session
<1>2. CASE l \in L
  <2>1. sessions'[l] = [sessions[l] EXCEPT !.speed = s]
    BY <1>2 DEF Drive
  <2>2. station'[l] = Dspd(station[l], sessions[l].dir, v)
    BY <1>2 DEF Drive, TypeOK
  <2> QED
    <3>1. /\ sessions'[l].speed = s /\ sessions'[l].dir = sessions[l].dir
          /\ sessions'[l].on = sessions[l].on
          /\ sessions'[l].momentary = sessions[l].momentary
      BY <1>1, <2>1 DEF Session
    <3>2. /\ station'[l].speed = v /\ station'[l].dir = sessions[l].dir
          /\ station'[l].lit = station[l].lit
      BY <1>1, <2>2 DEF Dspd, Loco
    <3> QED
      BY <1>2, <3>1, <3>2
<1>3. CASE l \notin L
  BY <1>3 DEF Drive, TypeOK
<1> QED
  BY <1>2, <1>3

Directed(l, L, d) ==
  /\ sessions'[l].speed = sessions[l].speed
  /\ l \in L => station'[l].speed \in {sessions[l].speed, AsSent(sessions[l].speed)}
  /\ l \notin L => station'[l].speed = station[l].speed
  /\ sessions'[l].dir = (IF l \in L THEN d ELSE sessions[l].dir)
  /\ station'[l].dir = (IF l \in L THEN d ELSE station[l].dir)

LEMMA DirectionEffect ==
  ASSUME TypeOK, NEW L \in SUBSET DOMAIN sessions, NEW d \in {0, 1}, NEW all \in BOOLEAN,
         Direction(L, d, all), NEW l \in DOMAIN sessions
  PROVE  Directed(l, L, d) /\ FunctionsKept(l)
<1> USE DEF Directed, FunctionsKept
<1>1. sessions[l] \in Session /\ station[l] \in Loco
  BY DEF TypeOK
<1>2. CASE l \in L
  <2>1. sessions'[l] = [sessions[l] EXCEPT !.dir = d]
    BY <1>2 DEF Direction
  <2>2. PICK v \in {sessions[l].speed, AsSent(sessions[l].speed)} :
          station'[l] = Dspd(station[l], d, v)
    BY <1>2 DEF Direction, TypeOK
  <2>3. /\ sessions'[l].speed = sessions[l].speed /\ sessions'[l].dir = d
        /\ sessions'[l].on = sessions[l].on
        /\ sessions'[l].momentary = sessions[l].momentary
    BY <1>1, <2>1 DEF Session
  <2>4. /\ station'[l].speed = v /\ station'[l].dir = d
        /\ station'[l].lit = station[l].lit
    BY <1>1, <2>2 DEF Dspd, Loco
  <2> QED
    BY <1>2, <2>2, <2>3, <2>4
<1>3. CASE l \notin L
  BY <1>3 DEF Direction, TypeOK
<1> QED
  BY <1>2, <1>3

LEMMA CommandRuns ==
  ASSUME TypeOK, RunsAsSession, NEW L \in SUBSET DOMAIN sessions, NEW all \in BOOLEAN,
         Command(L, all)
  PROVE  RunsAsSession'
<1>1. CASE Release(L)
  BY <1>1 DEF Release, RunsAsSession, layout
<1>2. ASSUME NEW s \in 0..126, NEW v \in 0..126, Drive(L, s, v),
             v = s \/ <<s, v>> \in {<<0, 1>>, <<1, 2>>}
      PROVE  RunsAsSession'
  <2>1. DOMAIN sessions' = DOMAIN sessions
    BY <1>2 DEF Drive
  <2> QED
    <3>1. ASSUME NEW l \in DOMAIN sessions
          PROVE  /\ station'[l].dir = sessions'[l].dir
                 /\ \/ station'[l].speed = sessions'[l].speed
                    \/ <<sessions'[l].speed, station'[l].speed>> \in {<<0, 1>>, <<1, 2>>}
      <4>1. /\ station[l].dir = sessions[l].dir
            /\ \/ station[l].speed = sessions[l].speed
               \/ <<sessions[l].speed, station[l].speed>> \in {<<0, 1>>, <<1, 2>>}
        BY DEF RunsAsSession
      <4>2. Driven(l, L, s, v)
        BY <1>2, DriveEffect
      <4> QED
        BY <1>2, <4>1, <4>2 DEF Driven
    <3> QED
      BY <2>1, <3>1 DEF RunsAsSession
<1>3. ASSUME NEW v \in 0..126, Speed(L, v) PROVE RunsAsSession'
  <2>1. AsSent(v) \in 0..126 /\ (AsSent(v) = v \/ <<v, AsSent(v)>> = <<1, 2>>)
    BY DEF AsSent
  <2> QED
    BY <1>2, <1>3, <2>1 DEF Speed
<1>4. CASE EmergencyStop(L) \/ Idle(L)
  <2>1. 0 \in 0..126 /\ 1 \in 0..126
    OBVIOUS
  <2> QED
    BY <1>2, <1>4, <2>1 DEF EmergencyStop, Idle
<1>5. ASSUME NEW d \in {0, 1}, Direction(L, d, all) PROVE RunsAsSession'
  <2>1. DOMAIN sessions' = DOMAIN sessions
    BY <1>5 DEF Direction
  <2> QED
    <3>1. ASSUME NEW l \in DOMAIN sessions
          PROVE  /\ station'[l].dir = sessions'[l].dir
                 /\ \/ station'[l].speed = sessions'[l].speed
                    \/ <<sessions'[l].speed, station'[l].speed>> \in {<<0, 1>>, <<1, 2>>}
      <4>1. /\ station[l].dir = sessions[l].dir
            /\ \/ station[l].speed = sessions[l].speed
               \/ <<sessions[l].speed, station[l].speed>> \in {<<0, 1>>, <<1, 2>>}
        BY DEF RunsAsSession
      <4>2. Directed(l, L, d)
        BY <1>5, DirectionEffect
      <4> QED
        BY <4>1, <4>2 DEF AsSent, Directed
    <3> QED
      BY <2>1, <3>1 DEF RunsAsSession
<1>6. ASSUME NEW f \in Fns, NEW down \in BOOLEAN, SetFunction(L, f, down)
      PROVE  RunsAsSession'
  <2>1. Effect(L, f, down)
    BY <1>6, SetFunctionEffect
  <2>2. ASSUME NEW l \in DOMAIN sessions
        PROVE  /\ sessions'[l].speed = sessions[l].speed /\ sessions'[l].dir = sessions[l].dir
               /\ station'[l].speed = station[l].speed /\ station'[l].dir = station[l].dir
    <3>1. sessions[l] \in Session /\ station[l] \in Loco
      BY DEF TypeOK
    <3>2. /\ After(sessions[l], f, down).speed = sessions[l].speed
          /\ After(sessions[l], f, down).dir = sessions[l].dir
          /\ After(sessions[l], f, down).on \in SUBSET Fns
      BY <3>1, AfterTyped DEF Session
    <3>3. /\ Switched(station[l], After(sessions[l], f, down).on, f).speed = station[l].speed
          /\ Switched(station[l], After(sessions[l], f, down).on, f).dir = station[l].dir
      BY <3>1, <3>2, DfunSwitches
    <3> QED
      BY <2>1, <3>2, <3>3 DEF Effect, TypeOK
  <2> QED
    BY <2>1, <2>2 DEF RunsAsSession, Effect
<1>7. ASSUME NEW f \in Fns, NEW down \in BOOLEAN, SetFunctionCut(L, f, down)
      PROVE  RunsAsSession'
  BY <1>7 DEF SetFunctionCut, Down, RunsAsSession
<1> QED
  BY <1>1, <1>3, <1>4, <1>5, <1>6, <1>7, CommandCases

LEMMA NextRuns == ASSUME TypeOK, RunsAsSession, [Next]_vars PROVE RunsAsSession'
<1>1. CASE Connect \/ Disconnect \/ PageOpen \/ (\E v \in Lists : PagePost(v)) \/ UNCHANGED vars
  BY <1>1 DEF Connect, Disconnect, PageOpen, PagePost, vars, daemon, layout, RunsAsSession
<1>2. CASE Restart
  BY <1>2 DEF Restart, Down, RunsAsSession
<1>3. ASSUME NEW l \in Locos, Sweep(l) PROVE RunsAsSession'
  BY <1>3 DEF Sweep, RunsAsSession, TypeOK
<1>4. ASSUME NEW l \in Locos, NEW t \in Types, Acquire(l, t) PROVE RunsAsSession'
  BY <1>4, AcquiredTyped DEF Acquire, With, RunsAsSession
<1>5. CASE Commands
  BY <1>5, CommandRuns DEF Commands
<1> QED
  BY <1>1, <1>2, <1>3, <1>4, <1>5, NextCases

\* A locomotive runs in the direction and at the speed of its session, also
\* one that was running when it was acquired and one whose throttle has left.
THEOREM LocosRunAsSessions == Spec => []RunsAsSession
<1>1. Init => RunsAsSession
  BY DEF Init, RunsAsSession
<1> QED
  BY <1>1, NextRuns, ThrottleTyped, PTL DEF Spec

-----------------------------------------------------------------------------
(* Functions.                                                              *)

LEMMA AfterOn ==
  ASSUME NEW s \in Session, NEW f \in Fns, NEW down \in BOOLEAN
  PROVE  /\ \A h \in Fns \ {f} : h \in After(s, f, down).on <=> h \in s.on
         /\ Discarded(s, f, down) \/ Programs(s, f) => After(s, f, down).on = s.on
  BY DEF After, Toggled, Retyped, Session

LEMMA SetFunctionAgrees ==
  ASSUME TypeOK, FunctionsAgree, NEW L \in SUBSET DOMAIN sessions,
         NEW f \in Fns, NEW down \in BOOLEAN, SetFunction(L, f, down)
  PROVE  FunctionsAgree'
<1>1. Effect(L, f, down)
  BY SetFunctionEffect
<1>2. Group(f) \in 1..5 /\ \A g \in 1..5 : FnsOf(g) = {h \in Fns : Group(h) = g}
  BY BitOfTable, FnsOfIsGroup, FnConfigAssumption
<1>3. ASSUME NEW l \in DOMAIN sessions, NEW g \in told'[l]
      PROVE  station'[l].lit \cap FnsOf(g) = sessions'[l].on \cap FnsOf(g)
  <2>1. sessions[l] \in Session /\ station[l] \in Loco /\ told[l] \in SUBSET (1..5)
    BY DEF TypeOK
  <2>2. g \in 1..5
    BY <1>1, <1>2, <2>1 DEF Effect, TypeOK
  <2>3. CASE l \in Sent(L, f, down)
    <3> DEFINE on == After(sessions[l], f, down).on
    <3>1. on \in SUBSET Fns
      BY <2>1, AfterTyped DEF Session
    <3>2. station'[l] = Switched(station[l], on, f) /\ sessions'[l].on = on
      BY <1>1, <2>3 DEF Effect, Sent
    <3>3. CASE g = Group(f)
      <4>1. Switched(station[l], on, f).lit \cap FnsOf(Group(f)) = on \cap FnsOf(Group(f))
        BY <2>1, <3>1, DfunSwitches
      <4> QED
        BY <3>2, <3>3, <4>1
    <3>4. CASE g # Group(f)
      <4>1. g \in told[l]
        BY <1>1, <2>3, <3>4 DEF Effect
      <4>2. station[l].lit \cap FnsOf(g) = sessions[l].on \cap FnsOf(g)
        BY <4>1 DEF FunctionsAgree
      <4>3. station'[l].lit \cap FnsOf(g) = station[l].lit \cap FnsOf(g)
        <5>1. Switched(station[l], on, f).lit \cap FnsOf(g) = station[l].lit \cap FnsOf(g)
          <6>1. g \in (1..5) \ {Group(f)}
            BY <2>2, <3>4
          <6>2. OthersKept(station[l], on, f)
            BY <2>1, <3>1, DfunSwitches
          <6> QED
            BY <6>1, <6>2 DEF OthersKept
        <5> QED
          BY <3>2, <5>1
      <4>4. f \notin FnsOf(g) /\ FnsOf(g) \subseteq Fns
        BY <1>2, <2>2, <3>4
      <4>5. on \cap FnsOf(g) = sessions[l].on \cap FnsOf(g)
        BY <2>1, <4>4, AfterOn
      <4> QED
        BY <3>2, <4>2, <4>3, <4>5
    <3> QED
      BY <3>3, <3>4
  <2>4. CASE l \notin Sent(L, f, down)
    <3>1. station'[l] = station[l] /\ told'[l] = told[l]
      BY <1>1, <2>4 DEF Effect, TypeOK
    <3>2. sessions'[l].on = sessions[l].on
      BY <1>1, <2>1, <2>4, AfterOn DEF Effect, Sent
    <3> QED
      BY <3>1, <3>2 DEF FunctionsAgree
  <2> QED
    BY <2>3, <2>4
<1> QED
  BY <1>1, <1>3 DEF FunctionsAgree, Effect

LEMMA DriveKeepsFunctions ==
  ASSUME TypeOK, NEW L \in SUBSET DOMAIN sessions, NEW all \in BOOLEAN,
         \/ \E s \in 0..126, v \in 0..126 : Drive(L, s, v)
         \/ \E d \in {0, 1} : Direction(L, d, all)
  PROVE  /\ DOMAIN sessions' = DOMAIN sessions
         /\ \A l \in DOMAIN sessions : FunctionsKept(l)
         /\ UNCHANGED <<settings, fresh, connected, buttons, told>>
<1>1. ASSUME NEW s \in 0..126, NEW v \in 0..126, Drive(L, s, v) PROVE DOMAIN sessions' = DOMAIN sessions
  BY <1>1 DEF Drive
<1>2. ASSUME NEW d \in {0, 1}, Direction(L, d, all) PROVE DOMAIN sessions' = DOMAIN sessions
  BY <1>2 DEF Direction
<1>3. UNCHANGED <<settings, fresh, connected, buttons, told>>
  BY DEF Drive, Direction
<1> QED
  BY <1>1, <1>2, <1>3, DriveEffect, DirectionEffect

LEMMA SpeedIsDrive ==
  ASSUME NEW L, NEW v \in 0..126, Speed(L, v) \/ EmergencyStop(L) \/ Idle(L)
  PROVE  \E s \in 0..126, w \in 0..126 : Drive(L, s, w)
<1>1. AsSent(v) \in 0..126 /\ 0 \in 0..126 /\ 1 \in 0..126
  BY DEF AsSent
<1> QED
  BY <1>1 DEF Speed, EmergencyStop, Idle

LEMMA NextAgrees == ASSUME TypeOK, FunctionsAgree, [Next]_vars PROVE FunctionsAgree'
<1>1. CASE Connect \/ Disconnect \/ PageOpen \/ (\E v \in Lists : PagePost(v)) \/ UNCHANGED vars
  BY <1>1 DEF Connect, Disconnect, PageOpen, PagePost, vars, daemon, layout, FunctionsAgree
<1>2. CASE Restart
  BY <1>2 DEF Restart, Down, FunctionsAgree
<1>3. ASSUME NEW l \in Locos, Sweep(l) PROVE FunctionsAgree'
  BY <1>3 DEF Sweep, FunctionsAgree, TypeOK
<1>4. ASSUME NEW l \in Locos, NEW t \in Types, Acquire(l, t) PROVE FunctionsAgree'
  BY <1>4 DEF Acquire, With, FunctionsAgree, TypeOK
<1>5. ASSUME NEW L \in SUBSET DOMAIN sessions, NEW all \in BOOLEAN, Command(L, all)
      PROVE  FunctionsAgree'
  <2>1. CASE Release(L)
    BY <2>1 DEF Release, FunctionsAgree, layout
  <2>2. CASE \/ \E s \in 0..126, v \in 0..126 : Drive(L, s, v)
             \/ \E d \in {0, 1} : Direction(L, d, all)
    <3>1. /\ DOMAIN sessions' = DOMAIN sessions /\ told' = told
          /\ \A l \in DOMAIN sessions : FunctionsKept(l)
      BY <2>2, DriveKeepsFunctions
    <3>2. \A l \in DOMAIN sessions : /\ sessions'[l].on = sessions[l].on
                                     /\ station'[l].lit = station[l].lit
      BY <3>1 DEF FunctionsKept
    <3> QED
      BY <3>1, <3>2 DEF FunctionsAgree
  <2>3. ASSUME NEW f \in Fns, NEW down \in BOOLEAN, SetFunctionCut(L, f, down)
        PROVE  FunctionsAgree'
    BY <2>3 DEF SetFunctionCut, Down, FunctionsAgree
  <2> QED
    <3>1. ASSUME NEW v \in 0..126, Speed(L, v) \/ EmergencyStop(L) \/ Idle(L)
          PROVE  FunctionsAgree'
      BY <2>2, <3>1, SpeedIsDrive
    <3>2. CASE EmergencyStop(L) \/ Idle(L)
      <4>1. 0 \in 0..126
        OBVIOUS
      <4> QED
        BY <3>1, <3>2, <4>1
    <3>3. ASSUME NEW f \in Fns, NEW down \in BOOLEAN, SetFunction(L, f, down)
          PROVE  FunctionsAgree'
      BY <3>3, SetFunctionAgrees
    <3> QED
      BY <1>5, <2>1, <2>2, <2>3, <3>1, <3>2, <3>3, CommandCases
<1> QED
  BY <1>1, <1>2, <1>3, <1>4, <1>5, NextCases DEF Commands

\* In every group of which anything was sent, the functions of a locomotive
\* are as its session has them, whichever of them F28 has programmed since.
THEOREM FunctionsAreThoseOfTheSession == Spec => []FunctionsAgree
<1>1. Init => FunctionsAgree
  BY DEF Init, FunctionsAgree
<1> QED
  BY <1>1, NextAgrees, ThrottleTyped, PTL DEF Spec

-----------------------------------------------------------------------------
(* Buttons.                                                                *)

\* In step with its button a function stays only if F28 itself does, nothing
\* else is on while it programs, and no button is down that nobody follows.
InStep(s, held) ==
  /\ 28 \in s.on => s.on = {28}
  /\ 28 \in s.momentary => (28 \in s.on <=> 28 \in held)
  /\ 28 \notin s.on => \A f \in s.momentary : f \in s.on <=> f \in held

HandsInv ==
  /\ \A l \in Locos : ~connected \/ l \notin DOMAIN sessions => buttons[l] = {}
  /\ \A l \in DOMAIN sessions : InStep(sessions[l], buttons[l])

LEMMA AfterInStep ==
  ASSUME NEW s \in Session, NEW held \in SUBSET Fns, NEW f \in Fns, NEW down \in BOOLEAN,
         InStep(s, held), down = (f \notin held), f = 28 => held \subseteq {28},
         f = 28 /\ down => s.on \subseteq {28}
  PROVE  InStep(After(s, f, down), IF down THEN held \cup {f} ELSE held \ {f})
<1> DEFINE next == IF down THEN held \cup {f} ELSE held \ {f}
<1>1. CASE Discarded(s, f, down)
  BY <1>1 DEF Discarded, After, InStep, Session
<1>2. CASE ~Discarded(s, f, down) /\ Programs(s, f)
  <2>1. After(s, f, down) = IF down THEN Retyped(s, f) ELSE s
    BY <1>2 DEF After
  <2>2. /\ Retyped(s, f).on = s.on
        /\ 28 \in Retyped(s, f).momentary <=> 28 \in s.momentary
    BY <1>2 DEF Retyped, Session, Programs
  <2>3. 28 \in s.on /\ f # 28 /\ (28 \in next <=> 28 \in held)
    BY <1>2 DEF Programs
  <2> QED
    <3>1. /\ After(s, f, down).on = s.on
          /\ 28 \in After(s, f, down).momentary <=> 28 \in s.momentary
      BY <2>1, <2>2
    <3>2. s.on = {28} /\ (28 \in s.momentary => 28 \in held)
      BY <2>3 DEF InStep
    <3>3. /\ After(s, f, down).on = {28}
          /\ 28 \in After(s, f, down).momentary => 28 \in next
      BY <2>3, <3>1, <3>2
    <3>4. InStep(After(s, f, down), next)
      <4> HIDE DEF next
      <4> QED
        BY <3>3 DEF InStep
    <3> QED
      BY <3>4
<1>3. CASE ~Discarded(s, f, down) /\ ~Programs(s, f)
  <2>1. After(s, f, down) = Toggled(s, f)
    BY <1>3 DEF After
  <2>2. /\ Toggled(s, f).momentary = s.momentary
        /\ Toggled(s, f).on = IF f \in s.on THEN s.on \ {f} ELSE s.on \cup {f}
    BY DEF Toggled, Session
  <2>3. down \/ f \in s.momentary
    BY <1>3 DEF Discarded
  <2>4. CASE f = 28 /\ 28 \in s.on
    <3>1. s.on = {28} /\ held \subseteq {28} /\ (28 \in s.momentary <=> ~down)
      BY <2>3, <2>4 DEF InStep
    <3>2. After(s, f, down).on = {} /\ After(s, f, down).momentary = s.momentary
      BY <2>1, <2>2, <2>4, <3>1
    <3>3. next \subseteq {28} /\ (28 \in next <=> down)
      BY <2>4, <3>1
    <3>4. InStep(After(s, f, down), next)
      <4> HIDE DEF next
      <4> QED
        BY <3>1, <3>2, <3>3 DEF InStep
    <3> QED
      BY <3>4
  <2>5. CASE f = 28 /\ 28 \notin s.on
    <3>1. down /\ s.on = {} /\ held = {}
      BY <2>3, <2>5 DEF InStep
    <3>2. After(s, f, down).on = {28}
      BY <2>1, <2>2, <2>5, <3>1
    <3>3. next = {28}
      BY <2>5, <3>1
    <3>4. InStep(After(s, f, down), next)
      <4> HIDE DEF next
      <4> QED
        BY <3>2, <3>3 DEF InStep
    <3> QED
      BY <3>4
  <2>6. CASE f # 28 /\ 28 \notin s.on
    BY <2>1, <2>2, <2>3, <2>6 DEF InStep
  <2> QED
    BY <1>3, <2>4, <2>5, <2>6 DEF Programs
<1> QED
  BY <1>1, <1>2, <1>3

LEMMA SetFunctionHands ==
  ASSUME TypeOK, HandsInv, Tidy, NEW L \in SUBSET DOMAIN sessions,
         NEW f \in Fns, NEW down \in BOOLEAN, SetFunction(L, f, down)
  PROVE  HandsInv'
<1>1. Effect(L, f, down)
  BY SetFunctionEffect
<1>2. /\ connected /\ connected' = connected
      /\ \A l \in L : buttons'[l] = IF down THEN buttons[l] \cup {f} ELSE buttons[l] \ {f}
      /\ \A l \in Locos \ L : buttons'[l] = buttons[l]
  BY DEF SetFunction, Key, TypeOK
<1>3. ASSUME NEW l \in L PROVE InStep(sessions'[l], buttons'[l])
  <2>1. sessions[l] \in Session /\ buttons[l] \in SUBSET Fns /\ InStep(sessions[l], buttons[l])
    BY DEF TypeOK, HandsInv
  <2>2. /\ down = (f \notin buttons[l]) /\ (f = 28 => buttons[l] \subseteq {28})
        /\ f = 28 /\ down => sessions[l].on \subseteq {28}
    BY DEF SetFunction, Key, TidyKey
  <2>3. InStep(After(sessions[l], f, down), IF down THEN buttons[l] \cup {f} ELSE buttons[l] \ {f})
    BY <2>1, <2>2, AfterInStep
  <2> QED
    BY <1>1, <1>2, <2>3 DEF Effect
<1>4. ASSUME NEW l \in DOMAIN sessions \ L PROVE InStep(sessions'[l], buttons'[l])
  BY <1>1, <1>2 DEF Effect, HandsInv, TypeOK
<1>5. ASSUME NEW l \in Locos, l \notin DOMAIN sessions PROVE buttons'[l] = {}
  BY <1>2, <1>5 DEF HandsInv
<1> QED
  BY <1>1, <1>2, <1>3, <1>4, <1>5 DEF HandsInv, Effect

LEMMA NextHands == ASSUME TypeOK, HandsInv, Tidy, [Next]_vars PROVE HandsInv'
<1>1. CASE Connect \/ PageOpen \/ (\E v \in Lists : PagePost(v)) \/ UNCHANGED vars
  BY <1>1 DEF Connect, PageOpen, PagePost, vars, daemon, device, HandsInv
<1>2. CASE Disconnect
  BY <1>2 DEF Disconnect, TidyHands, daemon, HandsInv
<1>3. CASE Restart
  BY <1>3 DEF Restart, Down, HandsInv
<1>4. ASSUME NEW l \in Locos, Sweep(l) PROVE HandsInv'
  BY <1>4 DEF Sweep, device, HandsInv, TypeOK
<1>5. ASSUME NEW l \in Locos, NEW t \in Types, Acquire(l, t) PROVE HandsInv'
  <2>1. InStep(Acquired(l, t), {})
    BY AcquiredTyped DEF InStep
  <2>2. buttons[l] = {} /\ UNCHANGED <<connected, buttons>>
    BY <1>5 DEF Acquire, HandsInv
  <2>3. /\ DOMAIN sessions' = DOMAIN sessions \cup {l}
        /\ sessions'[l] = Acquired(l, t)
        /\ \A k \in DOMAIN sessions : sessions'[k] = sessions[k]
    BY <1>5 DEF Acquire, With
  <2> QED
    <3>1. ASSUME NEW k \in DOMAIN sessions' PROVE InStep(sessions'[k], buttons'[k])
      BY <2>1, <2>2, <2>3, <3>1 DEF HandsInv
    <3> QED
      BY <2>2, <2>3, <3>1 DEF HandsInv
<1>6. ASSUME NEW L \in SUBSET DOMAIN sessions, NEW all \in BOOLEAN, Command(L, all)
      PROVE  HandsInv'
  <2>1. CASE Release(L)
    BY <2>1 DEF Release, HandsInv, TypeOK
  <2>2. CASE \/ \E s \in 0..126, v \in 0..126 : Drive(L, s, v)
             \/ \E d \in {0, 1} : Direction(L, d, all)
    <3>1. /\ DOMAIN sessions' = DOMAIN sessions /\ UNCHANGED <<connected, buttons>>
          /\ \A l \in DOMAIN sessions : FunctionsKept(l)
      BY <2>2, DriveKeepsFunctions
    <3>2. ASSUME NEW l \in DOMAIN sessions PROVE InStep(sessions'[l], buttons[l])
      BY <3>1, <3>2 DEF HandsInv, InStep, FunctionsKept
    <3> QED
      BY <3>1, <3>2 DEF HandsInv
  <2>3. ASSUME NEW f \in Fns, NEW down \in BOOLEAN, SetFunctionCut(L, f, down)
        PROVE  HandsInv'
    BY <2>3 DEF SetFunctionCut, Down, HandsInv
  <2>4. ASSUME NEW v \in 0..126, Speed(L, v) \/ EmergencyStop(L) \/ Idle(L)
        PROVE  HandsInv'
    BY <2>2, <2>4, SpeedIsDrive
  <2>5. CASE EmergencyStop(L) \/ Idle(L)
    <3>1. 0 \in 0..126
      OBVIOUS
    <3> QED
      BY <2>4, <2>5, <3>1
  <2>6. ASSUME NEW f \in Fns, NEW down \in BOOLEAN, SetFunction(L, f, down)
        PROVE  HandsInv'
    BY <2>6, SetFunctionHands
  <2> QED
    BY <1>6, <2>1, <2>2, <2>3, <2>4, <2>5, <2>6, CommandCases
<1> QED
  BY <1>1, <1>2, <1>3, <1>4, <1>5, <1>6, NextCases DEF Commands

\* For users who let go of a button before they acquire, leave or program, a
\* momentary function is on exactly while its button is down.
THEOREM ButtonsAreFollowed == ASSUME Tidy PROVE Spec => []MomentaryFollowsButton
<1>1. Init => HandsInv
  BY DEF Init, HandsInv
<1>2. HandsInv => MomentaryFollowsButton
  BY DEF HandsInv, InStep, MomentaryFollowsButton
<1>3. TypeOK /\ HandsInv /\ [Next]_vars => HandsInv'
  BY NextHands
<1> QED
  BY <1>1, <1>2, <1>3, ThrottleTyped, PTL DEF Spec

-----------------------------------------------------------------------------
(* Settings.                                                               *)

\* What was programmed for a locomotive is in the map of the daemon too.
MapKept ==
  ~cut => \A l \in Locos \cap DOMAIN wanted : l \in DOMAIN map /\ map[l] = wanted[l]

Kept == SettingsKept /\ MapKept /\ DOMAIN file \subseteq DOMAIN wanted

LEMMA SettingsStep ==
  ASSUME TypeOK, Kept,
         \/ UNCHANGED settings
         \/ LoadConfig /\ UNCHANGED <<file, page, wanted, cut>>
         \/ \E S \in SUBSET DOMAIN sessions :
              map = file /\ (SetNewPairs(Programming(S)) \/ CutSave(Programming(S)))
         \/ PageRead
         \/ \E v \in Lists : page = file /\ PageSave(v)
  PROVE  Kept'
<1> USE DEF Kept, SettingsKept, MapKept
<1>1. CASE UNCHANGED settings
  BY <1>1 DEF settings
<1>2. CASE LoadConfig /\ UNCHANGED <<file, page, wanted, cut>>
  BY <1>2 DEF LoadConfig
<1>3. CASE PageRead
  BY <1>3 DEF PageRead
<1>4. ASSUME NEW S \in SUBSET DOMAIN sessions, map = file, SetNewPairs(Programming(S))
      PROVE  Kept'
  <2> DEFINE pairs == Programming(S)
  <2>1. pairs \in Holding /\ file \in Holding /\ wanted \in Holding
    BY ProgrammingHolding DEF TypeOK, FnConfigTypeOK
  <2>2. /\ DOMAIN With(file, pairs) = DOMAIN file \cup DOMAIN pairs
        /\ \A k \in DOMAIN pairs : With(file, pairs)[k] = pairs[k]
        /\ \A k \in DOMAIN file \ DOMAIN pairs : With(file, pairs)[k] = file[k]
    BY <2>1, WithHolding
  <2>3. /\ DOMAIN With(wanted, pairs) = DOMAIN wanted \cup DOMAIN pairs
        /\ \A k \in DOMAIN pairs : With(wanted, pairs)[k] = pairs[k]
        /\ \A k \in DOMAIN wanted \ DOMAIN pairs : With(wanted, pairs)[k] = wanted[k]
    BY <2>1, WithHolding
  <2>4. /\ map' = With(file, pairs) /\ file' = With(file, pairs)
        /\ wanted' = With(wanted, pairs) /\ cut' = cut
    BY <1>4 DEF SetNewPairs
  <2> HIDE DEF pairs
  <2> QED
    <3>1. SettingsKept'
      BY <2>2, <2>3, <2>4
    <3>2. MapKept' /\ DOMAIN file' \subseteq DOMAIN wanted'
      BY <2>2, <2>3, <2>4
    <3> QED
      BY <3>1, <3>2
<1>5. ASSUME NEW S \in SUBSET DOMAIN sessions, map = file, CutSave(Programming(S))
      PROVE  Kept'
  <2> DEFINE pairs == Programming(S)
  <2>1. pairs \in Holding /\ file \in Holding /\ wanted \in Holding
    BY ProgrammingHolding DEF TypeOK, FnConfigTypeOK
  <2>2. /\ DOMAIN With(file, pairs) = DOMAIN file \cup DOMAIN pairs
        /\ \A k \in DOMAIN pairs : With(file, pairs)[k] = pairs[k]
        /\ \A k \in DOMAIN file \ DOMAIN pairs : With(file, pairs)[k] = file[k]
    BY <2>1, WithHolding
  <2>3. /\ DOMAIN With(wanted, pairs) = DOMAIN wanted \cup DOMAIN pairs
        /\ \A k \in DOMAIN pairs : With(wanted, pairs)[k] = pairs[k]
        /\ \A k \in DOMAIN wanted \ DOMAIN pairs : With(wanted, pairs)[k] = wanted[k]
    BY <2>1, WithHolding
  <2>4. PICK K \in SUBSET (DOMAIN With(file, pairs) \cap Locos) :
          file' = [k \in K |-> With(file, pairs)[k]]
    BY <1>5 DEF CutSave
  <2>5. wanted' = With(wanted, pairs) /\ cut' = TRUE
    BY <1>5 DEF CutSave
  <2> HIDE DEF pairs
  <2> QED
    BY <2>2, <2>3, <2>4, <2>5
<1>6. ASSUME NEW v \in Lists, page = file, PageSave(v) PROVE Kept'
  <2>1. file \in Holding /\ wanted \in Holding /\ v \in SUBSET Fns
    BY FnConfigAssumption DEF TypeOK, FnConfigTypeOK
  <2>2. \A h \in Holding :
          /\ DOMAIN With(h, GeneralList(v)) = DOMAIN h \cup {FnMomentary}
          /\ With(h, GeneralList(v))[FnMomentary] = GeneralList(v)[FnMomentary]
          /\ \A k \in DOMAIN h \ {FnMomentary} : With(h, GeneralList(v))[k] = h[k]
    BY <2>1, WithGeneral
  <2>3. /\ file' = With(file, GeneralList(v)) /\ wanted' = With(wanted, GeneralList(v))
        /\ map' = map /\ cut' = cut
    BY <1>6 DEF PageSave
  <2>4. SettingsKept'
    <3>1. \A k \in DOMAIN file' : file'[k] = wanted'[k]
      <4>1. ASSUME NEW k \in DOMAIN file' PROVE file'[k] = wanted'[k]
        <5>1. CASE k = FnMomentary
          BY <2>1, <2>2, <2>3, <5>1
        <5>2. CASE k # FnMomentary
          BY <2>1, <2>2, <2>3, <4>1, <5>2
        <5> QED
          BY <5>1, <5>2
      <4> QED
        BY <4>1
    <3>2. ~cut' => DOMAIN file' = DOMAIN wanted'
      BY <2>1, <2>2, <2>3
    <3> QED
      BY <3>1, <3>2
  <2>5. MapKept' /\ DOMAIN file' \subseteq DOMAIN wanted'
    BY <2>1, <2>2, <2>3, FnConfigAssumption
  <2> QED
    BY <2>4, <2>5
<1> QED
  BY <1>1, <1>2, <1>3, <1>4, <1>5, <1>6

\* Whoever writes the file, under Orderly, holds what is in it.
LEMMA NextKept == ASSUME TypeOK, Kept, Orderly, [Next]_vars PROVE Kept'
<1>1. CASE Disconnect \/ (\E l \in Locos : Sweep(l)) \/ UNCHANGED vars
  <2>1. UNCHANGED settings
    BY <1>1 DEF Disconnect, Sweep, vars
  <2> QED
    BY <2>1, SettingsStep
<1>2. CASE Connect \/ Restart \/ (\E l \in Locos, t \in Types : Acquire(l, t))
  <2>1. LoadConfig /\ UNCHANGED <<file, page, wanted, cut>>
    BY <1>2 DEF Connect, Restart, Acquire
  <2> QED
    BY <2>1, SettingsStep
<1>3. CASE PageOpen \/ (\E v \in Lists : PagePost(v))
  BY <1>3, SettingsStep DEF PageOpen, PagePost, MayPageSave
<1>4. ASSUME NEW L \in SUBSET DOMAIN sessions, NEW all \in BOOLEAN, Command(L, all)
      PROVE  Kept'
  <2>1. ASSUME NEW f \in Fns, NEW down \in BOOLEAN,
               SetFunction(L, f, down) \/ SetFunctionCut(L, f, down)
        PROVE  Kept'
    <3>1. Saved(L, f, down) \in SUBSET DOMAIN sessions
      BY DEF Saved, Sent
    <3> QED
      BY <2>1, <3>1, SettingsStep DEF SetFunction, SetFunctionCut, MaySave
  <2>2. CASE ~\E f \in Fns, down \in BOOLEAN : SetFunction(L, f, down) \/ SetFunctionCut(L, f, down)
    <3>1. UNCHANGED settings
      BY <1>4, <2>2, CommandCases
         DEF Release, Speed, EmergencyStop, Idle, Drive, Direction
    <3> QED
      BY <3>1, SettingsStep
  <2> QED
    BY <2>1, <2>2
<1> QED
  BY <1>1, <1>2, <1>3, <1>4, NextCases DEF Commands

LEMMA InitKept == Init => Kept
  BY DEF Init, FnConfigInit, Kept, SettingsKept, MapKept

\* For writers who save only what they have just read, neither brings an old
\* value back or drops what the other one saved, and a power failure during a
\* save leaves no value that was not entered last.
THEOREM NothingIsBroughtBack == ASSUME Orderly PROVE Spec => []SettingsKept
<1>1. Kept => SettingsKept
  BY DEF Kept
<1>2. TypeOK /\ Kept /\ [Next]_vars => Kept'
  BY NextKept
<1> QED
  BY <1>1, <1>2, InitKept, ThrottleTyped, PTL DEF Spec

-----------------------------------------------------------------------------
(* Types of functions.                                                     *)

\* A button that neither programs nor ends programming leaves the types alone,
\* and F28 saves what it ends.
LEMMA AfterTypes ==
  ASSUME NEW L \in SUBSET DOMAIN sessions, NEW f \in Fns, NEW down \in BOOLEAN,
         NEW l \in L, sessions[l] \in Session,
         28 \notin After(sessions[l], f, down).on
  PROVE  /\ After(sessions[l], f, down).momentary = sessions[l].momentary
         /\ l \in Saved(L, f, down) \/ 28 \notin sessions[l].on
<1>1. CASE Discarded(sessions[l], f, down)
  BY <1>1 DEF After
<1>2. CASE ~Discarded(sessions[l], f, down) /\ Programs(sessions[l], f)
  BY <1>2 DEF After, Retyped, Programs, Session
<1>3. CASE ~Discarded(sessions[l], f, down) /\ ~Programs(sessions[l], f)
  <2>1. After(sessions[l], f, down) = Toggled(sessions[l], f)
    BY <1>3 DEF After
  <2>2. Toggled(sessions[l], f).momentary = sessions[l].momentary
    BY DEF Toggled, Session
  <2>3. l \in Sent(L, f, down)
    BY <1>3 DEF Sent
  <2> QED
    BY <1>3, <2>1, <2>2, <2>3 DEF Saved, Programs
<1> QED
  BY <1>1, <1>2, <1>3

LEMMA SetFunctionTypes ==
  ASSUME TypeOK, TypesAsProgrammed, NEW L \in SUBSET DOMAIN sessions,
         NEW f \in Fns, NEW down \in BOOLEAN, SetFunction(L, f, down)
  PROVE  TypesAsProgrammed'
<1> DEFINE saved == Saved(L, f, down)
           pairs == Programming(saved)
<1>1. Effect(L, f, down)
  BY SetFunctionEffect
<1>2. saved \in SUBSET L /\ saved \in SUBSET DOMAIN sessions
  BY DEF Saved, Sent
<1>3. pairs \in Holding /\ DOMAIN pairs = saved /\ \A l \in saved : pairs[l] = sessions[l].momentary
  BY <1>2, ProgrammingHolding DEF Programming
<1>4. wanted \in Holding
  BY DEF TypeOK, FnConfigTypeOK
<1>5. /\ DOMAIN wanted' = DOMAIN wanted \cup saved
      /\ \A l \in saved : wanted'[l] = sessions[l].momentary
      /\ \A l \in DOMAIN wanted \ saved : wanted'[l] = wanted[l]
      /\ cut' = cut
  <2>1. CASE saved = {}
    BY <2>1 DEF SetFunction, settings
  <2>2. CASE saved # {}
    <3>1. wanted' = With(wanted, pairs) /\ cut' = cut
      BY <2>2 DEF SetFunction, SetNewPairs
    <3>2. /\ DOMAIN With(wanted, pairs) = DOMAIN wanted \cup DOMAIN pairs
          /\ \A l \in DOMAIN pairs : With(wanted, pairs)[l] = pairs[l]
          /\ \A l \in DOMAIN wanted \ DOMAIN pairs : With(wanted, pairs)[l] = wanted[l]
      BY <1>3, <1>4, WithHolding
    <3> HIDE DEF pairs, saved
    <3> QED
      BY <1>3, <3>1, <3>2
  <2> QED
    BY <2>1, <2>2
<1> HIDE DEF pairs
<1>6. ASSUME NEW l \in DOMAIN sessions, l \in DOMAIN wanted',
             28 \notin sessions'[l].on, wanted'[l] # {}, ~cut
      PROVE  sessions'[l].momentary = wanted'[l]
  <2>1. CASE l \in L
    <3>1. sessions[l] \in Session /\ sessions'[l] = After(sessions[l], f, down)
      BY <1>1, <2>1 DEF TypeOK, Effect
    <3>2. /\ sessions'[l].momentary = sessions[l].momentary
          /\ l \in saved \/ 28 \notin sessions[l].on
      BY <1>6, <2>1, <3>1, AfterTypes
    <3>3. CASE l \in saved
      BY <1>5, <3>2, <3>3
    <3>4. CASE l \notin saved
      <4> HIDE DEF saved
      <4> QED
        BY <1>5, <1>6, <3>2, <3>4 DEF TypesAsProgrammed
    <3> QED
      BY <3>3, <3>4
  <2>2. CASE l \notin L
    <3>1. sessions'[l] = sessions[l] /\ l \notin saved
      BY <1>1, <1>2, <2>2 DEF Effect
    <3> HIDE DEF saved
    <3> QED
      BY <1>5, <1>6, <3>1 DEF TypesAsProgrammed
  <2> QED
    BY <2>1, <2>2
<1> QED
  <2>1. DOMAIN sessions' = DOMAIN sessions
    BY <1>1 DEF Effect
  <2> QED
    BY <1>5, <1>6, <2>1 DEF TypesAsProgrammed

LEMMA NextTypes == ASSUME TypeOK, Kept, TypesAsProgrammed, [Next]_vars PROVE TypesAsProgrammed'
<1>1. CASE Connect \/ Disconnect \/ PageOpen \/ UNCHANGED vars
  <2>1. UNCHANGED <<sessions, wanted, cut>>
    BY <1>1 DEF Connect, Disconnect, PageOpen, PageRead, daemon, settings, vars
  <2> QED
    BY <2>1 DEF TypesAsProgrammed
<1>2. CASE Restart
  BY <1>2 DEF Restart, Down, TypesAsProgrammed
<1>3. ASSUME NEW l \in Locos, Sweep(l) PROVE TypesAsProgrammed'
  BY <1>3 DEF Sweep, settings, TypesAsProgrammed
<1>4. ASSUME NEW l \in Locos, NEW t \in Types, Acquire(l, t) PROVE TypesAsProgrammed'
  <2>1. /\ DOMAIN sessions' = DOMAIN sessions \cup {l}
        /\ sessions'[l] = Acquired(l, t)
        /\ \A k \in DOMAIN sessions : sessions'[k] = sessions[k]
        /\ wanted' = wanted /\ cut' = cut
    BY <1>4 DEF Acquire, With
  <2>2. l \in DOMAIN wanted /\ wanted[l] # {} /\ ~cut => Acquired(l, t).momentary = wanted[l]
    BY DEF Kept, MapKept, Acquired, Applied
  <2> QED
    BY <2>1, <2>2 DEF TypesAsProgrammed
<1>5. ASSUME NEW v \in Lists, PagePost(v) PROVE TypesAsProgrammed'
  <2>1. wanted \in Holding /\ v \in SUBSET Fns /\ DOMAIN sessions \subseteq Locos
    BY FnConfigAssumption DEF TypeOK, FnConfigTypeOK
  <2>2. /\ DOMAIN With(wanted, GeneralList(v)) = DOMAIN wanted \cup {FnMomentary}
        /\ \A k \in DOMAIN wanted \ {FnMomentary} : With(wanted, GeneralList(v))[k] = wanted[k]
    BY <2>1, WithGeneral
  <2>3. wanted' = With(wanted, GeneralList(v)) /\ UNCHANGED <<sessions, cut>>
    BY <1>5 DEF PagePost, PageSave, daemon
  <2>4. ASSUME NEW l \in DOMAIN sessions
        PROVE  l \in DOMAIN wanted' => l \in DOMAIN wanted /\ wanted'[l] = wanted[l]
    <3>1. l # FnMomentary
      BY <2>1, FnConfigAssumption
    <3> QED
      BY <2>2, <2>3, <3>1
  <2> QED
    BY <2>3, <2>4 DEF TypesAsProgrammed
<1>6. ASSUME NEW L \in SUBSET DOMAIN sessions, NEW all \in BOOLEAN, Command(L, all)
      PROVE  TypesAsProgrammed'
  <2>1. CASE Release(L)
    BY <2>1 DEF Release, settings, TypesAsProgrammed
  <2>2. CASE \/ \E s \in 0..126, v \in 0..126 : Drive(L, s, v)
             \/ \E d \in {0, 1} : Direction(L, d, all)
    <3>1. /\ DOMAIN sessions' = DOMAIN sessions /\ UNCHANGED settings
          /\ \A l \in DOMAIN sessions : FunctionsKept(l)
      BY <2>2, DriveKeepsFunctions
    <3>2. \A l \in DOMAIN sessions : /\ sessions'[l].on = sessions[l].on
                                     /\ sessions'[l].momentary = sessions[l].momentary
      BY <3>1 DEF FunctionsKept
    <3>3. wanted' = wanted /\ cut' = cut
      BY <3>1 DEF settings
    <3> QED
      BY <3>1, <3>2, <3>3 DEF TypesAsProgrammed
  <2>3. ASSUME NEW f \in Fns, NEW down \in BOOLEAN, SetFunctionCut(L, f, down)
        PROVE  TypesAsProgrammed'
    BY <2>3 DEF SetFunctionCut, Down, TypesAsProgrammed
  <2>4. ASSUME NEW v \in 0..126, Speed(L, v) \/ EmergencyStop(L) \/ Idle(L)
        PROVE  TypesAsProgrammed'
    BY <2>2, <2>4, SpeedIsDrive
  <2>5. CASE EmergencyStop(L) \/ Idle(L)
    <3>1. 0 \in 0..126
      OBVIOUS
    <3> QED
      BY <2>4, <2>5, <3>1
  <2>6. ASSUME NEW f \in Fns, NEW down \in BOOLEAN, SetFunction(L, f, down)
        PROVE  TypesAsProgrammed'
    BY <2>6, SetFunctionTypes
  <2> QED
    BY <1>6, <2>1, <2>2, <2>3, <2>4, <2>5, <2>6, CommandCases
<1> QED
  BY <1>1, <1>2, <1>3, <1>4, <1>5, <1>6, NextCases DEF Commands

\* For writers who save only what they have just read, a function stays of the
\* type it was programmed to, in this session and in every later one.
THEOREM ProgrammingLasts == ASSUME Orderly PROVE Spec => []TypesAsProgrammed
<1>1. Init => TypesAsProgrammed
  BY DEF Init, TypesAsProgrammed
<1>2. TypeOK /\ Kept /\ [Next]_vars => Kept'
  BY NextKept
<1>3. TypeOK /\ Kept /\ TypesAsProgrammed /\ [Next]_vars => TypesAsProgrammed'
  BY NextTypes
<1> QED
  BY <1>1, <1>2, <1>3, InitKept, ThrottleTyped, PTL DEF Spec

=============================================================================
