--------------------------- MODULE ServicesProofs ---------------------------
(***************************************************************************)
(* The types of Services, NetworkAsSaved and WorkingCopyKept, for one      *)
(* script at a time: any number of daemons and ports, any number of edits, *)
(* commands, uploads and power failures.                                   *)
(*                                                                         *)
(* Most states of a script are in the middle of something. What holds      *)
(* there is said of the steps the script has still to do, taken as a set   *)
(* (Left): in which order they come (Order) makes up for the sequence.     *)
(***************************************************************************)
EXTENDS Services, TLAPS

\* Nothing in the script keeps a second one out.
Alone == \A s, t \in Shells : s = t

-----------------------------------------------------------------------------
(* The inductive invariant.                                                *)

NetSteps == {"sed ap_mode", "iface ap", "iface wifi", "hostapd.conf", "enable hostapd",
             "enable dhcp", "disable hostapd", "disable dhcp"}
ApSteps == {"iface ap", "hostapd.conf", "enable hostapd", "enable dhcp"}
WifiSteps == {"iface wifi", "disable hostapd", "disable dhcp"}
UpgradeSteps == {"unzip", "move aside", "copy", "recovered?", "clean"}

\* What a step still has behind it: L are the steps after a.
Order(a, L) ==
  /\ a \notin L
  /\ a \in NetSteps => "reboot" \in L /\ "clean" \notin L
  /\ a = "sed ap_mode" => ApSteps \subseteq L /\ WifiSteps \cap L = {}
  /\ a = "bonjour" => "source" \notin L
  /\ a = "source" => "bonjour" \in L /\ NetSteps \cap L = {}
  /\ a = "stopped?" =>
       ("bonjour" \in L => "source" \in L) /\ (NetSteps \cup {"clean"}) \cap L = {}
  /\ a \in {"started?", "reboot", "halt", "clean"} => L = {}
  /\ a = "unzip" =>
       L = {"term", "wait", "move aside", "copy", "start", "recovered?", "clean"}
  /\ a = "move aside" => L = {"copy", "start", "recovered?", "clean"}
  /\ a = "copy" => L = {"start", "recovered?", "clean"}
  /\ a = "start" /\ "recovered?" \in L => L = {"recovered?", "clean"}
  /\ a = "recovered?" => L = {"clean"}
  /\ a # "start" /\ "recovered?" \in L => "start" \in L

Later(t, i) == {t[j] : j \in (i + 1) .. Len(t)}

\* A piece of a script, with the steps R behind it. Term skips Wait.
Ordered(t, R) ==
  \A i \in 1 .. Len(t) :
    /\ Order(t[i], Later(t, i) \cup R)
    /\ t[i] = "term" => i < Len(t) /\ t[i + 1] = "wait"

Left(s) == ToSet(todo[s])

\* A script goes on in this order, and only with the power on.
Scripts == \A s \in Shells : Ordered(todo[s], {}) /\ (~on => todo[s] = <<>>)

\* A file or service that one step turns to the access point and another back.
Ends(turn, back, P, is) ==
  /\ turn \in P => file.ap_mode
  /\ back \in P => ~file.ap_mode
  /\ turn \notin P /\ back \notin P => is

\* The mode is that of the file, or P still makes it so.
ModeAsSaved(P) ==
  "ap_mode" \notin unapplied /\ "sed ap_mode" \notin P =>
    /\ Ends("iface ap", "iface wifi", P, iface = Mode(file))
    /\ Ends("enable hostapd", "disable hostapd", P, "hostapd" \in enabled <=> file.ap_mode)
    /\ Ends("enable dhcp", "disable dhcp", P,
            "isc-dhcp-server" \in enabled <=> file.ap_mode)

\* So is the password; the held button has given it up in c before its sed.
AccessAsSaved(P, c) ==
  /\ "sed ap_mode" \in P => c.ap_no_password
  /\ Network \cap unapplied = {} /\ file.ap_mode /\ "sed ap_mode" \notin P =>
       IF "hostapd.conf" \in P THEN c.ap_no_password = file.ap_no_password
       ELSE hostapd = Access(file)

\* So is the announced port, with the settings c unless they are sourced again.
PortAsSaved(P, c) ==
  on /\ "tcpport" \notin unapplied =>
    IF "bonjour" \in P /\ "source" \notin P THEN c.tcpport = file.tcpport
    ELSE bonjour = file.tcpport

Net == \A s \in Shells :
  ModeAsSaved(Left(s)) /\ AccessAsSaved(Left(s), cfg[s]) /\ PortAsSaved(Left(s), cfg[s])

\* What one mishap leaves between upgrades. An upgrade goes on with what is
\* unpacked already.
Once == canpi = "good" \/ unpacked = "good" \/ (backup = "good" /\ unpacked = "lost")

\* The program that was installed runs: it will not be put back.
NewRuns ==
  /\ canpi = "good" /\ pid_file \in sudos
  /\ daemons[pid_file].bin = "good" /\ ~daemons[pid_file].termed

\* Where the good program is in each phase of an upgrade, before a mishap and
\* after one.
Between(P) ==
  "clean" \notin P =>
  /\ mishaps = 0 => canpi = "good" /\ unpacked = "lost" /\ zip = "lost"
  /\ mishaps = 1 => Once

Unzipping(P) ==
  "unzip" \in P =>
  /\ mishaps = 0 => canpi = "good" /\ unpacked = "lost" /\ zip \in {"good", "without"}
  /\ mishaps = 1 =>
        \/ zip \in {"good", "without"} /\ Once
        \/ zip = "broken" /\ canpi = "good" /\ unpacked = "lost"

Moving(P) ==
  "move aside" \in P /\ "unzip" \notin P =>
  /\ mishaps = 0 => canpi = "good" /\ unpacked = "good"
  /\ mishaps = 1 => canpi = "good" \/ unpacked = "good"

Copying(P) ==
  "copy" \in P /\ "move aside" \notin P =>
  /\ mishaps = 0 => backup = "good" /\ unpacked = "good"
  /\ mishaps = 1 => backup = "good" \/ unpacked = "good"

Starting(P) ==
  "start" \in P /\ "recovered?" \in P /\ "copy" \notin P =>
  /\ mishaps = 0 => canpi = "good" /\ backup = "good" /\ unpacked = "good"
  /\ mishaps = 1 => backup = "good" \/ (canpi = "good" /\ unpacked = "good")

Recovering(P) ==
  "recovered?" \in P /\ "start" \notin P =>
  /\ mishaps = 0 => canpi = "good" /\ backup = "good" /\ unpacked = "good"
  /\ mishaps = 1 => backup = "good" \/ NewRuns

Cleaning(P) ==
  "clean" \in P /\ "recovered?" \notin P =>
  /\ mishaps = 0 => canpi = "good"
  /\ mishaps = 1 => canpi = "good" \/ backup = "good"

Keep == \A s \in Shells :
  /\ Between(Left(s)) /\ Unzipping(Left(s)) /\ Moving(Left(s)) /\ Copying(Left(s))
  /\ Starting(Left(s)) /\ Recovering(Left(s)) /\ Cleaning(Left(s))

IInv == TypeOK /\ mishaps <= events /\ Scripts /\ Net /\ Keep

-----------------------------------------------------------------------------
(* Sequences of steps.                                                     *)

\* The steps of a script, as a set.
LEMMA SetOfSeq ==
  ASSUME NEW t \in Seq(Steps)
  PROVE  ToSet(t) = {t[i] : i \in 1 .. Len(t)} /\ ToSet(t) \subseteq Steps
BY DEF ToSet

\* The first step of a script and what is behind it.
LEMMA FirstStep ==
  ASSUME NEW t \in Seq(Steps), NEW R, Ordered(t, R), t # <<>>
  PROVE  /\ Head(t) \in Steps /\ Tail(t) \in Seq(Steps) /\ Ordered(Tail(t), R)
         /\ Order(Head(t), ToSet(Tail(t)) \cup R)
         /\ ToSet(t) = {Head(t)} \cup ToSet(Tail(t))
         /\ Head(t) = "term" => Tail(t) # <<>> /\ Head(Tail(t)) = "wait"
<1> DEFINE u == Tail(t)
<1>1. /\ u \in Seq(Steps) /\ Len(t) \in Nat /\ Len(t) > 0 /\ Len(u) = Len(t) - 1
      /\ Head(t) = t[1] /\ Head(t) \in Steps
      /\ \A i \in 1 .. Len(u) : u[i] = t[i + 1]
  OBVIOUS
<1>2. ToSet(u) = {u[i] : i \in 1 .. Len(u)} /\ ToSet(t) = {t[i] : i \in 1 .. Len(t)}
  BY <1>1, SetOfSeq
<1>3. \A i \in 1 .. Len(u) : Later(u, i) = Later(t, i + 1)
  <2> SUFFICES ASSUME NEW i \in 1 .. Len(u) PROVE Later(u, i) = Later(t, i + 1)
    OBVIOUS
  <2> HIDE DEF u
  <2>1. ASSUME NEW j \in (i + 1) .. Len(u) PROVE u[j] = t[j + 1] /\ j + 1 \in (i + 2) .. Len(t)
    BY <1>1, <2>1
  <2>2. ASSUME NEW j \in (i + 2) .. Len(t) PROVE j - 1 \in (i + 1) .. Len(u) /\ u[j - 1] = t[j]
    <3>1. j - 1 \in (i + 1) .. Len(u) /\ j - 1 \in 1 .. Len(u) /\ (j - 1) + 1 = j
      BY <1>1, <2>2
    <3> QED
      BY <1>1, <3>1
  <2>3. Later(t, i + 1) = {t[j] : j \in (i + 2) .. Len(t)}
    <3>1. (i + 1) + 1 = i + 2
      OBVIOUS
    <3> QED
      BY <3>1 DEF Later
  <2>4. \A x \in Later(u, i) : x \in Later(t, i + 1)
    BY <2>1, <2>3 DEF Later
  <2>5. \A x \in Later(t, i + 1) : x \in Later(u, i)
    BY <2>2, <2>3 DEF Later
  <2> QED
    BY <2>4, <2>5
<1>4. ToSet(u) = Later(t, 1)
  <2> HIDE DEF u
  <2>1. \A i \in 1 .. Len(u) : i + 1 \in 2 .. Len(t) /\ u[i] = t[i + 1]
    BY <1>1
  <2>2. \A j \in 2 .. Len(t) : j - 1 \in 1 .. Len(u) /\ u[j - 1] = t[j]
    <3> SUFFICES ASSUME NEW j \in 2 .. Len(t) PROVE j - 1 \in 1 .. Len(u) /\ u[j - 1] = t[j]
      OBVIOUS
    <3>1. j - 1 \in 1 .. Len(u) /\ (j - 1) + 1 = j
      BY <1>1
    <3> QED
      BY <1>1, <3>1
  <2>3. 1 + 1 = 2
    OBVIOUS
  <2> QED
    BY <1>2, <2>1, <2>2, <2>3 DEF Later
<1>5. Ordered(u, R)
  <2> HIDE DEF u
  <2> SUFFICES ASSUME NEW i \in 1 .. Len(u)
               PROVE  /\ Order(u[i], Later(u, i) \cup R)
                      /\ u[i] = "term" => i < Len(u) /\ u[i + 1] = "wait"
    BY DEF Ordered
  <2>1. i + 1 \in 1 .. Len(t) /\ u[i] = t[i + 1]
    BY <1>1
  <2>2. Order(t[i + 1], Later(t, i + 1) \cup R)
        /\ (t[i + 1] = "term" => i + 1 < Len(t) /\ t[(i + 1) + 1] = "wait")
    BY <2>1 DEF Ordered
  <2>3. i + 1 < Len(t) => i < Len(u) /\ u[i + 1] = t[(i + 1) + 1]
    BY <1>1
  <2> QED
    BY <1>3, <2>1, <2>2, <2>3
<1>6. Order(t[1], ToSet(u) \cup R) /\ (t[1] = "term" => 1 < Len(t) /\ t[2] = "wait")
  BY <1>1, <1>4 DEF Ordered
<1>7. ToSet(t) = {t[1]} \cup Later(t, 1)
  BY <1>1, <1>2 DEF Later
<1>8. t[1] = "term" => u # <<>> /\ Head(u) = "wait"
  BY <1>1, <1>6
<1> QED
  BY <1>1, <1>4, <1>5, <1>6, <1>7, <1>8

\* A script put together of two pieces.
LEMMA Appended ==
  ASSUME NEW t \in Seq(Steps), NEW u \in Seq(Steps), NEW R,
         Ordered(t, ToSet(u) \cup R), Ordered(u, R)
  PROVE  /\ t \o u \in Seq(Steps) /\ Ordered(t \o u, R)
         /\ ToSet(t \o u) = ToSet(t) \cup ToSet(u)
<1> DEFINE b == t \o u
<1>1. /\ b \in Seq(Steps) /\ Len(t) \in Nat /\ Len(u) \in Nat /\ Len(b) = Len(t) + Len(u)
      /\ \A i \in 1 .. Len(t) : b[i] = t[i]
      /\ \A i \in (Len(t) + 1) .. Len(b) : b[i] = u[i - Len(t)]
  OBVIOUS
<1> HIDE DEF b
<1>2. \A i \in 1 .. Len(u) :
        (i + Len(t)) \in (Len(t) + 1) .. Len(b) /\ b[i + Len(t)] = u[i]
  <2> SUFFICES ASSUME NEW i \in 1 .. Len(u)
               PROVE  (i + Len(t)) \in (Len(t) + 1) .. Len(b) /\ b[i + Len(t)] = u[i]
    OBVIOUS
  <2>1. (i + Len(t)) \in (Len(t) + 1) .. Len(b) /\ (i + Len(t)) - Len(t) = i
    BY <1>1
  <2> QED
    BY <1>1, <2>1
<1>3. /\ ToSet(t) = {t[i] : i \in 1 .. Len(t)} /\ ToSet(u) = {u[i] : i \in 1 .. Len(u)}
      /\ ToSet(b) = {b[i] : i \in 1 .. Len(b)}
  BY <1>1, SetOfSeq
<1>4. \A i \in 1 .. Len(b) : i \in 1 .. Len(t) \/ i \in (Len(t) + 1) .. Len(b)
  BY <1>1
<1>5. \A i \in (Len(t) + 1) .. Len(b) : i - Len(t) \in 1 .. Len(u) /\ i \in 1 .. Len(b)
  BY <1>1
<1>6. \A i \in 1 .. Len(t) : i \in 1 .. Len(b)
  BY <1>1
<1>7. ToSet(b) = ToSet(t) \cup ToSet(u)
  <2>1. ASSUME NEW x \in ToSet(b) PROVE x \in ToSet(t) \cup ToSet(u)
    BY <1>1, <1>3, <1>4, <1>5
  <2>2. ASSUME NEW x \in ToSet(t) PROVE x \in ToSet(b)
    BY <1>1, <1>3, <1>6
  <2>3. ASSUME NEW x \in ToSet(u) PROVE x \in ToSet(b)
    BY <1>2, <1>3, <1>5
  <2> QED
    BY <2>1, <2>2, <2>3
<1>8. \A i \in 1 .. Len(t) : Later(b, i) = Later(t, i) \cup ToSet(u)
  <2> SUFFICES ASSUME NEW i \in 1 .. Len(t)
               PROVE  Later(b, i) = Later(t, i) \cup ToSet(u)
    OBVIOUS
  <2>1. ASSUME NEW j \in (i + 1) .. Len(b)
        PROVE  b[j] \in Later(t, i) \cup ToSet(u)
    <3>1. CASE j <= Len(t)
      <4>1. j \in (i + 1) .. Len(t) /\ j \in 1 .. Len(t)
        BY <1>1, <2>1, <3>1
      <4> QED
        BY <1>1, <4>1 DEF Later
    <3>2. CASE j > Len(t)
      <4>1. j \in (Len(t) + 1) .. Len(b)
        BY <1>1, <2>1, <3>2
      <4> QED
        BY <1>1, <1>3, <1>5, <4>1
    <3> QED
      BY <1>1, <2>1, <3>1, <3>2
  <2>2. ASSUME NEW j \in (i + 1) .. Len(t) PROVE t[j] \in Later(b, i)
    <3>1. j \in (i + 1) .. Len(b) /\ j \in 1 .. Len(t)
      BY <1>1, <2>2
    <3> QED
      BY <1>1, <3>1 DEF Later
  <2>3. ASSUME NEW j \in 1 .. Len(u) PROVE u[j] \in Later(b, i)
    <3>1. j + Len(t) \in (i + 1) .. Len(b)
      BY <1>1, <2>3
    <3> QED
      BY <1>2, <3>1 DEF Later
  <2>4. \A x \in Later(b, i) : x \in Later(t, i) \cup ToSet(u)
    BY <2>1 DEF Later
  <2>5. \A x \in Later(t, i) : x \in Later(b, i)
    BY <2>2 DEF Later
  <2>6. \A x \in ToSet(u) : x \in Later(b, i)
    BY <1>3, <2>3
  <2> QED
    BY <2>4, <2>5, <2>6
<1>9. \A i \in 1 .. Len(u) : Later(b, i + Len(t)) = Later(u, i)
  <2> SUFFICES ASSUME NEW i \in 1 .. Len(u)
               PROVE  Later(b, i + Len(t)) = Later(u, i)
    OBVIOUS
  <2>1. ASSUME NEW j \in (i + Len(t) + 1) .. Len(b) PROVE b[j] \in Later(u, i)
    <3>1. j \in (Len(t) + 1) .. Len(b) /\ j - Len(t) \in (i + 1) .. Len(u)
      BY <1>1, <2>1
    <3> QED
      BY <1>1, <3>1 DEF Later
  <2>2. ASSUME NEW j \in (i + 1) .. Len(u) PROVE u[j] \in Later(b, i + Len(t))
    <3>1. j \in 1 .. Len(u) /\ j + Len(t) \in (i + Len(t) + 1) .. Len(b)
      BY <1>1, <2>2
    <3> QED
      BY <1>2, <3>1 DEF Later
  <2>3. \A x \in Later(b, i + Len(t)) : x \in Later(u, i)
    BY <2>1 DEF Later
  <2>4. \A x \in Later(u, i) : x \in Later(b, i + Len(t))
    BY <2>2 DEF Later
  <2> QED
    BY <2>3, <2>4
<1>10. ASSUME NEW i \in 1 .. Len(b)
       PROVE  /\ Order(b[i], Later(b, i) \cup R)
              /\ b[i] = "term" => i < Len(b) /\ b[i + 1] = "wait"
  <2>1. CASE i \in 1 .. Len(t)
    <3>1. Order(t[i], Later(t, i) \cup (ToSet(u) \cup R))
          /\ (t[i] = "term" => i < Len(t) /\ t[i + 1] = "wait")
      BY <2>1 DEF Ordered
    <3>2. i < Len(t) => i < Len(b) /\ i + 1 \in 1 .. Len(t)
      BY <1>1, <2>1
    <3>3. Later(t, i) \cup (ToSet(u) \cup R) = Later(b, i) \cup R
      BY <1>8, <2>1
    <3> QED
      BY <1>1, <2>1, <3>1, <3>2, <3>3
  <2>2. CASE i \in (Len(t) + 1) .. Len(b)
    <3>1. PICK j \in 1 .. Len(u) : i = j + Len(t)
      <4>1. i - Len(t) \in 1 .. Len(u) /\ i = (i - Len(t)) + Len(t)
        BY <1>1, <2>2
      <4> QED
        BY <4>1
    <3>2. Order(u[j], Later(u, j) \cup R)
          /\ (u[j] = "term" => j < Len(u) /\ u[j + 1] = "wait")
      BY DEF Ordered
    <3>3. j < Len(u) => i < Len(b) /\ j + 1 \in 1 .. Len(u) /\ i + 1 = (j + 1) + Len(t)
      BY <1>1, <3>1
    <3>4. b[i] = u[j] /\ Later(b, i) = Later(u, j)
      BY <1>2, <1>9, <3>1
    <3>5. j < Len(u) => b[i + 1] = u[j + 1]
      BY <1>2, <3>3
    <3> QED
      BY <3>2, <3>3, <3>4, <3>5
  <2> QED
    BY <1>4, <2>1, <2>2
<1>11. Ordered(b, R)
  BY <1>10 DEF Ordered
<1> QED
  BY <1>1, <1>7, <1>11 DEF b

\* Short pieces.
LEMMA OneStep ==
  ASSUME NEW a \in Steps, NEW R, Order(a, R), a # "term"
  PROVE  <<a>> \in Seq(Steps) /\ Ordered(<<a>>, R) /\ ToSet(<<a>>) = {a}
<1> DEFINE t == <<a>>
<1>1. t \in Seq(Steps) /\ Len(t) = 1 /\ t[1] = a
  OBVIOUS
<1> HIDE DEF t
<1>2. Later(t, 1) = {}
  BY <1>1 DEF Later
<1>3. ToSet(t) = {t[i] : i \in 1 .. Len(t)}
  BY <1>1, SetOfSeq
<1>4. ToSet(t) = {a} /\ Later(t, 1) \cup R = R
  BY <1>1, <1>2, <1>3
<1>5. Ordered(t, R)
  <2> SUFFICES ASSUME NEW i \in 1 .. Len(t)
               PROVE  /\ Order(t[i], Later(t, i) \cup R)
                      /\ t[i] = "term" => i < Len(t) /\ t[i + 1] = "wait"
    BY DEF Ordered
  <2>1. i = 1
    BY <1>1
  <2> QED
    BY <1>1, <1>4, <2>1
<1> QED
  BY <1>1, <1>4, <1>5 DEF t

LEMMA PairOfSteps ==
  ASSUME NEW a \in Steps, NEW b \in Steps, NEW R,
         Order(a, {b} \cup R), Order(b, R), a = "term" => b = "wait", b # "term"
  PROVE  <<a, b>> \in Seq(Steps) /\ Ordered(<<a, b>>, R) /\ ToSet(<<a, b>>) = {a, b}
<1> DEFINE t == <<a, b>>
<1>1. t \in Seq(Steps) /\ Len(t) = 2 /\ t[1] = a /\ t[2] = b
  OBVIOUS
<1> HIDE DEF t
<1>2. Later(t, 1) = {b} /\ Later(t, 2) = {}
  BY <1>1 DEF Later
<1>3. ToSet(t) = {t[i] : i \in 1 .. Len(t)}
  BY <1>1, SetOfSeq
<1>4. ToSet(t) = {a, b} /\ Later(t, 2) \cup R = R /\ Later(t, 1) \cup R = {b} \cup R
  BY <1>1, <1>2, <1>3
<1>5. Ordered(t, R)
  <2> SUFFICES ASSUME NEW i \in 1 .. Len(t)
               PROVE  /\ Order(t[i], Later(t, i) \cup R)
                      /\ t[i] = "term" => i < Len(t) /\ t[i + 1] = "wait"
    BY DEF Ordered
  <2>1. i = 1 \/ i = 2
    BY <1>1
  <2>2. CASE i = 1
    <3>1. 1 + 1 = 2 /\ 1 < Len(t)
      BY <1>1
    <3>2. Order(t[1], Later(t, 1) \cup R)
      BY <1>1, <1>4
    <3> QED
      BY <1>1, <2>2, <3>1, <3>2
  <2>3. CASE i = 2
    BY <1>1, <1>4, <2>3
  <2> QED
    BY <2>1, <2>2, <2>3
<1> QED
  BY <1>1, <1>4, <1>5 DEF t

LEMMA ThreeSteps ==
  ASSUME NEW a \in Steps, NEW b \in Steps, NEW c \in Steps, NEW R,
         "term" \notin {a, b, c},
         Order(a, {b, c} \cup R), Order(b, {c} \cup R), Order(c, R)
  PROVE  /\ <<a, b, c>> \in Seq(Steps) /\ Ordered(<<a, b, c>>, R)
         /\ ToSet(<<a, b, c>>) = {a, b, c}
<1>1. <<a, b, c>> = <<a>> \o <<b, c>>
  OBVIOUS
<1>2. /\ <<b, c>> \in Seq(Steps) /\ Ordered(<<b, c>>, R)
      /\ ToSet(<<b, c>>) = {b, c}
  BY PairOfSteps
<1>3. {b, c} \cup R = ToSet(<<b, c>>) \cup R
  BY <1>2
<1>4. /\ <<a>> \in Seq(Steps) /\ Ordered(<<a>>, ToSet(<<b, c>>) \cup R)
      /\ ToSet(<<a>>) = {a}
  BY <1>3, OneStep
<1>5. /\ <<a>> \o <<b, c>> \in Seq(Steps) /\ Ordered(<<a>> \o <<b, c>>, R)
      /\ ToSet(<<a>> \o <<b, c>>) = ToSet(<<a>>) \cup ToSet(<<b, c>>)
  BY <1>2, <1>4, Appended
<1>6. ToSet(<<a>>) \cup ToSet(<<b, c>>) = {a, b, c}
  BY <1>2, <1>4
<1> QED
  BY <1>1, <1>5, <1>6, Zenon

LEMMA FourSteps ==
  ASSUME NEW a \in Steps, NEW b \in Steps, NEW c \in Steps, NEW d \in Steps, NEW R,
         "term" \notin {a, b, c, d},
         Order(a, {b, c, d} \cup R), Order(b, {c, d} \cup R),
         Order(c, {d} \cup R), Order(d, R)
  PROVE  /\ <<a, b, c, d>> \in Seq(Steps) /\ Ordered(<<a, b, c, d>>, R)
         /\ ToSet(<<a, b, c, d>>) = {a, b, c, d}
<1>1. <<a, b, c, d>> = <<a, b>> \o <<c, d>>
  OBVIOUS
<1>2. /\ <<c, d>> \in Seq(Steps) /\ Ordered(<<c, d>>, R)
      /\ ToSet(<<c, d>>) = {c, d}
  BY PairOfSteps
<1>3. /\ {b} \cup (ToSet(<<c, d>>) \cup R) = {b, c, d} \cup R
      /\ ToSet(<<c, d>>) \cup R = {c, d} \cup R
  BY <1>2
<1>4. /\ <<a, b>> \in Seq(Steps) /\ Ordered(<<a, b>>, ToSet(<<c, d>>) \cup R)
      /\ ToSet(<<a, b>>) = {a, b}
  BY <1>3, PairOfSteps
<1>5. /\ <<a, b>> \o <<c, d>> \in Seq(Steps) /\ Ordered(<<a, b>> \o <<c, d>>, R)
      /\ ToSet(<<a, b>> \o <<c, d>>) = ToSet(<<a, b>>) \cup ToSet(<<c, d>>)
  BY <1>2, <1>4, Appended
<1>6. ToSet(<<a, b>>) \cup ToSet(<<c, d>>) = {a, b, c, d}
  BY <1>2, <1>4
<1> QED
  BY <1>1, <1>5, <1>6, Zenon

-----------------------------------------------------------------------------
(* The scripts.                                                            *)

\* start
LEMMA StartOrdered ==
  /\ Start \in Seq(Steps) /\ Ordered(Start, {})
  /\ ToSet(Start) = {"bonjour", "start web", "start", "started?"}
<1> DEFINE a == "bonjour"
           b == "start web"
           c == "start"
           d == "started?"
<1>1. /\ a \in Steps /\ b \in Steps /\ c \in Steps /\ d \in Steps
      /\ "term" \notin {a, b, c, d}
      /\ Order(a, {b, c, d} \cup {}) /\ Order(b, {c, d} \cup {})
      /\ Order(c, {d} \cup {}) /\ Order(d, {})
  BY DEF Steps, Order, NetSteps
<1> HIDE DEF a, b, c, d
<1>2. /\ <<a, b, c, d>> \in Seq(Steps) /\ Ordered(<<a, b, c, d>>, {})
      /\ ToSet(<<a, b, c, d>>) = {a, b, c, d}
  BY <1>1, FourSteps
<1> QED
  BY <1>2, Zenon DEF a, b, c, d, Start

\* stop_canpi, whatever follows
LEMMA StopCanpiOrdered ==
  ASSUME NEW R, "term" \notin R, "wait" \notin R,
         "recovered?" \in R => "start" \in R
  PROVE  /\ StopCanpi \in Seq(Steps) /\ Ordered(StopCanpi, R)
         /\ ToSet(StopCanpi) = {"term", "wait"}
<1> DEFINE a == "term"
           b == "wait"
<1>1. /\ a \in Steps /\ b \in Steps /\ (a = "term" => b = "wait") /\ b # "term"
      /\ Order(a, {b} \cup R) /\ Order(b, R)
  BY DEF Steps, Order, NetSteps
<1> HIDE DEF a, b
<1>2. /\ <<a, b>> \in Seq(Steps) /\ Ordered(<<a, b>>, R) /\ ToSet(<<a, b>>) = {a, b}
  BY <1>1, PairOfSteps
<1> QED
  BY <1>2, Zenon DEF a, b, StopCanpi

\* setup_ap_mode and setup_wifi_mode, before bonjour and reboot
LEMMA ModeOrdered ==
  ASSUME NEW R, "reboot" \in R, R \subseteq {"bonjour", "reboot"}
  PROVE  /\ SetupApMode \in Seq(Steps) /\ Ordered(SetupApMode, R)
         /\ ToSet(SetupApMode) = ApSteps
         /\ SetupWifiMode \in Seq(Steps) /\ Ordered(SetupWifiMode, R)
         /\ ToSet(SetupWifiMode) = WifiSteps
<1>1. /\ SetupApMode \in Seq(Steps) /\ Ordered(SetupApMode, R)
      /\ ToSet(SetupApMode) = ApSteps
  <2> DEFINE a == "iface ap"
             b == "hostapd.conf"
             c == "enable hostapd"
             d == "enable dhcp"
  <2>1. /\ a \in Steps /\ b \in Steps /\ c \in Steps /\ d \in Steps
        /\ "term" \notin {a, b, c, d}
        /\ Order(a, {b, c, d} \cup R) /\ Order(b, {c, d} \cup R)
        /\ Order(c, {d} \cup R) /\ Order(d, R)
    BY DEF Steps, Order, NetSteps
  <2> HIDE DEF a, b, c, d
  <2>2. /\ <<a, b, c, d>> \in Seq(Steps) /\ Ordered(<<a, b, c, d>>, R)
        /\ ToSet(<<a, b, c, d>>) = {a, b, c, d}
    BY <2>1, FourSteps
  <2> QED
    BY <2>2, Zenon DEF a, b, c, d, SetupApMode, ApSteps
<1>2. /\ SetupWifiMode \in Seq(Steps) /\ Ordered(SetupWifiMode, R)
      /\ ToSet(SetupWifiMode) = WifiSteps
  <2> DEFINE a == "iface wifi"
             b == "disable hostapd"
             c == "disable dhcp"
  <2>1. /\ a \in Steps /\ b \in Steps /\ c \in Steps
        /\ "term" \notin {a, b, c}
        /\ Order(a, {b, c} \cup R) /\ Order(b, {c} \cup R) /\ Order(c, R)
    BY DEF Steps, Order, NetSteps
  <2> HIDE DEF a, b, c
  <2>2. /\ <<a, b, c>> \in Seq(Steps) /\ Ordered(<<a, b, c>>, R)
        /\ ToSet(<<a, b, c>>) = {a, b, c}
    BY <2>1, ThreeSteps
  <2> QED
    BY <2>2, Zenon DEF a, b, c, SetupWifiMode, WifiSteps
<1> QED
  BY <1>1, <1>2

\* configure, and the push button at boot
LEMMA ReconfigureOrdered ==
  /\ Reconfigure \in Seq(Steps) /\ Ordered(Reconfigure, {})
  /\ ToSet(Reconfigure) = {"sed ap_mode", "bonjour", "reboot"} \cup ApSteps
  /\ \A c \in Settings :
       /\ Configure(c) \in Seq(Steps) /\ Ordered(Configure(c), {})
       /\ ToSet(Configure(c)) =
            {"bonjour", "reboot"} \cup (IF c.ap_mode THEN ApSteps ELSE WifiSteps)
<1> DEFINE last == <<"bonjour", "reboot">>
           first == <<"sed ap_mode">>
<1>1. /\ last \in Seq(Steps) /\ Ordered(last, {}) /\ ToSet(last) = {"bonjour", "reboot"}
  <2> DEFINE a == "bonjour"
             b == "reboot"
  <2>1. /\ a \in Steps /\ b \in Steps /\ (a = "term" => b = "wait") /\ b # "term"
        /\ Order(a, {b} \cup {}) /\ Order(b, {})
    BY DEF Steps, Order, NetSteps
  <2> HIDE DEF a, b
  <2>2. /\ <<a, b>> \in Seq(Steps) /\ Ordered(<<a, b>>, {}) /\ ToSet(<<a, b>>) = {a, b}
    BY <2>1, PairOfSteps
  <2> QED
    BY <2>2, Zenon DEF a, b
<1> HIDE DEF last
<1>2. /\ "reboot" \in ToSet(last) \cup {}
      /\ ToSet(last) \cup {} \subseteq {"bonjour", "reboot"}
  BY <1>1
<1>3. /\ SetupApMode \in Seq(Steps) /\ Ordered(SetupApMode, ToSet(last) \cup {})
      /\ ToSet(SetupApMode) = ApSteps
      /\ SetupWifiMode \in Seq(Steps) /\ Ordered(SetupWifiMode, ToSet(last) \cup {})
      /\ ToSet(SetupWifiMode) = WifiSteps
  BY <1>2, ModeOrdered
<1> DEFINE ap == SetupApMode \o last
           wifi == SetupWifiMode \o last
<1>4. /\ ap \in Seq(Steps) /\ Ordered(ap, {}) /\ ToSet(ap) = ToSet(SetupApMode) \cup ToSet(last)
  BY <1>1, <1>3, Appended
<1>5. /\ wifi \in Seq(Steps) /\ Ordered(wifi, {})
      /\ ToSet(wifi) = ToSet(SetupWifiMode) \cup ToSet(last)
  BY <1>1, <1>3, Appended
<1> HIDE DEF ap, wifi
<1> DEFINE R == ToSet(last) \cup {}
<1>6. Order("sed ap_mode", ToSet(SetupApMode) \cup R)
  BY <1>1, <1>3 DEF Order, NetSteps, ApSteps, WifiSteps
<1>7. /\ first \in Seq(Steps) /\ Ordered(first, ToSet(SetupApMode) \cup R)
      /\ ToSet(first) = {"sed ap_mode"}
  <2>1. "sed ap_mode" \in Steps /\ "sed ap_mode" # "term"
    BY DEF Steps
  <2> HIDE DEF R
  <2> QED
    BY <1>6, <2>1, OneStep
<1> HIDE DEF first
<1>8. /\ first \o SetupApMode \in Seq(Steps) /\ Ordered(first \o SetupApMode, R)
      /\ ToSet(first \o SetupApMode) = ToSet(first) \cup ToSet(SetupApMode)
  <2> HIDE DEF R
  <2>1. Ordered(SetupApMode, R)
    BY <1>3 DEF R
  <2> QED
    BY <1>3, <1>7, <2>1, Appended
<1>9. /\ Reconfigure \in Seq(Steps) /\ Ordered(Reconfigure, {})
      /\ ToSet(Reconfigure) = {"sed ap_mode", "bonjour", "reboot"} \cup ApSteps
  <2> DEFINE most == first \o SetupApMode
  <2>1. most \in Seq(Steps) /\ Ordered(most, ToSet(last) \cup {})
    BY <1>8
  <2>2. /\ most \o last \in Seq(Steps) /\ Ordered(most \o last, {})
        /\ ToSet(most \o last) = ToSet(most) \cup ToSet(last)
    <3> HIDE DEF most
    <3> QED
      BY <1>1, <2>1, Appended
  <2>3. ToSet(most) \cup ToSet(last) = {"sed ap_mode", "bonjour", "reboot"} \cup ApSteps
    BY <1>1, <1>3, <1>7, <1>8
  <2>4. Reconfigure = most \o last
    BY DEF Reconfigure, first, last
  <2> QED
    BY <2>2, <2>3, <2>4
<1>10. ASSUME NEW c \in Settings
       PROVE  /\ Configure(c) \in Seq(Steps) /\ Ordered(Configure(c), {})
              /\ ToSet(Configure(c)) =
                   {"bonjour", "reboot"} \cup (IF c.ap_mode THEN ApSteps ELSE WifiSteps)
  <2>1. Configure(c) = IF c.ap_mode THEN ap ELSE wifi
    BY DEF Configure, ap, wifi, last
  <2> QED
    BY <1>1, <1>3, <1>4, <1>5, <2>1
<1> QED
  BY <1>9, <1>10

\* stop, whatever follows
LEMMA StopOrdered ==
  ASSUME NEW R, {"stop web", "term", "wait", "kill all", "recovered?"} \cap R = {}
  PROVE  /\ Stop \in Seq(Steps) /\ Ordered(Stop, R)
         /\ ToSet(Stop) = {"stop web", "term", "wait", "kill all"}
<1> DEFINE first == <<"stop web">>
           last == <<"kill all">>
<1>1. /\ last \in Seq(Steps) /\ Ordered(last, R) /\ ToSet(last) = {"kill all"}
  <2>1. "kill all" \in Steps /\ "kill all" # "term" /\ Order("kill all", R)
    BY DEF Steps, Order, NetSteps
  <2> QED
    BY <2>1, OneStep
<1> HIDE DEF last
<1>2. /\ StopCanpi \in Seq(Steps) /\ Ordered(StopCanpi, ToSet(last) \cup R)
      /\ ToSet(StopCanpi) = {"term", "wait"}
  <2>1. /\ "term" \notin ToSet(last) \cup R /\ "wait" \notin ToSet(last) \cup R
        /\ "recovered?" \notin ToSet(last) \cup R
    BY <1>1
  <2> QED
    BY <2>1, StopCanpiOrdered
<1> DEFINE Q == ToSet(last) \cup R
<1>3. /\ first \in Seq(Steps) /\ Ordered(first, ToSet(StopCanpi) \cup Q)
      /\ ToSet(first) = {"stop web"}
  <2>1. "stop web" \in Steps /\ "stop web" # "term"
        /\ Order("stop web", ToSet(StopCanpi) \cup Q)
    BY <1>1, <1>2 DEF Steps, Order, NetSteps
  <2> HIDE DEF Q
  <2> QED
    BY <2>1, OneStep
<1> HIDE DEF first
<1>4. /\ first \o StopCanpi \in Seq(Steps) /\ Ordered(first \o StopCanpi, Q)
      /\ ToSet(first \o StopCanpi) = ToSet(first) \cup ToSet(StopCanpi)
  <2>1. Ordered(StopCanpi, Q)
    BY <1>2
  <2> HIDE DEF Q
  <2> QED
    BY <1>2, <1>3, <2>1, Appended
<1> DEFINE most == first \o StopCanpi
<1>5. most \in Seq(Steps) /\ Ordered(most, ToSet(last) \cup R)
  BY <1>4
<1>6. /\ most \o last \in Seq(Steps) /\ Ordered(most \o last, R)
      /\ ToSet(most \o last) = ToSet(most) \cup ToSet(last)
  <2> HIDE DEF most
  <2> QED
    BY <1>1, <1>5, Appended
<1>7. ToSet(most) \cup ToSet(last) = {"stop web", "term", "wait", "kill all"}
  BY <1>1, <1>2, <1>3, <1>4
<1>8. Stop = most \o last
  BY DEF Stop, first, last
<1> QED
  BY <1>6, <1>7, <1>8

\* apply_upgrade
LEMMA UpgradeOrdered ==
  /\ ApplyUpgrade \in Seq(Steps) /\ Ordered(ApplyUpgrade, {})
  /\ ToSet(ApplyUpgrade) = {"unzip", "term", "wait", "move aside", "copy", "start",
                            "recovered?", "clean"}
<1> DEFINE last == <<"move aside", "copy", "start", "recovered?", "clean">>
           first == <<"unzip">>
<1>1. /\ last \in Seq(Steps) /\ Ordered(last, {})
      /\ ToSet(last) = {"move aside", "copy", "start", "recovered?", "clean"}
  <2> DEFINE a == "move aside"
             b == "copy"
             c == "start"
             d == "recovered?"
             e == "clean"
             u == <<c, d, e>>
             t == <<a, b>>
  <2>1. /\ a \in Steps /\ b \in Steps /\ c \in Steps /\ d \in Steps /\ e \in Steps
        /\ "term" \notin {a, b, c, d, e}
        /\ Order(a, {b} \cup {c, d, e}) /\ Order(b, {c, d, e})
        /\ Order(c, {d, e} \cup {}) /\ Order(d, {e} \cup {}) /\ Order(e, {})
    BY DEF Steps, Order, NetSteps
  <2>2. last = <<a, b, c, d, e>>
    OBVIOUS
  <2>3. ToSet(t) \cup ToSet(u) = {a, b, c, d, e}
           => ToSet(t) \cup ToSet(u) = {"move aside", "copy", "start", "recovered?", "clean"}
    OBVIOUS
  <2> HIDE DEF a, b, c, d, e, last
  <2>4. <<a, b, c, d, e>> = t \o u
    OBVIOUS
  <2>5. u \in Seq(Steps) /\ Ordered(u, {}) /\ ToSet(u) = {c, d, e}
    BY <2>1, ThreeSteps
  <2>6. t \in Seq(Steps) /\ Ordered(t, {c, d, e}) /\ ToSet(t) = {a, b}
    <3>1. b # "term" /\ (a = "term" => b = "wait")
      BY <2>1
    <3> QED
      BY <2>1, <3>1, PairOfSteps
  <2> HIDE DEF t, u
  <2>7. Ordered(t, ToSet(u) \cup {})
    <3>1. ToSet(u) \cup {} = {c, d, e}
      BY <2>5
    <3> QED
      BY <2>6, <3>1
  <2>8. t \o u \in Seq(Steps) /\ Ordered(t \o u, {}) /\ ToSet(t \o u) = ToSet(t) \cup ToSet(u)
    BY <2>5, <2>6, <2>7, Appended
  <2>9. ToSet(t) \cup ToSet(u) = {a, b, c, d, e}
    BY <2>5, <2>6
  <2> QED
    BY <2>2, <2>3, <2>4, <2>8, <2>9
<1> HIDE DEF last
<1> DEFINE Q == ToSet(last) \cup {}
<1>2. /\ StopCanpi \in Seq(Steps) /\ Ordered(StopCanpi, Q)
      /\ ToSet(StopCanpi) = {"term", "wait"}
  <2>1. "term" \notin Q /\ "wait" \notin Q /\ "start" \in Q
    BY <1>1
  <2> HIDE DEF Q
  <2> QED
    BY <2>1, StopCanpiOrdered
<1>3. /\ first \in Seq(Steps) /\ Ordered(first, ToSet(StopCanpi) \cup Q)
      /\ ToSet(first) = {"unzip"}
  <2>1. "unzip" \in Steps /\ "unzip" # "term"
        /\ Order("unzip", ToSet(StopCanpi) \cup Q)
    BY <1>1, <1>2 DEF Steps, Order, NetSteps
  <2> HIDE DEF Q
  <2> QED
    BY <2>1, OneStep
<1> HIDE DEF first
<1> DEFINE most == first \o StopCanpi
<1>4. /\ most \in Seq(Steps) /\ Ordered(most, Q)
      /\ ToSet(most) = ToSet(first) \cup ToSet(StopCanpi)
  <2> HIDE DEF Q
  <2> QED
    BY <1>2, <1>3, Appended
<1>5. /\ most \o last \in Seq(Steps) /\ Ordered(most \o last, {})
      /\ ToSet(most \o last) = ToSet(most) \cup ToSet(last)
  <2>1. Ordered(most, ToSet(last) \cup {})
    BY <1>4
  <2> HIDE DEF most
  <2> QED
    BY <1>1, <1>4, <2>1, Appended
<1>6. ToSet(most) \cup ToSet(last)
        = {"unzip", "term", "wait", "move aside", "copy", "start", "recovered?", "clean"}
  BY <1>1, <1>2, <1>3, <1>4
<1>7. ApplyUpgrade = most \o last
  BY DEF ApplyUpgrade, first, last
<1> QED
  BY <1>5, <1>6, <1>7

\* What each command does, as far as the network and upgrades are concerned.
LEMMA ScriptOrdered ==
  ASSUME NEW command \in Commands, NEW c \in Settings
  PROVE  /\ Script(command, c) \in Seq(Steps) /\ Ordered(Script(command, c), {})
         /\ UpgradeSteps \cap ToSet(Script(command, c)) = {}
         /\ IF command = "configure"
            THEN ToSet(Script(command, c)) =
                   {"bonjour", "reboot"} \cup (IF c.ap_mode THEN ApSteps ELSE WifiSteps)
            ELSE (NetSteps \cup {"reboot"}) \cap ToSet(Script(command, c)) = {}
         /\ command \in {"start", "startcanpi"} =>
              "bonjour" \in ToSet(Script(command, c)) /\ "source" \notin ToSet(Script(command, c))
         /\ command \notin {"start", "startcanpi", "configure"} =>
              ("bonjour" \in ToSet(Script(command, c)) => "source" \in ToSet(Script(command, c)))
<1>1. CASE command = "start"
  <2>1. Script(command, c) = Start
    BY <1>1 DEF Script
  <2>9. /\ Script(command, c) \in Seq(Steps) /\ Ordered(Script(command, c), {})
        /\ ToSet(Script(command, c)) = {"bonjour", "start web", "start", "started?"}
    BY <2>1, StartOrdered
  <2> QED
    BY <1>1, <2>9 DEF UpgradeSteps, NetSteps
<1>2. CASE command = "stop"
  <2>1. Script(command, c) = Stop
    BY <1>2 DEF Script
  <2>2. {"stop web", "term", "wait", "kill all", "recovered?"} \cap {} = {}
    OBVIOUS
  <2>3. /\ Stop \in Seq(Steps) /\ Ordered(Stop, {})
        /\ ToSet(Stop) = {"stop web", "term", "wait", "kill all"}
    BY <2>2, StopOrdered
  <2>9. /\ Script(command, c) \in Seq(Steps) /\ Ordered(Script(command, c), {})
        /\ ToSet(Script(command, c)) = {"stop web", "term", "wait", "kill all"}
    BY <2>1, <2>3
  <2> QED
    BY <1>2, <2>9 DEF UpgradeSteps, NetSteps
<1>3. CASE command = "startcanpi"
  <2> DEFINE a == "bonjour"
             b == "start"
             d == "started?"
  <2>1. Script(command, c) = <<a, b, d>>
    BY <1>3 DEF Script
  <2>2. /\ a \in Steps /\ b \in Steps /\ d \in Steps
        /\ "term" \notin {a, b, d}
        /\ Order(a, {b, d} \cup {}) /\ Order(b, {d} \cup {}) /\ Order(d, {})
    BY DEF Steps, Order, NetSteps
  <2>3. {a, b, d} = {"bonjour", "start", "started?"}
    OBVIOUS
  <2> HIDE DEF a, b, d
  <2>4. /\ <<a, b, d>> \in Seq(Steps) /\ Ordered(<<a, b, d>>, {})
        /\ ToSet(<<a, b, d>>) = {a, b, d}
    BY <2>2, ThreeSteps
  <2>5. /\ Script(command, c) \in Seq(Steps) /\ Ordered(Script(command, c), {})
        /\ ToSet(Script(command, c)) = {"bonjour", "start", "started?"}
    BY <2>1, <2>3, <2>4
  <2> QED
    BY <1>3, <2>5 DEF UpgradeSteps, NetSteps
<1>4. CASE command = "stopcanpi"
  <2>1. Script(command, c) = StopCanpi
    BY <1>4 DEF Script
  <2>2. /\ StopCanpi \in Seq(Steps) /\ Ordered(StopCanpi, {})
        /\ ToSet(StopCanpi) = {"term", "wait"}
    BY StopCanpiOrdered
  <2>9. /\ Script(command, c) \in Seq(Steps) /\ Ordered(Script(command, c), {})
        /\ ToSet(Script(command, c)) = {"term", "wait"}
    BY <2>1, <2>2
  <2> QED
    BY <1>4, <2>9 DEF UpgradeSteps, NetSteps
<1>5. CASE command = "restartcanpi"
  <2> DEFINE a == "stopped?"
             b == "start"
             d == "started?"
             u == <<a, b, d>>
  <2>1. Script(command, c) = StopCanpi \o u
    BY <1>5 DEF Script
  <2>2. /\ a \in Steps /\ b \in Steps /\ d \in Steps
        /\ "term" \notin {a, b, d}
        /\ Order(a, {b, d} \cup {}) /\ Order(b, {d} \cup {}) /\ Order(d, {})
    BY DEF Steps, Order, NetSteps
  <2>3. {a, b, d} = {"stopped?", "start", "started?"}
    OBVIOUS
  <2> HIDE DEF a, b, d
  <2>4. u \in Seq(Steps) /\ Ordered(u, {}) /\ ToSet(u) = {a, b, d}
    BY <2>2, ThreeSteps
  <2> HIDE DEF u
  <2>5. /\ StopCanpi \in Seq(Steps) /\ Ordered(StopCanpi, ToSet(u) \cup {})
        /\ ToSet(StopCanpi) = {"term", "wait"}
    <3>1. /\ "term" \notin ToSet(u) \cup {} /\ "wait" \notin ToSet(u) \cup {}
          /\ "start" \in ToSet(u) \cup {}
      BY <2>3, <2>4
    <3> QED
      BY <3>1, StopCanpiOrdered
  <2>6. /\ StopCanpi \o u \in Seq(Steps) /\ Ordered(StopCanpi \o u, {})
        /\ ToSet(StopCanpi \o u) = ToSet(StopCanpi) \cup ToSet(u)
    BY <2>4, <2>5, Appended
  <2>7. ToSet(StopCanpi) \cup ToSet(u) = {"term", "wait", "stopped?", "start", "started?"}
    BY <2>3, <2>4, <2>5
  <2>8. /\ Script(command, c) \in Seq(Steps) /\ Ordered(Script(command, c), {})
        /\ ToSet(Script(command, c)) = {"term", "wait", "stopped?", "start", "started?"}
    BY <2>1, <2>6, <2>7
  <2> QED
    BY <1>5, <2>8 DEF UpgradeSteps, NetSteps
<1>6. CASE command = "restart"
  <2> DEFINE middle == <<"stopped?", "source">>
             most == Stop \o middle
             R == ToSet(Start) \cup {}
  <2>1. Script(command, c) = most \o Start
    BY <1>6 DEF Script
  <2>2. middle \in Seq(Steps) /\ Ordered(middle, R) /\ ToSet(middle) = {"stopped?", "source"}
    <3> DEFINE a == "stopped?"
               b == "source"
    <3>1. /\ a \in Steps /\ b \in Steps /\ (a = "term" => b = "wait") /\ b # "term"
          /\ Order(a, {b} \cup R) /\ Order(b, R)
      BY StartOrdered DEF Steps, Order, NetSteps
    <3> HIDE DEF a, b, R
    <3>2. <<a, b>> \in Seq(Steps) /\ Ordered(<<a, b>>, R) /\ ToSet(<<a, b>>) = {a, b}
      BY <3>1, PairOfSteps
    <3> QED
      BY <3>2, Zenon DEF a, b
  <2> HIDE DEF middle
  <2>3. /\ Stop \in Seq(Steps) /\ Ordered(Stop, ToSet(middle) \cup R)
        /\ ToSet(Stop) = {"stop web", "term", "wait", "kill all"}
    <3>1. {"stop web", "term", "wait", "kill all", "recovered?"} \cap (ToSet(middle) \cup R) = {}
      BY <2>2, StartOrdered
    <3> HIDE DEF R
    <3> QED
      BY <3>1, StopOrdered
  <2>4. /\ most \in Seq(Steps) /\ Ordered(most, R)
        /\ ToSet(most) = ToSet(Stop) \cup ToSet(middle)
    <3> HIDE DEF R
    <3> QED
      BY <2>2, <2>3, Appended
  <2>5. /\ most \o Start \in Seq(Steps) /\ Ordered(most \o Start, {})
        /\ ToSet(most \o Start) = ToSet(most) \cup ToSet(Start)
    <3>1. Ordered(most, ToSet(Start) \cup {})
      BY <2>4
    <3> HIDE DEF most
    <3> QED
      BY <2>4, <3>1, StartOrdered, Appended
  <2>6. ToSet(most) \cup ToSet(Start)
          = {"stop web", "term", "wait", "kill all", "stopped?", "source",
             "bonjour", "start web", "start", "started?"}
    BY <2>2, <2>3, <2>4, StartOrdered
  <2>7. /\ Script(command, c) \in Seq(Steps) /\ Ordered(Script(command, c), {})
        /\ ToSet(Script(command, c))
             = {"stop web", "term", "wait", "kill all", "stopped?", "source",
                "bonjour", "start web", "start", "started?"}
    BY <2>1, <2>5, <2>6
  <2> HIDE DEF most, R
  <2> QED
    BY <1>6, <2>7 DEF UpgradeSteps, NetSteps
<1>7. CASE command = "configure"
  <2>1. Script(command, c) = Configure(c)
    BY <1>7 DEF Script
  <2> QED
    BY <1>7, <2>1, ReconfigureOrdered DEF UpgradeSteps, NetSteps, ApSteps, WifiSteps
<1>8. CASE command = "shutdown"
  <2> DEFINE a == "halt"
  <2>1. Script(command, c) = <<a>>
    BY <1>8 DEF Script
  <2>2. a \in Steps /\ a # "term" /\ Order(a, {})
    BY DEF Steps, Order, NetSteps
  <2>3. <<a>> \in Seq(Steps) /\ Ordered(<<a>>, {}) /\ ToSet(<<a>>) = {a}
    BY <2>2, OneStep
  <2>4. /\ Script(command, c) \in Seq(Steps) /\ Ordered(Script(command, c), {})
        /\ ToSet(Script(command, c)) = {"halt"}
    BY <2>1, <2>3
  <2> QED
    BY <1>8, <2>4 DEF UpgradeSteps, NetSteps
<1> QED
  BY <1>1, <1>2, <1>3, <1>4, <1>5, <1>6, <1>7, <1>8 DEF Commands

-----------------------------------------------------------------------------
(* The step of a script.                                                   *)

\* A step that is still to come has its followers behind it.
LEMMA Present ==
  ASSUME NEW t \in Seq(Steps), Ordered(t, {}), NEW x \in ToSet(t)
  PROVE  \E L \in SUBSET ToSet(t) : Order(x, L)
<1>1. ToSet(t) = {t[i] : i \in 1 .. Len(t)}
  BY SetOfSeq
<1>2. PICK i \in 1 .. Len(t) : x = t[i]
  BY <1>1
<1>3. Later(t, i) \cup {} = Later(t, i)
  OBVIOUS
<1>4. Order(x, Later(t, i))
  BY <1>2, <1>3 DEF Ordered
<1>5. \A j \in (i + 1) .. Len(t) : j \in 1 .. Len(t)
  OBVIOUS
<1>6. Later(t, i) \subseteq ToSet(t)
  BY <1>1, <1>5 DEF Later
<1> QED
  BY <1>4, <1>6

\* The step a script comes to.
LEMMA Comes ==
  ASSUME TypeOK, Scripts, NEW s \in Shells, NEW a, At(s, a)
  PROVE  /\ on /\ a \in Steps /\ todo[s] \in Seq(Steps)
         /\ Tail(todo[s]) \in Seq(Steps) /\ Ordered(Tail(todo[s]), {})
         /\ Order(a, ToSet(Tail(todo[s])))
         /\ Left(s) = {a} \cup ToSet(Tail(todo[s]))
         /\ a = "term" => Tail(todo[s]) # <<>> /\ Head(Tail(todo[s])) = "wait"
<1> DEFINE t == todo[s]
<1>1. on /\ t # <<>> /\ Head(t) = a /\ t \in Seq(Steps) /\ Ordered(t, {})
  BY DEF At, TypeOK, Scripts
<1>2. Left(s) = ToSet(t)
  BY DEF Left
<1> HIDE DEF t
<1>3. /\ Head(t) \in Steps /\ Tail(t) \in Seq(Steps) /\ Ordered(Tail(t), {})
      /\ Order(Head(t), ToSet(Tail(t)) \cup {})
      /\ ToSet(t) = {Head(t)} \cup ToSet(Tail(t))
      /\ Head(t) = "term" => Tail(t) # <<>> /\ Head(Tail(t)) = "wait"
  BY <1>1, FirstStep
<1>4. ToSet(Tail(t)) \cup {} = ToSet(Tail(t))
  OBVIOUS
<1>5. on /\ a \in Steps /\ t \in Seq(Steps)
         /\ Tail(t) \in Seq(Steps) /\ Ordered(Tail(t), {})
         /\ Order(a, ToSet(Tail(t)))
         /\ Left(s) = {a} \cup ToSet(Tail(t))
         /\ (a = "term" => Tail(t) # <<>> /\ Head(Tail(t)) = "wait")
  BY <1>1, <1>2, <1>3, <1>4
<1> QED
  BY <1>5 DEF t

\* A script that has ended.
LEMMA Nothing == <<>> \in Seq(Steps) /\ Ordered(<<>>, {}) /\ ToSet(<<>>) = {}
<1> DEFINE t == <<>>
<1>1. t \in Seq(Steps) /\ Len(t) = 0 /\ 1 .. 0 = {}
  OBVIOUS
<1> HIDE DEF t
<1>2. ToSet(t) = {t[i] : i \in 1 .. Len(t)}
  BY <1>1, SetOfSeq
<1>3. ToSet(t) = {} /\ Ordered(t, {})
  BY <1>1, <1>2 DEF Ordered
<1> QED
  BY <1>1, <1>3 DEF t

\* A script that goes on with t.
LEMMA Then ==
  ASSUME Alone, TypeOK, NEW s \in Shells, NEW t \in Seq(Steps), Ordered(t, {}),
         Goes(s, t), on'
  PROVE  /\ todo' \in [Shells -> Seq(Steps)] /\ Scripts'
         /\ todo'[s] = t /\ Left(s)' = ToSet(t)
<1>1. todo' \in [Shells -> Seq(Steps)] /\ todo'[s] = t
  BY DEF Goes, TypeOK
<1>2. Scripts'
  BY <1>1 DEF Scripts, Alone
<1>3. Left(s)' = ToSet(todo'[s])
  BY DEF Left
<1> QED
  BY <1>1, <1>2, <1>3

\* A script that does its next step, or ends.
LEMMA NextOne ==
  ASSUME Alone, TypeOK, Scripts, NEW s \in Shells, NEW a, At(s, a), UNCHANGED on
  PROVE  /\ GoesOn(s) => /\ todo' \in [Shells -> Seq(Steps)] /\ Scripts'
                         /\ Left(s) = {a} \cup Left(s)' /\ Order(a, Left(s)')
         /\ Exits(s) => /\ todo' \in [Shells -> Seq(Steps)] /\ Scripts'
                        /\ Left(s)' = {}
<1>1. on' /\ Tail(todo[s]) \in Seq(Steps) /\ Ordered(Tail(todo[s]), {})
      /\ Order(a, ToSet(Tail(todo[s]))) /\ Left(s) = {a} \cup ToSet(Tail(todo[s]))
  BY Comes
<1>2. ASSUME GoesOn(s)
      PROVE  /\ todo' \in [Shells -> Seq(Steps)] /\ Scripts'
             /\ Left(s) = {a} \cup Left(s)' /\ Order(a, Left(s)')
  <2>1. Goes(s, Tail(todo[s]))
    BY <1>2 DEF GoesOn
  <2>2. /\ todo' \in [Shells -> Seq(Steps)] /\ Scripts' /\ Left(s)' = ToSet(Tail(todo[s]))
    BY <1>1, <2>1, Then
  <2> QED
    BY <1>1, <2>2
<1>3. ASSUME Exits(s)
      PROVE  todo' \in [Shells -> Seq(Steps)] /\ Scripts' /\ Left(s)' = {}
  <2>1. Goes(s, <<>>)
    BY <1>3 DEF Exits
  <2> QED
    BY <1>1, <2>1, Nothing, Then
<1> QED
  BY <1>2, <1>3

\* Every action leaves the scripts in order.
LEMMA ScriptsKept ==
  ASSUME Alone, TypeOK, Scripts, [Next]_vars
  PROVE  todo' \in [Shells -> Seq(Steps)] /\ Scripts'
<1>1. CASE UNCHANGED <<on, todo>>
  BY <1>1 DEF TypeOK, Scripts
<1>2. CASE Off
  <2>1. todo' = Idle /\ ~on'
    BY <1>2 DEF Off
  <2>2. \A s \in Shells : todo'[s] = <<>>
    BY <2>1 DEF Idle
  <2>3. todo' \in [Shells -> Seq(Steps)]
    BY <2>1, Nothing DEF Idle
  <2> QED
    BY <2>1, <2>2, <2>3, Nothing DEF Scripts
<1>3. ASSUME NEW s \in Shells, NEW a, At(s, a), UNCHANGED on, GoesOn(s) \/ Exits(s)
      PROVE  todo' \in [Shells -> Seq(Steps)] /\ Scripts'
  BY <1>3, NextOne
<1>4. ASSUME NEW s \in Shells, NEW t \in Seq(Steps), Ordered(t, {}), Goes(s, t), on'
      PROVE  todo' \in [Shells -> Seq(Steps)] /\ Scripts'
  BY <1>4, Then
<1>5. ASSUME NEW s \in Shells, StartCanpi(s)
      PROVE  todo' \in [Shells -> Seq(Steps)] /\ Scripts'
  <2>1. At(s, "start") /\ UNCHANGED on
    BY <1>5 DEF StartCanpi
  <2>2. CASE IsRunning
    <3> DEFINE t == Tail(todo[s])
               u == Untested(Tail(todo[s]))
    <3>1. Goes(s, u)
      BY <1>5, <2>2 DEF StartCanpi
    <3>2. on' /\ t \in Seq(Steps) /\ Ordered(t, {})
      BY <2>1, Comes
    <3>3. u = t \/ (t # <<>> /\ u = Tail(t))
      BY DEF Untested
    <3> HIDE DEF t, u
    <3>4. u \in Seq(Steps) /\ Ordered(u, {})
      BY <3>2, <3>3, FirstStep
    <3> QED
      BY <1>4, <3>1, <3>2, <3>4
  <2>3. CASE ~IsRunning
    BY <1>3, <1>5, <2>1, <2>3 DEF StartCanpi
  <2> QED
    BY <2>2, <2>3
<1>6. ASSUME NEW s \in Shells, Term(s)
      PROVE  todo' \in [Shells -> Seq(Steps)] /\ Scripts'
  <2>1. At(s, "term") /\ UNCHANGED on
    BY <1>6 DEF Term
  <2>2. CASE IsRunning
    BY <1>3, <1>6, <2>1, <2>2 DEF Term
  <2>3. CASE ~IsRunning
    <3> DEFINE t == Tail(todo[s])
    <3>1. Goes(s, Tail(t))
      BY <1>6, <2>3 DEF Term
    <3>2. on' /\ t \in Seq(Steps) /\ Ordered(t, {}) /\ t # <<>>
      BY <2>1, Comes
    <3> HIDE DEF t
    <3>3. Tail(t) \in Seq(Steps) /\ Ordered(Tail(t), {})
      BY <3>2, FirstStep
    <3> QED
      BY <1>4, <3>1, <3>2, <3>3
  <2> QED
    BY <2>2, <2>3
<1>7. ASSUME NEW s \in Shells, Recovered(s)
      PROVE  todo' \in [Shells -> Seq(Steps)] /\ Scripts'
  <2>1. At(s, "recovered?") /\ UNCHANGED on
    BY <1>7 DEF Recovered
  <2>2. CASE IsRunning
    BY <1>3, <1>7, <2>1, <2>2 DEF Recovered
  <2>3. CASE ~IsRunning
    <3> DEFINE t == Tail(todo[s])
               b == <<"start">>
    <3>1. Goes(s, b \o t)
      BY <1>7, <2>3 DEF Recovered
    <3>2. on' /\ t \in Seq(Steps) /\ Ordered(t, {}) /\ Order("recovered?", ToSet(t))
      BY <2>1, Comes
    <3>3. Order("start", ToSet(t) \cup {}) /\ "start" \in Steps /\ "start" # "term"
      BY <3>2 DEF Order, NetSteps, Steps
    <3> HIDE DEF t
    <3>4. b \in Seq(Steps) /\ Ordered(b, ToSet(t) \cup {})
      BY <3>3, OneStep
    <3> HIDE DEF b
    <3>5. b \o t \in Seq(Steps) /\ Ordered(b \o t, {})
      BY <3>2, <3>4, Appended
    <3> QED
      BY <1>4, <3>1, <3>2, <3>5
  <2> QED
    BY <2>2, <2>3
<1>8. ASSUME NEW s \in Shells, Unzip(s)
      PROVE  todo' \in [Shells -> Seq(Steps)] /\ Scripts'
  <2>1. At(s, "unzip") /\ UNCHANGED on /\ on'
    BY <1>8 DEF Unzip, At
  <2>2. CASE GoesOn(s)
    BY <1>3, <2>1, <2>2
  <2>3. CASE Goes(s, <<"clean">>)
    <3>1. Order("clean", {}) /\ "clean" \in Steps /\ "clean" # "term"
      BY DEF Order, NetSteps, Steps
    <3>2. <<"clean">> \in Seq(Steps) /\ Ordered(<<"clean">>, {})
      BY <3>1, OneStep
    <3> QED
      BY <1>4, <2>1, <2>3, <3>2
  <2> QED
    BY <1>8, <2>2, <2>3 DEF Unzip
<1>9. ASSUME NEW s \in Shells, NEW command \in Commands, Command(s, command)
      PROVE  todo' \in [Shells -> Seq(Steps)] /\ Scripts'
  <2>1. file \in Settings /\ on' /\ Goes(s, Script(command, file))
    BY <1>9 DEF Command, Sources, TypeOK
  <2> QED
    BY <1>4, <2>1, ScriptOrdered
<1>10. ASSUME NEW s \in Shells, NEW program, Upload(s, program)
       PROVE  todo' \in [Shells -> Seq(Steps)] /\ Scripts'
  <2>1. on' /\ Goes(s, ApplyUpgrade)
    BY <1>10 DEF Upload, Sources
  <2> QED
    BY <1>4, <2>1, UpgradeOrdered
<1>11. ASSUME NEW s \in Shells, Boot(s) \/ BootPressed(s)
       PROVE  todo' \in [Shells -> Seq(Steps)] /\ Scripts'
  <2>1. on' /\ (Goes(s, Start) \/ Goes(s, Reconfigure))
    BY <1>11 DEF Boot, BootPressed, Sources
  <2> QED
    BY <1>4, <2>1, StartOrdered, ReconfigureOrdered
<1>12. ASSUME NEW s \in Shells, SourceAgain(s)
       PROVE  todo' \in [Shells -> Seq(Steps)] /\ Scripts'
  <2>1. At(s, "source") /\ UNCHANGED on /\ GoesOn(s)
    BY <1>12 DEF SourceAgain, Sources, GoesOn
  <2> QED
    BY <1>3, <2>1
<1>13. ASSUME NEW s \in Shells, Step(s)
       PROVE  todo' \in [Shells -> Seq(Steps)] /\ Scripts'
  <2>1. CASE Halt(s)
    BY <1>2, <2>1 DEF Halt
  <2>2. CASE Started(s)
    BY <1>3, <2>2 DEF Started
  <2>3. CASE Wait(s)
    BY <1>3, <2>3 DEF Wait
  <2>4. CASE Stopped(s)
    BY <1>3, <2>4 DEF Stopped
  <2>5. CASE KillAll(s)
    BY <1>3, <2>5 DEF KillAll
  <2>6. CASE WebServer(s)
    BY <1>3, <2>6 DEF WebServer
  <2>7. CASE SetupBonjour(s)
    BY <1>3, <2>7 DEF SetupBonjour
  <2>8. CASE SetupIface(s)
    BY <1>3, <2>8 DEF SetupIface
  <2>9. CASE SetupHostapd(s)
    BY <1>3, <2>9 DEF SetupHostapd
  <2>10. CASE UpdateRc(s)
    BY <1>3, <2>10 DEF UpdateRc
  <2>11. CASE SedApMode(s)
    BY <1>3, <2>11 DEF SedApMode
  <2>12. CASE MoveAside(s)
    BY <1>3, <2>12 DEF MoveAside
  <2>13. CASE Copy(s)
    BY <1>3, <2>13 DEF Copy
  <2>14. CASE Clean(s)
    BY <1>3, <2>14 DEF Clean
  <2> QED
    BY <1>5, <1>6, <1>7, <1>8, <1>12, <1>13, <2>1, <2>2, <2>3, <2>4, <2>5, <2>6, <2>7,
       <2>8, <2>9, <2>10, <2>11, <2>12, <2>13, <2>14 DEF Step
<1>14. CASE UNCHANGED vars
  BY <1>1, <1>14 DEF vars
<1>15. ASSUME NEW k, NEW v, Edit(k, v)
       PROVE  UNCHANGED <<on, todo>>
  BY <1>15 DEF Edit
<1>16. ASSUME NEW p, DaemonEnds(p)
       PROVE  UNCHANGED <<on, todo>>
  BY <1>16 DEF DaemonEnds
<1>17. CASE PowerFails
  BY <1>2, <1>17 DEF PowerFails
<1> QED
  BY <1>1, <1>9, <1>10, <1>11, <1>13, <1>14, <1>15, <1>16, <1>17 DEF Next

-----------------------------------------------------------------------------
(* The types.                                                              *)

\* A changed setting is a setting.
LEMMA Switches ==
  ASSUME NEW f \in Settings
  PROVE  /\ \A v \in BOOLEAN : [f EXCEPT !["ap_mode"] = v] \in Settings
         /\ \A v \in BOOLEAN : [f EXCEPT !["ap_no_password"] = v] \in Settings
         /\ \A v \in Ports : [f EXCEPT !["tcpport"] = v] \in Settings
BY Zenon DEF Settings

\* What the processes may be.
Processes ==
  /\ DOMAIN daemons \subseteq Pids /\ sudos \subseteq DOMAIN daemons
  /\ \A p \in DOMAIN daemons : daemons[p] \in [bin : Programs, termed : BOOLEAN]
  /\ pid_file \in Pids \cup {None}
Shown ==
  /\ on \in BOOLEAN /\ web \in BOOLEAN
  /\ iface \in {"ap", "wifi", "lost"} /\ hostapd \in {"open", "password", "lost"}
  /\ enabled \subseteq ApServices /\ bonjour \in Ports
Upgrades ==
  /\ {canpi, backup, unpacked} \subseteq Programs \cup {"lost"}
  /\ zip \in Programs \cup {"lost", "without"}
History ==
  /\ unapplied \subseteq Keys /\ mishaps \in 0..MaxEvents /\ events \in 0..MaxEvents
Settled == file \in Settings /\ cfg \in [Shells -> Settings]

LEMMA TypeParts ==
  TypeOK <=> /\ todo \in [Shells -> Seq(Steps)]
             /\ Processes /\ Shown /\ Upgrades /\ History /\ Settled
BY DEF TypeOK, Processes, Shown, Upgrades, History, Settled

\* Each part, over all actions.
LEMMA SettledKept ==
  ASSUME TypeOK, [Next]_vars PROVE Settled'
<1>0. Settled
  BY TypeParts
<1>1. CASE UNCHANGED <<file, cfg>>
  BY <1>0, <1>1 DEF Settled
<1>2. ASSUME UNCHANGED file, NEW s \in Shells, cfg' = [cfg EXCEPT ![s] = file] PROVE Settled'
  BY <1>0, <1>2 DEF Settled
<1>3. ASSUME NEW s \in Shells, BootPressed(s) PROVE Settled'
  <2>1. [file EXCEPT !["ap_no_password"] = TRUE] \in Settings
    BY <1>0, Switches DEF Settled
  <2>2. UNCHANGED file /\ cfg' = [cfg EXCEPT ![s] = [file EXCEPT !.ap_no_password = TRUE]]
    BY <1>3 DEF BootPressed
  <2> QED
    BY <1>0, <2>1, <2>2 DEF Settled
<1>4. ASSUME NEW s \in Shells, SedApMode(s) PROVE Settled'
  <2>1. [file EXCEPT !["ap_mode"] = TRUE] \in Settings
    BY <1>0, Switches DEF Settled
  <2> QED
    BY <1>0, <1>4, <2>1 DEF Settled, SedApMode
<1>5. ASSUME NEW k \in Network, NEW v \in BOOLEAN, Edit(k, v) PROVE Settled'
  <2>1. file' = [file EXCEPT ![k] = v] /\ UNCHANGED cfg
    BY <1>5 DEF Edit
  <2>2. k = "ap_mode" \/ k = "ap_no_password"
    BY DEF Network
  <2>3. file' \in Settings
    BY <1>0, <2>1, <2>2, Switches DEF Settled
  <2> QED
    BY <1>0, <2>1, <2>3 DEF Settled
<1>6. ASSUME NEW v \in Ports, Edit("tcpport", v) PROVE Settled'
  <2>1. file' = [file EXCEPT !["tcpport"] = v] /\ UNCHANGED cfg
    BY <1>6 DEF Edit
  <2>2. file' \in Settings
    BY <1>0, <2>1, Switches DEF Settled
  <2> QED
    BY <1>0, <2>1, <2>2 DEF Settled
<1>7. ASSUME NEW s \in Shells, Step(s) PROVE Settled'
  <2>1. CASE SourceAgain(s)
    BY <1>2, <2>1 DEF SourceAgain, Sources
  <2>2. CASE Halt(s) \/ StartCanpi(s) \/ Started(s) \/ Term(s) \/ Wait(s) \/ Stopped(s)
               \/ KillAll(s) \/ WebServer(s)
    BY <1>1, <2>2 DEF Halt, StartCanpi, Started, Term, Wait, Stopped, KillAll, WebServer
  <2>3. CASE SetupBonjour(s) \/ SetupIface(s) \/ SetupHostapd(s) \/ UpdateRc(s)
    BY <1>1, <2>3 DEF SetupBonjour, SetupIface, SetupHostapd, UpdateRc
  <2>4. CASE Unzip(s) \/ MoveAside(s) \/ Copy(s) \/ Recovered(s) \/ Clean(s)
    BY <1>1, <2>4 DEF Unzip, MoveAside, Copy, Recovered, Clean
  <2> QED
    BY <1>4, <1>7, <2>1, <2>2, <2>3, <2>4 DEF Step
<1>8. ASSUME NEW s \in Shells, NEW command, Command(s, command) PROVE Settled'
  BY <1>2, <1>8 DEF Command, Sources
<1>9. ASSUME NEW s \in Shells, NEW program, Upload(s, program) PROVE Settled'
  BY <1>2, <1>9 DEF Upload, Sources
<1>10. ASSUME NEW s \in Shells, Boot(s) PROVE Settled'
  BY <1>2, <1>10 DEF Boot, Sources
<1>11. CASE PowerFails \/ (\E p \in Pids : DaemonEnds(p)) \/ UNCHANGED vars
  BY <1>1, <1>11 DEF PowerFails, DaemonEnds, vars
<1> QED
  BY <1>3, <1>5, <1>6, <1>7, <1>8, <1>9, <1>10, <1>11 DEF Next

LEMMA UpgradesKept ==
  ASSUME TypeOK, [Next]_vars PROVE Upgrades'
<1>0. Upgrades
  BY TypeParts
<1>1. CASE UNCHANGED upgrade
  BY <1>0, <1>1 DEF Upgrades, upgrade
<1>2. ASSUME NEW s \in Shells, Unzip(s) PROVE Upgrades'
  BY <1>0, <1>2 DEF Upgrades, Unzip, Programs
<1>3. ASSUME NEW s \in Shells, MoveAside(s) PROVE Upgrades'
  BY <1>0, <1>3 DEF Upgrades, MoveAside, Programs
<1>4. ASSUME NEW s \in Shells, Copy(s) PROVE Upgrades'
  BY <1>0, <1>4 DEF Upgrades, Copy, Programs
<1>5. ASSUME NEW s \in Shells, Recovered(s) PROVE Upgrades'
  BY <1>0, <1>5 DEF Upgrades, Recovered, Programs
<1>6. ASSUME NEW s \in Shells, Clean(s) PROVE Upgrades'
  BY <1>0, <1>6 DEF Upgrades, Clean, Programs
<1>7. ASSUME NEW s \in Shells, NEW program \in Programs \cup {"without"}, Upload(s, program)
      PROVE  Upgrades'
  BY <1>0, <1>7 DEF Upgrades, Upload, Programs
<1>8. CASE PowerFails
  BY <1>0, <1>8 DEF Upgrades, PowerFails, Torn, Programs
<1>9. ASSUME NEW s \in Shells, Step(s) PROVE Upgrades'
  <2>1. CASE Halt(s) \/ StartCanpi(s) \/ Started(s) \/ Term(s) \/ Wait(s) \/ Stopped(s)
               \/ KillAll(s) \/ WebServer(s) \/ SourceAgain(s)
    BY <1>1, <2>1 DEF Halt, StartCanpi, Started, Term, Wait, Stopped, KillAll, WebServer,
                      SourceAgain
  <2>2. CASE SetupBonjour(s) \/ SetupIface(s) \/ SetupHostapd(s) \/ UpdateRc(s)
               \/ SedApMode(s)
    BY <1>1, <2>2 DEF SetupBonjour, SetupIface, SetupHostapd, UpdateRc, SedApMode
  <2> QED
    BY <1>2, <1>3, <1>4, <1>5, <1>6, <1>9, <2>1, <2>2 DEF Step
<1>10. ASSUME NEW s \in Shells, Boot(s) \/ BootPressed(s) PROVE UNCHANGED upgrade
  BY <1>10 DEF Boot, BootPressed
<1>11. ASSUME NEW s \in Shells, NEW command, Command(s, command) PROVE UNCHANGED upgrade
  BY <1>11 DEF Command
<1>12. ASSUME NEW k, NEW v, Edit(k, v) PROVE UNCHANGED upgrade
  BY <1>12 DEF Edit
<1>13. ASSUME NEW p, DaemonEnds(p) PROVE UNCHANGED upgrade
  BY <1>13 DEF DaemonEnds
<1>14. CASE UNCHANGED vars
  BY <1>1, <1>14 DEF vars
<1> QED
  BY <1>1, <1>7, <1>8, <1>9, <1>10, <1>11, <1>12, <1>13, <1>14 DEF Next

LEMMA ProcessesKept ==
  ASSUME TypeOK, [Next]_vars PROVE Processes'
<1>0. Processes
  BY TypeParts
<1>1. CASE UNCHANGED procs
  BY <1>0, <1>1 DEF Processes, procs
<1>2. CASE Off
  <2>1. DOMAIN daemons' = {}
    BY <1>2 DEF Off
  <2> QED
    BY <1>2, <2>1 DEF Processes, Off
<1>3. ASSUME NEW s \in Shells, StartCanpi(s) PROVE Processes'
  <2>1. CASE UNCHANGED procs
    BY <1>1, <2>1
  <2>2. ASSUME NEW p \in Pids \ DOMAIN daemons,
               daemons' = [q \in DOMAIN daemons \cup {p} |->
                 IF q # p THEN daemons[q]
                 ELSE [bin |-> IF canpi = "good" THEN "good" ELSE "broken",
                       termed |-> FALSE]],
               sudos' = sudos \cup {p} /\ pid_file' = p
        PROVE Processes'
    <3>1. [bin |-> IF canpi = "good" THEN "good" ELSE "broken", termed |-> FALSE]
            \in [bin : Programs, termed : BOOLEAN]
      BY DEF Programs
    <3>2. /\ DOMAIN daemons' \subseteq Pids
          /\ \A q \in DOMAIN daemons' : daemons'[q] \in [bin : Programs, termed : BOOLEAN]
      BY <1>0, <2>2, <3>1 DEF Processes
    <3>3. sudos' \subseteq DOMAIN daemons' /\ pid_file' \in Pids \cup {None}
      BY <1>0, <2>2 DEF Processes
    <3> QED
      BY <3>2, <3>3 DEF Processes
  <2> QED
    BY <1>3, <2>1, <2>2 DEF StartCanpi
<1>4. ASSUME NEW s \in Shells, Term(s) PROVE Processes'
  <2>1. CASE ~IsRunning
    BY <1>0, <1>4, <2>1 DEF Processes, Term
  <2>2. CASE IsRunning
    <3>1. daemons' = [daemons EXCEPT ![pid_file].termed = TRUE]
          /\ UNCHANGED <<sudos, pid_file>>
      BY <1>4, <2>2 DEF Term
    <3>2. DOMAIN daemons' = DOMAIN daemons
      BY <3>1
    <3>3. ASSUME NEW p \in DOMAIN daemons
          PROVE  daemons'[p] \in [bin : Programs, termed : BOOLEAN]
      <4>1. daemons[p] \in [bin : Programs, termed : BOOLEAN]
        BY <1>0 DEF Processes
      <4>2. CASE p = pid_file
        <5>1. daemons'[p] = [daemons[p] EXCEPT !.termed = TRUE]
          BY <3>1, <4>2
        <5> HIDE DEF Programs
        <5> QED
          BY <4>1, <5>1
      <4>3. CASE p # pid_file
        BY <3>1, <4>1, <4>3
      <4> QED
        BY <4>2, <4>3
    <3> QED
      BY <1>0, <3>1, <3>2, <3>3 DEF Processes
  <2> QED
    BY <2>1, <2>2
<1>5. ASSUME NEW s \in Shells, Wait(s) PROVE Processes'
  BY <1>0, <1>5 DEF Processes, Wait
<1>6. ASSUME NEW s \in Shells, KillAll(s) PROVE Processes'
  BY <1>0, <1>6 DEF Processes, KillAll
<1>7. ASSUME NEW p, DaemonEnds(p) PROVE Processes'
  BY <1>0, <1>7 DEF Processes, DaemonEnds
<1>8. ASSUME NEW s \in Shells, Step(s) PROVE Processes'
  <2>1. CASE Halt(s)
    BY <1>2, <2>1 DEF Halt
  <2>2. CASE Started(s) \/ Stopped(s) \/ WebServer(s) \/ SourceAgain(s)
    BY <1>1, <2>2 DEF Started, Stopped, WebServer, SourceAgain
  <2>3. CASE SetupBonjour(s) \/ SetupIface(s) \/ SetupHostapd(s) \/ UpdateRc(s)
               \/ SedApMode(s)
    BY <1>1, <2>3 DEF SetupBonjour, SetupIface, SetupHostapd, UpdateRc, SedApMode
  <2>4. CASE Unzip(s) \/ MoveAside(s) \/ Copy(s) \/ Recovered(s) \/ Clean(s)
    BY <1>1, <2>4 DEF Unzip, MoveAside, Copy, Recovered, Clean
  <2> QED
    BY <1>3, <1>4, <1>5, <1>6, <1>8, <2>1, <2>2, <2>3, <2>4 DEF Step
<1>9. ASSUME NEW s \in Shells, Boot(s) \/ BootPressed(s) PROVE UNCHANGED procs
  BY <1>9 DEF Boot, BootPressed
<1>10. ASSUME NEW s \in Shells, NEW command, Command(s, command) PROVE UNCHANGED procs
  BY <1>10 DEF Command
<1>11. ASSUME NEW s \in Shells, NEW program, Upload(s, program) PROVE UNCHANGED procs
  BY <1>11 DEF Upload
<1>12. ASSUME NEW k, NEW v, Edit(k, v) PROVE UNCHANGED procs
  BY <1>12 DEF Edit
<1>13. CASE PowerFails
  BY <1>2, <1>13 DEF PowerFails
<1>14. CASE UNCHANGED vars
  BY <1>1, <1>14 DEF vars
<1> QED
  BY <1>1, <1>7, <1>8, <1>9, <1>10, <1>11, <1>12, <1>13, <1>14 DEF Next

LEMMA ShownKept ==
  ASSUME TypeOK, [Next]_vars PROVE Shown'
<1>0. Shown /\ Settled
  BY TypeParts
<1>0a. \A s \in Shells : cfg[s].tcpport \in Ports
  BY <1>0 DEF Settled, Settings
<1>1. CASE UNCHANGED <<on, web, net, bonjour>>
  BY <1>0, <1>1 DEF Shown, net
<1>2. CASE Off /\ UNCHANGED <<net, bonjour>>
  BY <1>0, <1>2 DEF Shown, Off, net
<1>3. ASSUME NEW s \in Shells, WebServer(s) PROVE Shown'
  BY <1>0, <1>3 DEF Shown, WebServer, net
<1>4. ASSUME NEW s \in Shells, SetupBonjour(s) PROVE Shown'
  BY <1>0, <1>0a, <1>4 DEF Shown, SetupBonjour, net
<1>5. ASSUME NEW s \in Shells, SetupIface(s) PROVE Shown'
  BY <1>0, <1>5 DEF Shown, SetupIface
<1>6. ASSUME NEW s \in Shells, SetupHostapd(s) PROVE Shown'
  BY <1>0, <1>6 DEF Shown, SetupHostapd, Access
<1>7. ASSUME NEW s \in Shells, UpdateRc(s) PROVE Shown'
  BY <1>0, <1>7 DEF Shown, UpdateRc, ApServices
<1>8. ASSUME NEW s \in Shells, Boot(s) \/ BootPressed(s) PROVE Shown'
  BY <1>0, <1>8 DEF Shown, Boot, BootPressed, net
<1>9. CASE PowerFails
  BY <1>0, <1>9 DEF Shown, PowerFails, Torn, Off
<1>10. ASSUME NEW s \in Shells, Step(s) PROVE Shown'
  <2>1. CASE Halt(s)
    BY <1>2, <2>1 DEF Halt
  <2>2. CASE StartCanpi(s) \/ Started(s) \/ Term(s) \/ Wait(s) \/ Stopped(s) \/ KillAll(s)
               \/ SourceAgain(s) \/ SedApMode(s)
    BY <1>1, <2>2 DEF StartCanpi, Started, Term, Wait, Stopped, KillAll, SourceAgain, SedApMode
  <2>3. CASE Unzip(s) \/ MoveAside(s) \/ Copy(s) \/ Recovered(s) \/ Clean(s)
    BY <1>1, <2>3 DEF Unzip, MoveAside, Copy, Recovered, Clean
  <2> QED
    BY <1>3, <1>4, <1>5, <1>6, <1>7, <1>10, <2>1, <2>2, <2>3 DEF Step
<1>11. ASSUME NEW s \in Shells, NEW command, Command(s, command)
       PROVE  UNCHANGED <<on, web, net, bonjour>>
  BY <1>11 DEF Command
<1>12. ASSUME NEW s \in Shells, NEW program, Upload(s, program)
       PROVE  UNCHANGED <<on, web, net, bonjour>>
  BY <1>12 DEF Upload
<1>13. ASSUME NEW k, NEW v, Edit(k, v) PROVE UNCHANGED <<on, web, net, bonjour>>
  BY <1>13 DEF Edit
<1>14. ASSUME NEW p, DaemonEnds(p) PROVE UNCHANGED <<on, web, net, bonjour>>
  BY <1>14 DEF DaemonEnds
<1>15. CASE UNCHANGED vars
  BY <1>1, <1>15 DEF vars
<1> QED
  BY <1>1, <1>8, <1>9, <1>10, <1>11, <1>12, <1>13, <1>14, <1>15 DEF Next

LEMMA HistoryKept ==
  ASSUME TypeOK, mishaps <= events, [Next]_vars
  PROVE  History' /\ mishaps' <= events'
<1>0. History /\ MaxEvents \in Nat /\ mishaps <= events
  BY TypeParts, ServicesAssumption
<1>1. CASE UNCHANGED <<unapplied, mishaps, events>>
  BY <1>0, <1>1 DEF History
<1>2. ASSUME UNCHANGED <<mishaps, events>>, unapplied' \subseteq Keys
      PROVE  History' /\ mishaps' <= events'
  BY <1>0, <1>2 DEF History
<1>3. ASSUME Event, mishaps' = mishaps \/ mishaps' = mishaps + 1, unapplied' \subseteq Keys
      PROVE  History' /\ mishaps' <= events'
  BY <1>0, <1>3 DEF History, Event
<1>4. ASSUME NEW s \in Shells, NEW command \in Commands, Command(s, command)
      PROVE  History' /\ mishaps' <= events'
  BY <1>0, <1>3, <1>4 DEF History, Command, Sources
<1>5. ASSUME NEW s \in Shells, NEW program \in Programs \cup {"without"}, Upload(s, program)
      PROVE  History' /\ mishaps' <= events'
  <2>1. mishaps' = mishaps \/ mishaps' = mishaps + 1
    BY <1>0, <1>5 DEF Upload, History
  <2>2. Event /\ unapplied' \subseteq Keys
    BY <1>0, <1>5 DEF Upload, History, Sources
  <2> QED
    BY <1>3, <2>1, <2>2
<1>6. ASSUME NEW k \in Keys, NEW v, Edit(k, v) PROVE History' /\ mishaps' <= events'
  BY <1>0, <1>3, <1>6 DEF History, Edit
<1>7. ASSUME NEW s \in Shells, Boot(s) PROVE History' /\ mishaps' <= events'
  BY <1>0, <1>2, <1>7 DEF History, Boot, Sources
<1>8. ASSUME NEW s \in Shells, BootPressed(s) PROVE History' /\ mishaps' <= events'
  BY <1>0, <1>3, <1>8 DEF History, BootPressed
<1>9. CASE PowerFails
  <2>1. mishaps' = mishaps \/ mishaps' = mishaps + 1
    <3>1. mishaps' = mishaps + (IF UnderWay("clean") THEN 1 ELSE 0)
      BY <1>9 DEF PowerFails
    <3>2. mishaps \in Nat /\ mishaps + 0 = mishaps
      BY <1>0 DEF History
    <3> QED
      BY <3>1, <3>2
  <2>2. Event /\ unapplied' \subseteq Keys
    BY <1>0, <1>9 DEF PowerFails, History, Network, Keys
  <2> QED
    BY <1>3, <2>1, <2>2
<1>10. ASSUME NEW s \in Shells, Step(s) PROVE History' /\ mishaps' <= events'
  <2>1. CASE SourceAgain(s)
    BY <1>0, <1>2, <2>1 DEF SourceAgain, Sources, History
  <2>2. CASE SedApMode(s)
    BY <1>0, <1>2, <2>2 DEF SedApMode, History, Keys
  <2>3. CASE Halt(s) \/ StartCanpi(s) \/ Started(s) \/ Term(s) \/ Wait(s) \/ Stopped(s)
               \/ KillAll(s) \/ WebServer(s)
    BY <1>1, <2>3 DEF Halt, StartCanpi, Started, Term, Wait, Stopped, KillAll, WebServer
  <2>4. CASE SetupBonjour(s) \/ SetupIface(s) \/ SetupHostapd(s) \/ UpdateRc(s)
    BY <1>1, <2>4 DEF SetupBonjour, SetupIface, SetupHostapd, UpdateRc
  <2>5. CASE Unzip(s) \/ MoveAside(s) \/ Copy(s) \/ Recovered(s) \/ Clean(s)
    BY <1>1, <2>5 DEF Unzip, MoveAside, Copy, Recovered, Clean
  <2> QED
    BY <1>10, <2>1, <2>2, <2>3, <2>4, <2>5 DEF Step
<1>11. ASSUME NEW p, DaemonEnds(p) PROVE UNCHANGED <<unapplied, mishaps, events>>
  BY <1>11 DEF DaemonEnds
<1>12. CASE UNCHANGED vars
  BY <1>1, <1>12 DEF vars
<1>13. Network \subseteq Keys /\ "tcpport" \in Keys
  BY DEF Network, Keys
<1> QED
  BY <1>1, <1>4, <1>5, <1>6, <1>7, <1>8, <1>9, <1>10, <1>11, <1>12, <1>13 DEF Next

LEMMA TypesKept ==
  ASSUME Alone, TypeOK, mishaps <= events, Scripts, [Next]_vars
  PROVE  TypeOK' /\ mishaps' <= events' /\ Scripts'
<1>1. todo' \in [Shells -> Seq(Steps)] /\ Scripts'
  BY ScriptsKept
<1>2. Processes' /\ Shown' /\ Upgrades' /\ History' /\ mishaps' <= events' /\ Settled'
  BY ProcessesKept, ShownKept, UpgradesKept, HistoryKept, SettledKept
<1>3. TypeOK'
  BY <1>1, <1>2 DEF TypeOK, Processes, Shown, Upgrades, History, Settled
<1> QED
  BY <1>1, <1>2, <1>3

-----------------------------------------------------------------------------
(* The network.                                                            *)

\* Steps of the network are followed by a reboot, those of an upgrade by clean.
LEMMA Together ==
  ASSUME TypeOK, Scripts, NEW s \in Shells
  PROVE  /\ NetSteps \cap Left(s) # {} => "reboot" \in Left(s)
         /\ UpgradeSteps \cap Left(s) # {} => "clean" \in Left(s)
<1>1. todo[s] \in Seq(Steps) /\ Ordered(todo[s], {})
  BY DEF TypeOK, Scripts
<1>2. ASSUME NEW x \in Left(s)
      PROVE  \E L \in SUBSET Left(s) : Order(x, L)
  BY <1>1, <1>2, Present DEF Left
<1>3. ASSUME NEW x \in NetSteps \cap Left(s) PROVE "reboot" \in Left(s)
  BY <1>2 DEF Order
<1>4. ASSUME NEW x \in UpgradeSteps \cap Left(s) PROVE "clean" \in Left(s)
  <2>1. PICK L \in SUBSET Left(s) : Order(x, L)
    BY <1>2
  <2> QED
    BY <2>1 DEF Order, UpgradeSteps
<1> QED
  BY <1>3, <1>4

NetAt(s) ==
  /\ ModeAsSaved(Left(s)) /\ AccessAsSaved(Left(s), cfg[s]) /\ PortAsSaved(Left(s), cfg[s])

\* One script is all there are.
LEMMA NetOfOne ==
  ASSUME Alone, NEW s \in Shells, NetAt(s)' PROVE Net'
BY DEF Alone, Net, NetAt

\* What has no say in the network leaves it as it is.
LEMMA NetLeftAlone ==
  ASSUME Alone, Net, NEW s \in Shells, UNCHANGED <<on, file, cfg, net, bonjour, unapplied>>,
         \A x \in NetSteps \cup {"bonjour", "source"} : x \in Left(s)' <=> x \in Left(s)
  PROVE  Net'
<1>1. NetAt(s)
  BY DEF Net, NetAt
<1>2. ModeAsSaved(Left(s))'
  BY <1>1 DEF NetAt, ModeAsSaved, Ends, Mode, NetSteps, net
<1>3. AccessAsSaved(Left(s), cfg[s])'
  BY <1>1 DEF NetAt, AccessAsSaved, Access, NetSteps, net
<1>4. PortAsSaved(Left(s), cfg[s])'
  BY <1>1 DEF NetAt, PortAsSaved
<1> QED
  BY <1>2, <1>3, <1>4, NetOfOne DEF NetAt

\* A step of something else ...
LEMMA NetStepOther ==
  ASSUME Alone, TypeOK, Scripts, Net, NEW s \in Shells, NEW a, At(s, a),
         a \notin NetSteps \cup {"bonjour", "source"}, GoesOn(s),
         UNCHANGED <<on, file, cfg, net, bonjour, unapplied>>
  PROVE  Net'
<1>1. Left(s) = {a} \cup Left(s)'
  BY NextOne
<1> QED
  BY <1>1, NetLeftAlone

\* ... and a script that ends early had nothing left to do for it.
LEMMA NetStepExits ==
  ASSUME Alone, TypeOK, Scripts, Net, NEW s \in Shells, NEW a, At(s, a),
         a \in {"started?", "stopped?"}, Exits(s),
         UNCHANGED <<on, file, cfg, net, bonjour, unapplied>>
  PROVE  Net'
<1>1. Left(s)' = {}
  BY NextOne
<1>2. PICK L : Left(s) = {a} \cup L /\ Order(a, L)
  BY Comes
<1>3. NetAt(s)
  BY DEF Net, NetAt
<1>4. NetSteps \cap Left(s) = {} /\ ("bonjour" \in Left(s) => "source" \in Left(s))
  BY <1>2 DEF Order, NetSteps
<1>5. ModeAsSaved(Left(s))'
  BY <1>1, <1>3, <1>4 DEF NetAt, ModeAsSaved, Ends, Mode, NetSteps, net
<1>6. AccessAsSaved(Left(s), cfg[s])'
  BY <1>1, <1>3, <1>4 DEF NetAt, AccessAsSaved, Access, NetSteps, net
<1>7. PortAsSaved(Left(s), cfg[s])'
  BY <1>1, <1>3, <1>4 DEF NetAt, PortAsSaved
<1> QED
  BY <1>5, <1>6, <1>7, NetOfOne DEF NetAt

\* The steps that change the network, the file or the settings of the script.
LEMMA NetBySteps ==
  ASSUME Alone, TypeOK, Scripts, Net, NEW s \in Shells,
         SetupBonjour(s) \/ SetupIface(s) \/ SetupHostapd(s) \/ UpdateRc(s)
           \/ SedApMode(s) \/ SourceAgain(s)
  PROVE  Net'
<1>0. NetAt(s) /\ file \in Settings /\ cfg[s] \in Settings /\ enabled \subseteq ApServices
  BY DEF Net, NetAt, TypeOK
<1>1. CASE SetupBonjour(s)
  <2>1. Left(s) = {"bonjour"} \cup Left(s)' /\ Order("bonjour", Left(s)')
    BY <1>1, NextOne DEF SetupBonjour
  <2>2. ModeAsSaved(Left(s))'
    BY <1>0, <1>1, <2>1 DEF NetAt, ModeAsSaved, Ends, Mode, net, SetupBonjour
  <2>3. AccessAsSaved(Left(s), cfg[s])'
    BY <1>0, <1>1, <2>1 DEF NetAt, AccessAsSaved, Access, net, SetupBonjour
  <2>4. PortAsSaved(Left(s), cfg[s])'
    <3>1. /\ bonjour' = cfg[s].tcpport /\ UNCHANGED <<on, file, cfg, unapplied>>
          /\ "bonjour" \notin Left(s)' /\ "bonjour" \in Left(s)
      BY <1>1, <2>1 DEF SetupBonjour, Order
    <3>2. "source" \notin Left(s)
      BY <2>1 DEF Order
    <3> QED
      BY <1>0, <3>1, <3>2 DEF NetAt, PortAsSaved
  <2> QED
    BY <2>2, <2>3, <2>4, NetOfOne DEF NetAt
<1>2. CASE SetupIface(s)
  <2>1. PICK a \in {"iface ap", "iface wifi"} :
          /\ At(s, a) /\ iface' = IF a = "iface ap" THEN "ap" ELSE "wifi"
          /\ GoesOn(s) /\ UNCHANGED <<on, file, cfg, hostapd, enabled, bonjour, unapplied>>
    BY <1>2 DEF SetupIface
  <2>2. Left(s) = {a} \cup Left(s)' /\ Order(a, Left(s)')
    BY <2>1, NextOne
  <2>3. ModeAsSaved(Left(s))'
    BY <1>0, <2>1, <2>2 DEF NetAt, ModeAsSaved, Ends, Mode, Order
  <2>4. AccessAsSaved(Left(s), cfg[s])'
    BY <1>0, <2>1, <2>2 DEF NetAt, AccessAsSaved, Access
  <2>5. PortAsSaved(Left(s), cfg[s])'
    BY <1>0, <2>1, <2>2 DEF NetAt, PortAsSaved
  <2> QED
    BY <2>3, <2>4, <2>5, NetOfOne DEF NetAt
<1>3. CASE SetupHostapd(s)
  <2>1. Left(s) = {"hostapd.conf"} \cup Left(s)' /\ Order("hostapd.conf", Left(s)')
    BY <1>3, NextOne DEF SetupHostapd
  <2>2. ModeAsSaved(Left(s))'
    BY <1>0, <1>3, <2>1 DEF NetAt, ModeAsSaved, Ends, Mode, SetupHostapd
  <2>3. AccessAsSaved(Left(s), cfg[s])'
    BY <1>0, <1>3, <2>1 DEF NetAt, AccessAsSaved, Access, SetupHostapd, Order
  <2>4. PortAsSaved(Left(s), cfg[s])'
    BY <1>0, <1>3, <2>1 DEF NetAt, PortAsSaved, SetupHostapd
  <2> QED
    BY <2>2, <2>3, <2>4, NetOfOne DEF NetAt
<1>4. CASE UpdateRc(s)
  <2>1. PICK a \in {"enable hostapd", "enable dhcp", "disable hostapd", "disable dhcp"} :
          /\ At(s, a)
          /\ enabled' = CASE a = "enable hostapd" -> enabled \cup {"hostapd"}
                          [] a = "enable dhcp" -> enabled \cup {"isc-dhcp-server"}
                          [] a = "disable hostapd" -> enabled \ {"hostapd"}
                          [] OTHER -> enabled \ {"isc-dhcp-server"}
          /\ GoesOn(s) /\ UNCHANGED <<on, file, cfg, iface, hostapd, bonjour, unapplied>>
    BY <1>4 DEF UpdateRc
  <2>2. Left(s) = {a} \cup Left(s)' /\ Order(a, Left(s)')
    BY <2>1, NextOne
  <2>3. ModeAsSaved(Left(s))'
    BY <1>0, <2>1, <2>2 DEF NetAt, ModeAsSaved, Ends, Mode, Order
  <2>4. AccessAsSaved(Left(s), cfg[s])'
    BY <1>0, <2>1, <2>2 DEF NetAt, AccessAsSaved, Access
  <2>5. PortAsSaved(Left(s), cfg[s])'
    BY <1>0, <2>1, <2>2 DEF NetAt, PortAsSaved
  <2> QED
    BY <2>3, <2>4, <2>5, NetOfOne DEF NetAt
<1>5. CASE SedApMode(s)
  <2>1. Left(s) = {"sed ap_mode"} \cup Left(s)' /\ Order("sed ap_mode", Left(s)')
    BY <1>5, NextOne DEF SedApMode
  <2>2. /\ ApSteps \subseteq Left(s)' /\ WifiSteps \cap Left(s)' = {}
        /\ "sed ap_mode" \notin Left(s)'
    BY <2>1 DEF Order
  <2>3. /\ file'.ap_mode /\ file'.ap_no_password = file.ap_no_password
        /\ file'.tcpport = file.tcpport
    BY <1>0, <1>5 DEF SedApMode, Settings
  <2>4. ModeAsSaved(Left(s))'
    BY <2>2, <2>3 DEF ModeAsSaved, Ends, ApSteps, WifiSteps
  <2>5. AccessAsSaved(Left(s), cfg[s])'
    <3>1. cfg[s].ap_no_password /\ cfg' = cfg
      BY <1>0, <1>5, <2>1 DEF NetAt, AccessAsSaved, SedApMode
    <3>2. "ap_no_password" \notin unapplied' => file.ap_no_password
      BY <1>5 DEF SedApMode
    <3>3. Network \cap unapplied' = {} => file.ap_no_password
      BY <3>2 DEF Network
    <3>4. "hostapd.conf" \in Left(s)'
      BY <2>2 DEF ApSteps
    <3>5. cfg[s].ap_no_password \in BOOLEAN /\ file.ap_no_password \in BOOLEAN
      BY <1>0 DEF Settings
    <3> QED
      BY <2>2, <2>3, <3>1, <3>3, <3>4, <3>5 DEF AccessAsSaved
  <2>6. PortAsSaved(Left(s), cfg[s])'
    <3>1. "tcpport" \notin unapplied' => "tcpport" \notin unapplied
      BY <1>5 DEF SedApMode, Network
    <3>2. UNCHANGED <<on, cfg, bonjour>>
      BY <1>5 DEF SedApMode
    <3> QED
      BY <1>0, <2>1, <2>3, <3>1, <3>2 DEF NetAt, PortAsSaved
  <2> QED
    BY <2>4, <2>5, <2>6, NetOfOne DEF NetAt
<1>6. CASE SourceAgain(s)
  <2>1. /\ At(s, "source") /\ GoesOn(s) /\ UNCHANGED <<on, file, net, bonjour>>
        /\ cfg' = [cfg EXCEPT ![s] = file] /\ unapplied' = unapplied \ {"tcpport"}
    BY <1>6 DEF SourceAgain, Sources, GoesOn
  <2>2. Left(s) = {"source"} \cup Left(s)' /\ Order("source", Left(s)')
    BY <2>1, NextOne
  <2>3. "bonjour" \in Left(s)' /\ "source" \notin Left(s)' /\ NetSteps \cap Left(s)' = {}
    BY <2>2 DEF Order
  <2>4. NetSteps \cap Left(s) = {} /\ cfg'[s] = file
    BY <1>0, <2>1, <2>2, <2>3 DEF NetSteps, TypeOK
  <2>5. ModeAsSaved(Left(s))'
    BY <1>0, <2>1, <2>3, <2>4 DEF NetAt, ModeAsSaved, Ends, Mode, NetSteps, net
  <2>6. AccessAsSaved(Left(s), cfg[s])'
    BY <1>0, <2>1, <2>3, <2>4 DEF NetAt, AccessAsSaved, Access, NetSteps, net, Network
  <2>7. PortAsSaved(Left(s), cfg[s])'
    BY <2>1, <2>3, <2>4 DEF PortAsSaved
  <2> QED
    BY <2>5, <2>6, <2>7, NetOfOne DEF NetAt
<1> QED
  BY <1>1, <1>2, <1>3, <1>4, <1>5, <1>6

\* Whoever sources canpi.cfg when no script runs, or when the Pi boots.
LEMMA NetBySources ==
  ASSUME Alone, TypeOK, Scripts, Net, NEW s \in Shells, todo[s] = <<>>,
         \/ \E command \in Commands : Command(s, command)
         \/ \E program : Upload(s, program)
         \/ Boot(s)
         \/ BootPressed(s)
  PROVE  Net'
<1>0. /\ NetAt(s) /\ file \in Settings /\ cfg[s] \in Settings /\ Left(s) = {}
      /\ cfg \in [Shells -> Settings] /\ todo \in [Shells -> Seq(Steps)]
  BY Nothing DEF Net, NetAt, TypeOK, Left
<1>1. /\ ~("ap_mode" \in unapplied) =>
           /\ iface = Mode(file)
           /\ "hostapd" \in enabled <=> file.ap_mode
           /\ "isc-dhcp-server" \in enabled <=> file.ap_mode
      /\ Network \cap unapplied = {} /\ file.ap_mode => hostapd = Access(file)
      /\ on /\ ~("tcpport" \in unapplied) => bonjour = file.tcpport
  BY <1>0 DEF NetAt, ModeAsSaved, Ends, AccessAsSaved, PortAsSaved
<1>2. ASSUME NEW t \in Seq(Steps), NEW applies \in {{}, {"tcpport"}},
             Sources(s, t, applies),
             UNCHANGED <<file, net, bonjour>>, NetSteps \cap ToSet(t) = {},
             IF applies = {} THEN on /\ ("bonjour" \in ToSet(t) => "source" \in ToSet(t))
             ELSE "bonjour" \in ToSet(t) /\ "source" \notin ToSet(t)
      PROVE  Net'
  <2>1. cfg'[s] = file /\ Left(s)' = ToSet(t)
    BY <1>0, <1>2 DEF Sources, Goes, Left
  <2>2. /\ "ap_mode" \in unapplied <=> "ap_mode" \in unapplied'
        /\ Network \cap unapplied' = Network \cap unapplied
    BY <1>2 DEF Sources, Network
  <2>3. ModeAsSaved(Left(s))'
    BY <1>1, <1>2, <2>1, <2>2 DEF ModeAsSaved, Ends, Mode, NetSteps, net
  <2>4. AccessAsSaved(Left(s), cfg[s])'
    BY <1>1, <1>2, <2>1, <2>2 DEF AccessAsSaved, Access, NetSteps, net
  <2>5. PortAsSaved(Left(s), cfg[s])'
    BY <1>1, <1>2, <2>1 DEF PortAsSaved, Sources
  <2> QED
    BY <2>3, <2>4, <2>5, NetOfOne DEF NetAt
<1>3. ASSUME NEW command \in Commands, Command(s, command) PROVE Net'
  <2> DEFINE t == Script(command, file)
  <2>1. /\ on /\ Sources(s, t, Applies(command)) /\ UNCHANGED <<on, file, net, bonjour>>
    BY <1>3 DEF Command
  <2>2. t \in Seq(Steps)
    BY <1>0, ScriptOrdered
  <2>3. CASE command = "configure"
    <3>1. ToSet(t) = {"bonjour", "reboot"} \cup (IF file.ap_mode THEN ApSteps ELSE WifiSteps)
      BY <1>0, <2>3, ScriptOrdered
    <3>2. unapplied' = {}
      BY <2>1, <2>3 DEF Sources, Applies, Keys, TypeOK
    <3>3. cfg'[s] = file /\ Left(s)' = ToSet(t) /\ UNCHANGED file
      BY <1>0, <2>1, <2>2 DEF Sources, Goes, Left
    <3> HIDE DEF t
    <3>7. /\ Left(s)' = {"bonjour", "reboot"} \cup (IF file.ap_mode THEN ApSteps ELSE WifiSteps)
           /\ file.ap_mode \in BOOLEAN
      BY <1>0, <3>1, <3>3 DEF Settings
    <3>4. ModeAsSaved(Left(s))'
      <4>1. CASE file.ap_mode
        BY <3>3, <3>7, <4>1 DEF ModeAsSaved, Ends, ApSteps
      <4>2. CASE ~file.ap_mode
        BY <3>3, <3>7, <4>2 DEF ModeAsSaved, Ends, WifiSteps
      <4> QED
        BY <4>1, <4>2
    <3>5. AccessAsSaved(Left(s), cfg[s])'
      <4>1. CASE file.ap_mode
        BY <3>3, <3>7, <4>1 DEF AccessAsSaved, ApSteps
      <4>2. CASE ~file.ap_mode
        BY <3>3, <3>7, <4>2 DEF AccessAsSaved, WifiSteps
      <4> QED
        BY <4>1, <4>2
    <3>6. PortAsSaved(Left(s), cfg[s])'
      <4>1. "bonjour" \in Left(s)' /\ "source" \notin Left(s)'
        BY <3>7 DEF ApSteps, WifiSteps
      <4> QED
        BY <3>3, <4>1 DEF PortAsSaved
    <3> QED
      BY <3>4, <3>5, <3>6, NetOfOne DEF NetAt
  <2>4. CASE command \in {"start", "startcanpi"}
    <3>1. /\ NetSteps \cap ToSet(t) = {}
          /\ "bonjour" \in ToSet(t) /\ "source" \notin ToSet(t)
      BY <1>0, <2>4, ScriptOrdered
    <3>2. Sources(s, t, {"tcpport"})
      BY <2>1, <2>4 DEF Applies
    <3> HIDE DEF t
    <3> QED
      BY <1>2, <2>1, <2>2, <3>1, <3>2
  <2>5. CASE command \notin {"start", "startcanpi", "configure"}
    <3>1. /\ NetSteps \cap ToSet(t) = {}
          /\ "bonjour" \in ToSet(t) => "source" \in ToSet(t)
      BY <1>0, <2>5, ScriptOrdered
    <3>2. Sources(s, t, {})
      BY <2>1, <2>5 DEF Applies
    <3> HIDE DEF t
    <3> QED
      BY <1>2, <2>1, <2>2, <3>1, <3>2
  <2> QED
    BY <2>3, <2>4, <2>5
<1>4. ASSUME NEW program, Upload(s, program) PROVE Net'
  <2>1. on /\ Sources(s, ApplyUpgrade, {}) /\ UNCHANGED <<file, net, bonjour>>
    BY <1>4 DEF Upload
  <2>2. NetSteps \cap ToSet(ApplyUpgrade) = {} /\ "bonjour" \notin ToSet(ApplyUpgrade)
    BY UpgradeOrdered DEF NetSteps
  <2> QED
    BY <1>2, <2>1, <2>2, UpgradeOrdered
<1>5. ASSUME Boot(s) PROVE Net'
  <2>1. Sources(s, Start, {"tcpport"}) /\ UNCHANGED <<file, net, bonjour>>
    BY <1>5 DEF Boot
  <2>2. /\ NetSteps \cap ToSet(Start) = {}
        /\ "bonjour" \in ToSet(Start) /\ "source" \notin ToSet(Start)
    BY StartOrdered DEF NetSteps
  <2> QED
    BY <1>2, <2>1, <2>2, StartOrdered
<1>6. ASSUME BootPressed(s) PROVE Net'
  <2>1. /\ Goes(s, Reconfigure)
        /\ cfg' = [cfg EXCEPT ![s] = [file EXCEPT !.ap_no_password = TRUE]]
        /\ UNCHANGED file
    BY <1>6 DEF BootPressed
  <2>2. cfg'[s].ap_no_password /\ cfg'[s].tcpport = file.tcpport
    BY <1>0, <2>1 DEF Settings
  <2>3. Left(s)' = {"sed ap_mode", "bonjour", "reboot"} \cup ApSteps
    BY <1>0, <2>1, ReconfigureOrdered DEF Goes, Left
  <2>4. ModeAsSaved(Left(s))'
    BY <2>3 DEF ModeAsSaved
  <2>5. AccessAsSaved(Left(s), cfg[s])'
    BY <2>2, <2>3 DEF AccessAsSaved
  <2>6. PortAsSaved(Left(s), cfg[s])'
    BY <2>1, <2>2, <2>3 DEF PortAsSaved, ApSteps
  <2> QED
    BY <2>4, <2>5, <2>6, NetOfOne DEF NetAt
<1> QED
  BY <1>3, <1>4, <1>5, <1>6

-----------------------------------------------------------------------------
(* The steps that are not followed by the next one in every case.          *)

\* If the daemon runs, nothing tests it.
LEMMA StartMoves ==
  ASSUME Alone, TypeOK, Scripts, NEW s \in Shells, StartCanpi(s)
  PROVE  \E L : /\ Left(s) = {"start"} \cup L /\ Order("start", L)
                /\ IF IsRunning
                   THEN /\ Left(s)' \subseteq L /\ "recovered?" \notin Left(s)'
                        /\ L \subseteq Left(s)' \cup {"started?", "recovered?"}
                   ELSE Left(s)' = L /\ GoesOn(s)
<1> DEFINE t == Tail(todo[s])
           u == Untested(t)
           L == ToSet(t)
<1>1. At(s, "start") /\ UNCHANGED on
  BY DEF StartCanpi
<1>2. /\ on' /\ t \in Seq(Steps) /\ Ordered(t, {}) /\ Order("start", L)
      /\ Left(s) = {"start"} \cup L
  BY <1>1, Comes
<1>3. CASE ~IsRunning
  <2>1. GoesOn(s) /\ Goes(s, t)
    BY <1>3 DEF StartCanpi, GoesOn
  <2>2. Left(s)' = L
    BY <1>2, <2>1, Then
  <2> QED
    BY <1>2, <1>3, <2>1, <2>2
<1>4. CASE IsRunning
  <2>1. Goes(s, u)
    BY <1>4 DEF StartCanpi
  <2>2. u = t \/ (t # <<>> /\ Head(t) \in {"started?", "recovered?"} /\ u = Tail(t))
    BY DEF Untested
  <2>3. t # <<>> /\ u = t => Head(t) \notin {"started?", "recovered?"}
    <3> SUFFICES ASSUME t # <<>>, Head(t) \in {"started?", "recovered?"}, u = t PROVE FALSE
      OBVIOUS
    <3>1. u = Tail(t)
      BY DEF Untested
    <3>2. Tail(t) = t
      BY <3>1
    <3> HIDE DEF t, u
    <3>3. Len(Tail(t)) = Len(t) - 1 /\ Len(t) \in Nat
      BY <1>2
    <3>4. Len(t) = Len(t) - 1
      BY <3>2, <3>3
    <3> QED
      BY <3>3, <3>4
  <2> HIDE DEF u
  <2>4. CASE t = <<>>
    <3>1. u = <<>>
      BY <2>2, <2>4
    <3>2. Left(s)' = {} /\ L = {}
      BY <1>2, <2>1, <2>4, <3>1, Then, Nothing
    <3> QED
      BY <1>2, <1>4, <3>2
  <2>5. CASE t # <<>> /\ u = t
    <3>1. Left(s)' = L
      BY <1>2, <2>1, <2>5, Then
    <3>2. PICK M : L = {Head(t)} \cup M /\ Order(Head(t), M \cup {})
      BY <1>2, <2>5, FirstStep
    <3>3. "recovered?" \notin L
      <4> SUFFICES ASSUME "recovered?" \in L PROVE FALSE
        OBVIOUS
      <4>1. L = {"recovered?", "clean"}
        BY <1>2 DEF Order
      <4>2. Head(t) = "clean"
        BY <2>3, <2>5, <3>2, <4>1
      <4>3. M \cup {} = {}
        BY <3>2, <4>2 DEF Order
      <4> QED
        BY <3>2, <4>1, <4>2, <4>3
    <3> QED
      BY <1>2, <1>4, <3>1, <3>3
  <2>6. CASE t # <<>> /\ Head(t) \in {"started?", "recovered?"} /\ u = Tail(t)
    <3>1. /\ Tail(t) \in Seq(Steps) /\ Ordered(Tail(t), {})
          /\ L = {Head(t)} \cup ToSet(Tail(t)) /\ Order(Head(t), ToSet(Tail(t)) \cup {})
      BY <1>2, <2>6, FirstStep
    <3>2. Left(s)' = ToSet(Tail(t))
      BY <1>2, <2>1, <2>6, <3>1, Then
    <3> HIDE DEF L
    <3>3. "recovered?" \notin ToSet(Tail(t))
      BY <2>6, <3>1 DEF Order
    <3> QED
      BY <1>2, <1>4, <2>6, <3>1, <3>2, <3>3
  <2> QED
    BY <2>2, <2>4, <2>5, <2>6
<1> QED
  BY <1>3, <1>4

\* A daemon that does not run is not waited for.
LEMMA TermMoves ==
  ASSUME Alone, TypeOK, Scripts, NEW s \in Shells, Term(s)
  PROVE  \A x : x \notin {"term", "wait"} => (x \in Left(s)' <=> x \in Left(s))
<1> DEFINE t == Tail(todo[s])
           L == ToSet(t)
<1>1. At(s, "term") /\ UNCHANGED on
  BY DEF Term
<1>2. /\ on' /\ t \in Seq(Steps) /\ Ordered(t, {}) /\ t # <<>> /\ Head(t) = "wait"
      /\ Left(s) = {"term"} \cup L
  BY <1>1, Comes
<1>3. CASE IsRunning
  <2>1. Goes(s, t)
    BY <1>3 DEF Term, GoesOn
  <2>2. Left(s)' = L
    BY <1>2, <2>1, Then
  <2> QED
    BY <1>2, <2>2
<1>4. CASE ~IsRunning
  <2>1. Goes(s, Tail(t))
    BY <1>4 DEF Term
  <2>2. /\ Tail(t) \in Seq(Steps) /\ Ordered(Tail(t), {}) /\ L = {"wait"} \cup ToSet(Tail(t))
    BY <1>2, FirstStep
  <2>3. Left(s)' = ToSet(Tail(t))
    BY <1>2, <2>1, <2>2, Then
  <2> QED
    BY <1>2, <2>2, <2>3
<1> QED
  BY <1>3, <1>4

\* If the new program has ended, the old one is started.
LEMMA RecoveredMoves ==
  ASSUME Alone, TypeOK, Scripts, NEW s \in Shells, Recovered(s)
  PROVE  /\ Left(s) = {"recovered?", "clean"}
         /\ Left(s)' = IF IsRunning THEN {"clean"} ELSE {"start", "clean"}
<1> DEFINE t == Tail(todo[s])
           b == <<"start">>
<1>1. At(s, "recovered?") /\ UNCHANGED on
  BY DEF Recovered
<1>2. /\ on' /\ t \in Seq(Steps) /\ Ordered(t, {}) /\ Order("recovered?", ToSet(t))
      /\ Left(s) = {"recovered?"} \cup ToSet(t)
  BY <1>1, Comes
<1>3. ToSet(t) = {"clean"}
  BY <1>2 DEF Order
<1>4. CASE IsRunning
  <2>1. Goes(s, t)
    BY <1>4 DEF Recovered, GoesOn
  <2>2. Left(s)' = ToSet(t)
    BY <1>2, <2>1, Then
  <2> QED
    BY <1>2, <1>3, <1>4, <2>2
<1>5. CASE ~IsRunning
  <2>1. Goes(s, b \o t)
    BY <1>5 DEF Recovered
  <2>2. Order("start", ToSet(t) \cup {}) /\ "start" \in Steps /\ "start" # "term"
    BY <1>3 DEF Order, NetSteps, Steps
  <2> HIDE DEF t
  <2>3. b \in Seq(Steps) /\ Ordered(b, ToSet(t) \cup {}) /\ ToSet(b) = {"start"}
    BY <2>2, OneStep
  <2> HIDE DEF b
  <2>4. b \o t \in Seq(Steps) /\ Ordered(b \o t, {}) /\ ToSet(b \o t) = ToSet(b) \cup ToSet(t)
    BY <1>2, <2>3, Appended
  <2>5. Left(s)' = ToSet(b \o t)
    BY <1>2, <2>1, <2>4, Then
  <2> QED
    BY <1>2, <1>3, <1>5, <2>3, <2>4, <2>5
<1> QED
  BY <1>4, <1>5

\* Without a program there is only the cleaning up.
LEMMA UnzipMoves ==
  ASSUME Alone, TypeOK, Scripts, NEW s \in Shells, Unzip(s)
  PROVE  /\ Left(s) = {"unzip", "term", "wait", "move aside", "copy", "start",
                       "recovered?", "clean"}
         /\ Left(s)' = IF unpacked' = "lost" THEN {"clean"} ELSE Left(s) \ {"unzip"}
<1>1. At(s, "unzip") /\ UNCHANGED on
  BY DEF Unzip
<1>2. PICK L : Left(s) = {"unzip"} \cup L /\ Order("unzip", L)
  BY <1>1, Comes
<1>3. L = {"term", "wait", "move aside", "copy", "start", "recovered?", "clean"}
  BY <1>2 DEF Order
<1>4. CASE unpacked' = "lost"
  <2>1. Goes(s, <<"clean">>) /\ on'
    BY <1>1, <1>4 DEF Unzip, At
  <2>2. Order("clean", {}) /\ "clean" \in Steps /\ "clean" # "term"
    BY DEF Order, NetSteps, Steps
  <2>3. <<"clean">> \in Seq(Steps) /\ Ordered(<<"clean">>, {}) /\ ToSet(<<"clean">>) = {"clean"}
    BY <2>2, OneStep
  <2>4. Left(s)' = ToSet(<<"clean">>)
    BY <2>1, <2>3, Then
  <2> QED
    BY <1>2, <1>3, <1>4, <2>3, <2>4
<1>5. CASE unpacked' # "lost"
  <2>1. GoesOn(s)
    BY <1>5 DEF Unzip
  <2>2. Left(s) = {"unzip"} \cup Left(s)' /\ Order("unzip", Left(s)')
    BY <1>1, <2>1, NextOne
  <2>3. Left(s)' = Left(s) \ {"unzip"}
    BY <2>2 DEF Order
  <2> QED
    BY <1>2, <1>3, <1>5, <2>3
<1> QED
  BY <1>4, <1>5

-----------------------------------------------------------------------------
(* All actions and the network.                                            *)

\* The steps of a script.
LEMMA NetByStops ==
  ASSUME Alone, TypeOK, Scripts, Net, NEW s \in Shells, Step(s)
  PROVE  Net'
<1>1. CASE \/ SetupBonjour(s) \/ SetupIface(s) \/ SetupHostapd(s) \/ UpdateRc(s)
           \/ SedApMode(s) \/ SourceAgain(s)
  BY <1>1, NetBySteps
<1>2. CASE Halt(s)
  <2>1. PICK a \in {"reboot", "halt"} : At(s, a)
    BY <1>2 DEF Halt
  <2>2. PICK L : Left(s) = {a} \cup L /\ Order(a, L)
    BY <2>1, Comes
  <2>3. Left(s) = {a}
    BY <2>2 DEF Order
  <2>4. Left(s)' = {} /\ ~on' /\ UNCHANGED <<file, net, unapplied, cfg>>
    <3>1. todo' = Idle
      BY <1>2 DEF Halt, Off
    <3>2. todo'[s] = <<>>
      BY <3>1 DEF Idle
    <3> QED
      BY <1>2, <3>2, Nothing DEF Left, Halt, Off
  <2>5. NetAt(s)
    BY DEF Net, NetAt
  <2>6. ModeAsSaved(Left(s))'
    BY <2>3, <2>4, <2>5 DEF NetAt, ModeAsSaved, Ends, Mode, net
  <2>7. AccessAsSaved(Left(s), cfg[s])'
    BY <2>3, <2>4, <2>5 DEF NetAt, AccessAsSaved, Access, net
  <2>8. PortAsSaved(Left(s), cfg[s])'
    BY <2>4 DEF PortAsSaved
  <2> QED
    BY <2>6, <2>7, <2>8, NetOfOne DEF NetAt
<1>3. CASE StartCanpi(s)
  <2>1. PICK L : /\ Left(s) = {"start"} \cup L
                 /\ IF IsRunning
                    THEN Left(s)' \subseteq L /\ L \subseteq Left(s)' \cup {"started?", "recovered?"}
                    ELSE Left(s)' = L
    BY <1>3, StartMoves
  <2>2. \A x \in NetSteps \cup {"bonjour", "source"} : x \in Left(s)' <=> x \in Left(s)
    BY <2>1 DEF NetSteps
  <2> QED
    BY <1>3, <2>2, NetLeftAlone DEF StartCanpi
<1>4. CASE Term(s)
  <2>1. \A x \in NetSteps \cup {"bonjour", "source"} : x \in Left(s)' <=> x \in Left(s)
    BY <1>4, TermMoves DEF NetSteps
  <2> QED
    BY <1>4, <2>1, NetLeftAlone DEF Term
<1>5. CASE Recovered(s)
  <2>1. \A x \in NetSteps \cup {"bonjour", "source"} : x \in Left(s)' <=> x \in Left(s)
    BY <1>5, RecoveredMoves DEF NetSteps
  <2> QED
    BY <1>5, <2>1, NetLeftAlone DEF Recovered
<1>6. CASE Unzip(s)
  <2>1. \A x \in NetSteps \cup {"bonjour", "source"} : x \in Left(s)' <=> x \in Left(s)
    BY <1>6, UnzipMoves DEF NetSteps
  <2> QED
    BY <1>6, <2>1, NetLeftAlone DEF Unzip
<1>7. CASE Started(s)
  <2>1. CASE GoesOn(s)
    BY <1>7, <2>1, NetStepOther DEF Started, NetSteps
  <2>2. CASE Exits(s)
    BY <1>7, <2>2, NetStepExits DEF Started
  <2> QED
    BY <1>7, <2>1, <2>2 DEF Started
<1>8. CASE Stopped(s)
  <2>1. CASE GoesOn(s)
    BY <1>8, <2>1, NetStepOther DEF Stopped, NetSteps
  <2>2. CASE Exits(s)
    BY <1>8, <2>2, NetStepExits DEF Stopped
  <2> QED
    BY <1>8, <2>1, <2>2 DEF Stopped
<1>9. CASE Wait(s)
  BY <1>9, NetStepOther DEF Wait, NetSteps
<1>10. CASE KillAll(s)
  BY <1>10, NetStepOther DEF KillAll, NetSteps
<1>11. CASE WebServer(s)
  <2>1. PICK a \in {"start web", "stop web"} : At(s, a)
    BY <1>11 DEF WebServer
  <2>2. a \notin NetSteps \cup {"bonjour", "source"}
    BY DEF NetSteps
  <2> QED
    BY <1>11, <2>1, <2>2, NetStepOther DEF WebServer
<1>12. CASE MoveAside(s)
  BY <1>12, NetStepOther DEF MoveAside, NetSteps
<1>13. CASE Copy(s)
  BY <1>13, NetStepOther DEF Copy, NetSteps
<1>14. CASE Clean(s)
  BY <1>14, NetStepOther DEF Clean, NetSteps
<1> QED
  BY <1>1, <1>2, <1>3, <1>4, <1>5, <1>6, <1>7, <1>8, <1>9, <1>10, <1>11, <1>12, <1>13,
     <1>14 DEF Step

\* All actions.
LEMMA NetKept ==
  ASSUME Alone, TypeOK, Scripts, Net, [Next]_vars
  PROVE  Net'
<1>0. PICK s \in Shells : TRUE
  BY ServicesAssumption
<1>0a. NetAt(s) /\ file \in Settings /\ cfg[s] \in Settings
  BY DEF Net, NetAt, TypeOK
<1>1. ASSUME NEW r \in Shells, Step(r) PROVE Net'
  BY <1>1, NetByStops
<1>2. ASSUME NEW r \in Shells,
             \/ \E command \in Commands : Command(r, command)
             \/ \E program : Upload(r, program)
             \/ Boot(r) \/ BootPressed(r)
      PROVE  Net'
  <2>1. todo[r] = <<>>
    BY <1>2 DEF Command, Upload, Boot, BootPressed, Scripts
  <2> QED
    BY <1>2, <2>1, NetBySources
<1>3. ASSUME NEW k \in Keys, NEW v, Edit(k, v) PROVE Net'
  <2>1. /\ Left(s)' = Left(s) /\ UNCHANGED <<on, cfg, net, bonjour>>
        /\ k \in unapplied' /\ unapplied \subseteq unapplied'
        /\ file' = [file EXCEPT ![k] = v]
    BY <1>3 DEF Edit, Left
  <2>2. /\ k # "ap_mode" => file'.ap_mode = file.ap_mode
        /\ k # "ap_no_password" => file'.ap_no_password = file.ap_no_password
        /\ k # "tcpport" => file'.tcpport = file.tcpport
    BY <1>0a, <2>1 DEF Settings
  <2>3. ModeAsSaved(Left(s))'
    BY <1>0a, <2>1, <2>2 DEF NetAt, ModeAsSaved, Ends, Mode, net
  <2>4. AccessAsSaved(Left(s), cfg[s])'
    <3>1. k \notin Network => file'.ap_mode = file.ap_mode
                              /\ file'.ap_no_password = file.ap_no_password
      BY <2>2 DEF Network
    <3>2. Network \cap unapplied' = {} => k \notin Network /\ Network \cap unapplied = {}
      BY <2>1
    <3> QED
      BY <1>0a, <2>1, <3>1, <3>2 DEF NetAt, AccessAsSaved, Access, net
  <2>5. PortAsSaved(Left(s), cfg[s])'
    BY <1>0a, <2>1, <2>2 DEF NetAt, PortAsSaved
  <2> QED
    BY <2>3, <2>4, <2>5, NetOfOne DEF NetAt
<1>4. ASSUME NEW p, DaemonEnds(p) PROVE Net'
  <2>1. Left(s)' = Left(s)
    BY <1>4 DEF DaemonEnds, Left
  <2> QED
    BY <1>4, <2>1, NetLeftAlone DEF DaemonEnds
<1>5. CASE PowerFails
  <2>1. Left(s)' = {} /\ ~on' /\ UNCHANGED <<file, cfg, enabled>>
    <3>1. todo' = Idle
      BY <1>5 DEF PowerFails, Off
    <3>2. todo'[s] = <<>>
      BY <3>1 DEF Idle
    <3> QED
      BY <1>5, <3>2, Nothing DEF Left, PowerFails, Off
  <2>2. CASE "reboot" \in Left(s)
    <3>1. UnderWay("reboot")
      BY <2>2 DEF UnderWay, Left
    <3>2. Network \subseteq unapplied'
      BY <1>5, <3>1 DEF PowerFails
    <3>3. "ap_mode" \in unapplied' /\ Network \cap unapplied' # {}
      BY <3>2 DEF Network
    <3> QED
      BY <2>1, <3>3, NetOfOne DEF NetAt, ModeAsSaved, AccessAsSaved, PortAsSaved
  <2>3. CASE "reboot" \notin Left(s)
    <3>1. NetSteps \cap Left(s) = {}
      BY <2>3, Together
    <3>2. ASSUME NEW r \in Shells, NEW a \in NetSteps, At(r, a) PROVE FALSE
      <4>1. r = s
        BY DEF Alone
      <4>2. a \in Left(s)
        BY <3>2, <4>1, Comes
      <4> QED
        BY <3>1, <4>2
    <3>3. iface' = iface /\ hostapd' = hostapd
      BY <1>5, <3>2 DEF PowerFails, Torn, NetSteps
    <3>4. unapplied' = unapplied
      <4>1. ~UnderWay("reboot")
        BY <2>3 DEF UnderWay, Left, Alone
      <4> QED
        BY <1>5, <4>1 DEF PowerFails
    <3>5. ModeAsSaved(Left(s))'
      BY <1>0a, <2>1, <3>1, <3>3, <3>4 DEF NetAt, ModeAsSaved, Ends, Mode, NetSteps
    <3>6. AccessAsSaved(Left(s), cfg[s])'
      BY <1>0a, <2>1, <3>1, <3>3, <3>4 DEF NetAt, AccessAsSaved, Access, NetSteps
    <3>7. PortAsSaved(Left(s), cfg[s])'
      BY <2>1 DEF PortAsSaved
    <3> QED
      BY <3>5, <3>6, <3>7, NetOfOne DEF NetAt
  <2> QED
    BY <2>2, <2>3
<1>6. CASE UNCHANGED vars
  <2>1. Left(s)' = Left(s)
    BY <1>6 DEF vars, Left
  <2> QED
    BY <1>6, <2>1, NetLeftAlone DEF vars
<1>7. Network \subseteq Keys /\ "tcpport" \in Keys
  BY DEF Network, Keys
<1> QED
  BY <1>1, <1>2, <1>3, <1>4, <1>5, <1>6, <1>7 DEF Next

KeepAt(s) ==
  /\ Between(Left(s)) /\ Unzipping(Left(s)) /\ Moving(Left(s)) /\ Copying(Left(s))
  /\ Starting(Left(s)) /\ Recovering(Left(s)) /\ Cleaning(Left(s))

-----------------------------------------------------------------------------
(* The good program.                                                       *)

LEMMA KeepOfOne ==
  ASSUME Alone, NEW s \in Shells, KeepAt(s)' PROVE Keep'
BY DEF Alone, Keep, KeepAt

\* What does not touch the programs.
LEMMA KeepLeftAlone ==
  ASSUME Alone, Keep, NEW s \in Shells, UNCHANGED <<upgrade, mishaps>>,
         \A x \in UpgradeSteps \cup {"start"} : x \in Left(s)' <=> x \in Left(s),
         "recovered?" \in Left(s) /\ "start" \notin Left(s) => (NewRuns => NewRuns')
  PROVE  Keep'
<1>0. KeepAt(s) /\ UNCHANGED <<canpi, backup, zip, unpacked, mishaps>>
  BY DEF Keep, KeepAt, upgrade
<1>1. /\ "clean" \in Left(s)' <=> "clean" \in Left(s)
      /\ "unzip" \in Left(s)' <=> "unzip" \in Left(s)
      /\ "move aside" \in Left(s)' <=> "move aside" \in Left(s)
      /\ "copy" \in Left(s)' <=> "copy" \in Left(s)
      /\ "start" \in Left(s)' <=> "start" \in Left(s)
      /\ "recovered?" \in Left(s)' <=> "recovered?" \in Left(s)
  BY DEF UpgradeSteps
<1>2. Between(Left(s))' /\ Unzipping(Left(s))'
  BY <1>0, <1>1 DEF KeepAt, Between, Unzipping, Once
<1>3. Moving(Left(s))' /\ Copying(Left(s))' /\ Starting(Left(s))' /\ Cleaning(Left(s))'
  BY <1>0, <1>1 DEF KeepAt, Moving, Copying, Starting, Cleaning
<1>4. Recovering(Left(s))'
  BY <1>0, <1>1 DEF KeepAt, Recovering
<1> QED
  BY <1>2, <1>3, <1>4, KeepOfOne DEF KeepAt

\* No upgrade before, none behind.
LEMMA KeepBetween ==
  ASSUME Alone, Keep, NEW s \in Shells, UNCHANGED <<upgrade, mishaps>>,
         "clean" \notin Left(s), UpgradeSteps \cap Left(s)' = {}
  PROVE  Keep'
<1>0. Between(Left(s)) /\ UNCHANGED <<canpi, backup, zip, unpacked, mishaps>>
  BY DEF Keep, upgrade
<1>1. Between(Left(s))'
  BY <1>0 DEF Between, Once
<1>2. /\ "unzip" \notin Left(s)' /\ "move aside" \notin Left(s)' /\ "copy" \notin Left(s)'
      /\ "recovered?" \notin Left(s)' /\ "clean" \notin Left(s)'
  BY DEF UpgradeSteps
<1>3. /\ Unzipping(Left(s))' /\ Moving(Left(s))' /\ Copying(Left(s))' /\ Starting(Left(s))'
      /\ Recovering(Left(s))' /\ Cleaning(Left(s))'
  BY <1>2 DEF Unzipping, Moving, Copying, Starting, Recovering, Cleaning
<1> QED
  BY <1>1, <1>3, KeepOfOne DEF KeepAt

\* A step of something else.
LEMMA KeepStepOther ==
  ASSUME Alone, TypeOK, Scripts, Keep, NEW s \in Shells, NEW a, At(s, a),
         a \notin UpgradeSteps \cup {"start"}, GoesOn(s),
         UNCHANGED <<on, upgrade, mishaps>>
  PROVE  Keep'
<1>1. Left(s) = {a} \cup Left(s)' /\ Order(a, Left(s)')
  BY NextOne
<1>2. "recovered?" \in Left(s) => "start" \in Left(s)
  BY <1>1 DEF Order, UpgradeSteps
<1> QED
  BY <1>1, <1>2, KeepLeftAlone

\* The steps of an upgrade.
LEMMA KeepByUpgrade ==
  ASSUME Alone, TypeOK, Scripts, Keep, NEW s \in Shells,
         Unzip(s) \/ MoveAside(s) \/ Copy(s) \/ Recovered(s) \/ Clean(s) \/ StartCanpi(s)
  PROVE  Keep'
<1>0. KeepAt(s) /\ mishaps \in Nat
  BY DEF Keep, KeepAt, TypeOK
<1>1. CASE Unzip(s)
  <2>1. /\ Left(s) = {"unzip", "term", "wait", "move aside", "copy", "start",
                      "recovered?", "clean"}
        /\ Left(s)' = IF unpacked' = "lost" THEN {"clean"} ELSE Left(s) \ {"unzip"}
    BY <1>1, UnzipMoves
  <2>2. /\ unpacked' = IF unpacked = "lost" /\ zip # "without" THEN zip ELSE unpacked
        /\ UNCHANGED <<canpi, backup, zip, mishaps>>
    BY <1>1 DEF Unzip
  <2>3. Unzipping(Left(s))
    BY <1>0 DEF KeepAt
  <2>4. CASE unpacked' = "lost"
    <3>1. Left(s)' = {"clean"}
      BY <2>1, <2>4
    <3>2. Cleaning(Left(s))'
      BY <2>1, <2>2, <2>3, <2>4 DEF Unzipping, Once, Cleaning
    <3> QED
      BY <3>1, <3>2, KeepOfOne
         DEF KeepAt, Between, Unzipping, Moving, Copying, Starting, Recovering
  <2>5. CASE unpacked' # "lost"
    <3>1. Left(s)' = {"term", "wait", "move aside", "copy", "start", "recovered?", "clean"}
      BY <2>1, <2>5
    <3>2. Moving(Left(s))'
      BY <2>1, <2>2, <2>3, <2>5 DEF Unzipping, Once, Moving
    <3> QED
      BY <3>1, <3>2, KeepOfOne
         DEF KeepAt, Between, Unzipping, Copying, Starting, Recovering, Cleaning
  <2> QED
    BY <2>4, <2>5
<1>2. CASE MoveAside(s)
  <2>1. Left(s) = {"move aside"} \cup Left(s)' /\ Order("move aside", Left(s)')
    BY <1>2, NextOne DEF MoveAside
  <2>2. Left(s)' = {"copy", "start", "recovered?", "clean"}
    BY <2>1 DEF Order
  <2>3. Copying(Left(s))'
    BY <1>0, <1>2, <2>1, <2>2 DEF KeepAt, Moving, Copying, MoveAside
  <2> QED
    BY <2>2, <2>3, KeepOfOne
       DEF KeepAt, Between, Unzipping, Moving, Starting, Recovering, Cleaning
<1>3. CASE Copy(s)
  <2>1. Left(s) = {"copy"} \cup Left(s)' /\ Order("copy", Left(s)')
    BY <1>3, NextOne DEF Copy
  <2>2. Left(s)' = {"start", "recovered?", "clean"}
    BY <2>1 DEF Order
  <2>3. Starting(Left(s))'
    BY <1>0, <1>3, <2>1, <2>2 DEF KeepAt, Copying, Starting, Copy
  <2> QED
    BY <2>2, <2>3, KeepOfOne
       DEF KeepAt, Between, Unzipping, Moving, Copying, Recovering, Cleaning
<1>4. CASE Recovered(s)
  <2>1. /\ Left(s) = {"recovered?", "clean"}
        /\ Left(s)' = IF IsRunning THEN {"clean"} ELSE {"start", "clean"}
    BY <1>4, RecoveredMoves
  <2>2. Recovering(Left(s)) /\ UNCHANGED <<unpacked, zip, mishaps>>
    BY <1>0, <1>4 DEF KeepAt, Recovered
  <2>3. IF IsRunning THEN UNCHANGED <<canpi, backup>>
        ELSE canpi' = IF backup # "lost" THEN backup ELSE canpi
    BY <1>4 DEF Recovered
  <2>4. Cleaning(Left(s))'
    <3>1. ~IsRunning => ~NewRuns
      BY DEF NewRuns, IsRunning
    <3>2. NewRuns => canpi = "good"
      BY DEF NewRuns
    <3> QED
      BY <2>1, <2>2, <2>3, <3>1, <3>2 DEF Recovering, Cleaning
  <2>5. "clean" \in Left(s)' /\ {"unzip", "move aside", "copy", "recovered?"} \cap Left(s)' = {}
    BY <2>1
  <2> QED
    BY <2>4, <2>5, KeepOfOne
       DEF KeepAt, Between, Unzipping, Moving, Copying, Starting, Recovering
<1>5. CASE Clean(s)
  <2>1. Left(s) = {"clean"} \cup Left(s)' /\ Order("clean", Left(s)')
    BY <1>5, NextOne DEF Clean
  <2>2. Left(s)' = {}
    BY <2>1 DEF Order
  <2>3. Between(Left(s))'
    BY <1>0, <1>5, <2>1, <2>2 DEF KeepAt, Cleaning, Between, Clean, Once
  <2> QED
    BY <2>2, <2>3, KeepOfOne
       DEF KeepAt, Unzipping, Moving, Copying, Starting, Recovering, Cleaning
<1>6. CASE StartCanpi(s)
  <2>1. PICK L : /\ Left(s) = {"start"} \cup L /\ Order("start", L)
                 /\ IF IsRunning
                    THEN /\ Left(s)' \subseteq L /\ "recovered?" \notin Left(s)'
                         /\ L \subseteq Left(s)' \cup {"started?", "recovered?"}
                    ELSE Left(s)' = L
    BY <1>6, StartMoves
  <2>2. UNCHANGED <<upgrade, mishaps>> /\ UNCHANGED <<canpi, backup, zip, unpacked>>
    BY <1>6 DEF StartCanpi, upgrade
  <2>3. CASE "recovered?" \notin L
    <3>1. \A x \in UpgradeSteps : x \in Left(s)' <=> x \in Left(s)
      BY <2>1, <2>3 DEF UpgradeSteps
    <3>2. "recovered?" \notin Left(s)
      BY <2>1, <2>3
    <3>3. /\ "clean" \in Left(s)' <=> "clean" \in Left(s)
          /\ "unzip" \in Left(s)' <=> "unzip" \in Left(s)
          /\ "move aside" \in Left(s)' <=> "move aside" \in Left(s)
          /\ "copy" \in Left(s)' <=> "copy" \in Left(s)
          /\ "recovered?" \notin Left(s)'
      BY <3>1, <3>2 DEF UpgradeSteps
    <3>4. Between(Left(s))' /\ Unzipping(Left(s))' /\ Moving(Left(s))'
      BY <1>0, <2>2, <3>3 DEF KeepAt, Between, Unzipping, Moving, Once
    <3>5. Copying(Left(s))' /\ Starting(Left(s))' /\ Recovering(Left(s))'
      BY <1>0, <2>2, <3>3 DEF KeepAt, Copying, Starting, Recovering
    <3>6. Cleaning(Left(s))'
      BY <1>0, <2>2, <3>2, <3>3 DEF KeepAt, Cleaning
    <3> QED
      BY <3>4, <3>5, <3>6, KeepOfOne DEF KeepAt
  <2>4. CASE "recovered?" \in L
    <3>1. L = {"recovered?", "clean"} /\ Left(s) = {"start", "recovered?", "clean"}
      BY <2>1, <2>4 DEF Order
    <3>2. /\ mishaps = 0 => canpi = "good" /\ backup = "good" /\ unpacked = "good"
          /\ mishaps = 1 => backup = "good" \/ (canpi = "good" /\ unpacked = "good")
      BY <1>0, <3>1 DEF KeepAt, Starting
    <3>3. CASE IsRunning
      <4>1. Left(s)' = {"clean"}
        BY <2>1, <3>1, <3>3
      <4>2. Cleaning(Left(s))'
        BY <2>2, <3>2 DEF Cleaning
      <4> QED
        BY <4>1, <4>2, KeepOfOne
           DEF KeepAt, Between, Unzipping, Moving, Copying, Starting, Recovering
    <3>4. CASE ~IsRunning
      <4>1. Left(s)' = {"recovered?", "clean"}
        BY <2>1, <3>1, <3>4
      <4>2. canpi = "good" => NewRuns'
        <5>1. PICK p \in Pids \ DOMAIN daemons :
                /\ daemons' = [q \in DOMAIN daemons \cup {p} |->
                     IF q # p THEN daemons[q]
                     ELSE [bin |-> IF canpi = "good" THEN "good" ELSE "broken",
                           termed |-> FALSE]]
                /\ sudos' = sudos \cup {p} /\ pid_file' = p
          BY <1>6, <3>4 DEF StartCanpi
        <5>2. daemons'[p] = [bin |-> IF canpi = "good" THEN "good" ELSE "broken",
                             termed |-> FALSE]
          BY <5>1
        <5> QED
          BY <2>2, <5>1, <5>2 DEF NewRuns
      <4>3. Recovering(Left(s))'
        BY <2>2, <3>2, <4>2 DEF Recovering
      <4> QED
        BY <4>1, <4>3, KeepOfOne
           DEF KeepAt, Between, Unzipping, Moving, Copying, Starting, Cleaning
    <3> QED
      BY <3>3, <3>4
  <2> QED
    BY <2>3, <2>4
<1> QED
  BY <1>1, <1>2, <1>3, <1>4, <1>5, <1>6

\* All steps.
LEMMA KeepByStep ==
  ASSUME Alone, TypeOK, Scripts, Keep, NEW s \in Shells, Step(s)
  PROVE  Keep'
<1>0. ASSUME NEW a, At(s, a), a \notin UpgradeSteps \cup {"start"}, GoesOn(s),
             UNCHANGED <<on, upgrade, mishaps>>
      PROVE  Keep'
  BY <1>0, KeepStepOther
<1>1. CASE \/ Unzip(s) \/ MoveAside(s) \/ Copy(s) \/ Recovered(s) \/ Clean(s)
           \/ StartCanpi(s)
  BY <1>1, KeepByUpgrade
<1>2. CASE Halt(s)
  <2>1. PICK a \in {"reboot", "halt"} : At(s, a)
    BY <1>2 DEF Halt
  <2>2. PICK L : Left(s) = {a} \cup L /\ Order(a, L)
    BY <2>1, Comes
  <2>3. "clean" \notin Left(s)
    BY <2>2 DEF Order
  <2>4. todo' = Idle
    BY <1>2 DEF Halt, Off
  <2>5. todo'[s] = <<>>
    BY <2>4 DEF Idle
  <2>6. Left(s)' = {}
    BY <2>5, Nothing DEF Left
  <2> QED
    BY <1>2, <2>3, <2>6, KeepBetween DEF Halt
<1>3. CASE Term(s)
  <2>1. At(s, "term") /\ UNCHANGED <<on, upgrade, mishaps>>
    BY <1>3 DEF Term
  <2>2. PICK L : Left(s) = {"term"} \cup L /\ Order("term", L)
    BY <2>1, Comes
  <2>3. "recovered?" \in Left(s) => "start" \in Left(s)
    BY <2>2 DEF Order
  <2>4. \A x \in UpgradeSteps \cup {"start"} : x \in Left(s)' <=> x \in Left(s)
    BY <1>3, TermMoves DEF UpgradeSteps
  <2> QED
    BY <2>1, <2>3, <2>4, KeepLeftAlone
<1>4. ASSUME NEW a \in {"started?", "stopped?"}, At(s, a), Exits(s),
             UNCHANGED <<on, upgrade, mishaps>>
      PROVE  Keep'
  <2>1. Left(s)' = {}
    BY <1>4, NextOne
  <2>2. PICK L : Left(s) = {a} \cup L /\ Order(a, L)
    BY <1>4, Comes
  <2>3. "clean" \notin Left(s)
    BY <2>2 DEF Order
  <2> QED
    BY <1>4, <2>1, <2>3, KeepBetween
<1>5. CASE Started(s)
  BY <1>0, <1>4, <1>5 DEF Started, UpgradeSteps
<1>6. CASE Stopped(s)
  BY <1>0, <1>4, <1>6 DEF Stopped, UpgradeSteps
<1>7. CASE Wait(s)
  BY <1>0, <1>7 DEF Wait, UpgradeSteps
<1>8. CASE KillAll(s)
  BY <1>0, <1>8 DEF KillAll, UpgradeSteps
<1>9. CASE WebServer(s)
  BY <1>0, <1>9 DEF WebServer, UpgradeSteps
<1>10. CASE SourceAgain(s)
  BY <1>0, <1>10 DEF SourceAgain, Sources, GoesOn, UpgradeSteps
<1>11. CASE SetupBonjour(s)
  BY <1>0, <1>11 DEF SetupBonjour, UpgradeSteps
<1>12. CASE SetupIface(s)
  BY <1>0, <1>12 DEF SetupIface, UpgradeSteps
<1>13. CASE SetupHostapd(s)
  BY <1>0, <1>13 DEF SetupHostapd, UpgradeSteps
<1>14. CASE UpdateRc(s)
  BY <1>0, <1>14 DEF UpdateRc, UpgradeSteps
<1>15. CASE SedApMode(s)
  BY <1>0, <1>15 DEF SedApMode, UpgradeSteps
<1> QED
  BY <1>1, <1>2, <1>3, <1>5, <1>6, <1>7, <1>8, <1>9, <1>10, <1>11, <1>12, <1>13, <1>14,
     <1>15 DEF Step

\* All actions.
LEMMA KeepKept ==
  ASSUME Alone, TypeOK, Scripts, Keep, [Next]_vars
  PROVE  Keep'
<1>0. PICK s \in Shells : TRUE
  BY ServicesAssumption
<1>0a. KeepAt(s) /\ mishaps \in Nat
  BY DEF Keep, KeepAt, TypeOK
<1>1. ASSUME NEW r \in Shells, Step(r) PROVE Keep'
  BY <1>1, KeepByStep
<1>2. ASSUME NEW r \in Shells, NEW t \in Seq(Steps), todo[r] = <<>>, Goes(r, t),
             UpgradeSteps \cap ToSet(t) = {}, UNCHANGED <<upgrade, mishaps>>
      PROVE  Keep'
  <2>1. Left(r) = {}
    BY <1>2, Nothing DEF Left
  <2>2. Left(r)' = ToSet(t)
    BY <1>2 DEF Left, Goes, TypeOK
  <2> QED
    BY <1>2, <2>1, <2>2, KeepBetween
<1>3. ASSUME NEW r \in Shells, NEW command \in Commands, Command(r, command) PROVE Keep'
  <2>1. /\ todo[r] = <<>> /\ Goes(r, Script(command, file))
        /\ UNCHANGED <<upgrade, mishaps>>
    BY <1>3 DEF Command, Sources
  <2>2. /\ Script(command, file) \in Seq(Steps)
        /\ UpgradeSteps \cap ToSet(Script(command, file)) = {}
    BY ScriptOrdered DEF TypeOK
  <2> QED
    BY <1>2, <2>1, <2>2
<1>4. ASSUME NEW r \in Shells, Boot(r) \/ BootPressed(r) PROVE Keep'
  <2>1. /\ todo[r] = <<>> /\ (Goes(r, Start) \/ Goes(r, Reconfigure))
        /\ UNCHANGED <<upgrade, mishaps>>
    BY <1>4 DEF Boot, BootPressed, Sources, Scripts
  <2>2. UpgradeSteps \cap ToSet(Start) = {}
    BY StartOrdered DEF UpgradeSteps
  <2>3. UpgradeSteps \cap ToSet(Reconfigure) = {}
    BY ReconfigureOrdered DEF UpgradeSteps, ApSteps
  <2> QED
    BY <1>2, <2>1, <2>2, <2>3, StartOrdered, ReconfigureOrdered
<1>5. ASSUME NEW r \in Shells, NEW program \in Programs \cup {"without"}, Upload(r, program)
      PROVE  Keep'
  <2>1. /\ todo[r] = <<>> /\ Goes(r, ApplyUpgrade) /\ zip' = program
        /\ mishaps' = mishaps + (IF program = "broken" THEN 1 ELSE 0)
        /\ UNCHANGED <<canpi, backup, unpacked>>
    BY <1>5 DEF Upload, Sources
  <2>2. Left(r) = {}
    BY <2>1, Nothing DEF Left
  <2>3. Left(r)' = {"unzip", "term", "wait", "move aside", "copy", "start", "recovered?",
                    "clean"}
    BY <2>1, UpgradeOrdered DEF Left, Goes, TypeOK
  <2>4. Between(Left(r))
    BY DEF Keep
  <2>5. Unzipping(Left(r))'
    <3>1. /\ mishaps = 0 => canpi = "good" /\ unpacked = "lost"
          /\ mishaps = 1 => Once
      BY <2>2, <2>4 DEF Between
    <3>2. Once' = Once
      BY <2>1 DEF Once
    <3>3. CASE program = "broken"
      <4>1. mishaps' # 0 /\ (mishaps' = 1 => mishaps = 0)
        BY <1>0a, <2>1, <3>3
      <4> QED
        BY <2>1, <3>1, <3>3, <4>1 DEF Unzipping
    <3>4. CASE program # "broken"
      <4>1. mishaps' = mishaps /\ program \in {"good", "without"}
        BY <1>0a, <2>1, <3>4 DEF Programs
      <4> QED
        BY <2>1, <3>1, <3>2, <4>1 DEF Unzipping
    <3> QED
      BY <3>3, <3>4
  <2> QED
    BY <2>3, <2>5, KeepOfOne
       DEF KeepAt, Between, Moving, Copying, Starting, Recovering, Cleaning
<1>6. CASE UNCHANGED <<todo, upgrade, mishaps, procs>>
  <2>1. Left(s)' = Left(s) /\ (NewRuns <=> NewRuns')
    BY <1>6 DEF Left, NewRuns, upgrade, procs
  <2> QED
    BY <1>6, <2>1, KeepLeftAlone
<1>7. ASSUME NEW k, NEW v, Edit(k, v) PROVE Keep'
  BY <1>6, <1>7 DEF Edit
<1>8. ASSUME NEW p, DaemonEnds(p) PROVE Keep'
  <2>1. Left(s)' = Left(s) /\ UNCHANGED <<upgrade, mishaps>>
    BY <1>8 DEF DaemonEnds, Left
  <2>2. canpi' = canpi
    BY <2>1 DEF upgrade
  <2>3. NewRuns => NewRuns'
    <3> SUFFICES ASSUME NewRuns PROVE NewRuns'
      OBVIOUS
    <3>1. pid_file # p
      BY <1>8 DEF DaemonEnds, NewRuns
    <3>2. pid_file \in DOMAIN daemons
      BY DEF NewRuns, TypeOK
    <3>3. daemons'[pid_file] = daemons[pid_file] /\ pid_file \in sudos' /\ pid_file' = pid_file
      BY <1>8, <3>1, <3>2 DEF DaemonEnds, NewRuns
    <3> QED
      BY <2>2, <3>3 DEF NewRuns
  <2> QED
    BY <2>1, <2>3, KeepLeftAlone
<1>9. CASE PowerFails
  <2>1. todo' = Idle
    BY <1>9 DEF PowerFails, Off
  <2>2. todo'[s] = <<>>
    BY <2>1 DEF Idle
  <2>3. Left(s)' = {}
    BY <2>2, Nothing DEF Left
  <2>4. /\ Torn("unzip", unpacked, IF unpacked = "lost" THEN "broken" ELSE unpacked)
        /\ Torn("copy", canpi, "broken")
        /\ mishaps' = mishaps + (IF UnderWay("clean") THEN 1 ELSE 0)
        /\ UNCHANGED <<backup, zip>>
    BY <1>9 DEF PowerFails
  <2>5. UnderWay("clean") <=> "clean" \in Left(s)
    BY DEF UnderWay, Left, Alone
  <2>6. /\ canpi' # canpi => canpi' = "broken" /\ At(s, "copy")
        /\ unpacked' # unpacked => unpacked = "lost" /\ unpacked' = "broken" /\ At(s, "unzip")
    BY <2>4 DEF Torn, Alone
  <2>7. Between(Left(s))'
    <3>1. CASE "clean" \notin Left(s)
      <4>1. ASSUME NEW a \in {"copy", "unzip"}, At(s, a) PROVE FALSE
        <5>1. a \in Left(s) /\ a \in UpgradeSteps
          BY <4>1, Comes DEF UpgradeSteps
        <5> QED
          BY <3>1, <5>1, Together
      <4>2. UNCHANGED <<canpi, unpacked, backup, zip>> /\ mishaps' = mishaps
        BY <1>0a, <2>4, <2>5, <2>6, <3>1, <4>1
      <4> QED
        BY <1>0a, <3>1, <4>2 DEF KeepAt, Between, Once
    <3>2. CASE "clean" \in Left(s)
      <4>1. mishaps' = mishaps + 1
        BY <2>4, <2>5, <3>2
      <4>2. mishaps' # 0 /\ (mishaps' = 1 => mishaps = 0)
        BY <1>0a, <4>1
      <4> SUFFICES ASSUME mishaps = 0 PROVE Once'
        BY <4>2 DEF Between
      <4>3. CASE At(s, "unzip")
        <5>1. "unzip" \in Left(s) /\ ~At(s, "copy")
          BY <4>3, Comes DEF At
        <5>2. canpi = "good"
          BY <1>0a, <5>1 DEF KeepAt, Unzipping
        <5> QED
          BY <2>6, <5>1, <5>2 DEF Once
      <4>4. CASE At(s, "copy")
        <5>1. PICK L : Left(s) = {"copy"} \cup L /\ Order("copy", L)
          BY <4>4, Comes
        <5>2. "copy" \in Left(s) /\ "move aside" \notin Left(s)
          BY <5>1 DEF Order
        <5>3. unpacked = "good"
          BY <1>0a, <5>2 DEF KeepAt, Copying
        <5> QED
          BY <2>6, <5>3 DEF Once
      <4>5. CASE ~At(s, "unzip") /\ ~At(s, "copy")
        <5>1. UNCHANGED <<canpi, backup, unpacked>>
          BY <2>4, <2>6, <4>5
        <5>2. canpi = "good" \/ unpacked = "good"
          BY <1>0a, <3>2
             DEF KeepAt, Unzipping, Moving, Copying, Starting, Recovering, Cleaning
        <5> QED
          BY <5>1, <5>2 DEF Once
      <4> QED
        BY <4>3, <4>4, <4>5
    <3> QED
      BY <3>1, <3>2
  <2> QED
    BY <2>3, <2>7, KeepOfOne
       DEF KeepAt, Unzipping, Moving, Copying, Starting, Recovering, Cleaning
<1>10. CASE UNCHANGED vars
  BY <1>6, <1>10 DEF vars
<1> QED
  BY <1>1, <1>3, <1>4, <1>5, <1>7, <1>8, <1>9, <1>10 DEF Next

-----------------------------------------------------------------------------
(* The theorems.                                                           *)

\* The invariant holds in every state.
LEMMA Inductive ==
  ASSUME Alone PROVE Spec => []IInv
<1>1. Init => IInv
  <2> SUFFICES ASSUME Init PROVE IInv
    OBVIOUS
  <2>0. DOMAIN daemons = {} /\ file \in Settings
    BY DEF Init
  <2>1. todo = Idle /\ \A s \in Shells : todo[s] = <<>>
    BY DEF Init, Idle
  <2>2. todo \in [Shells -> Seq(Steps)] /\ Scripts
    BY <2>1, Nothing DEF Idle, Scripts
  <2>3. \A s \in Shells : Left(s) = {}
    BY <2>1, Nothing DEF Left
  <2>4. Processes /\ Upgrades
    BY <2>0 DEF Init, Processes, Upgrades, Programs
  <2>5. Shown
    <3>1. file.tcpport \in Ports
      BY <2>0 DEF Settings
    <3> QED
      BY <3>1 DEF Init, Shown, Mode, Access
  <2>6. History /\ Settled /\ mishaps <= events
    BY <2>0, ServicesAssumption DEF Init, History, Settled
  <2>7. Net
    <3>1. ASSUME NEW s \in Shells PROVE ModeAsSaved(Left(s))
      <4>1. enabled = (IF file.ap_mode THEN ApServices ELSE {}) /\ file.ap_mode \in BOOLEAN
        BY <2>0 DEF Init, Settings
      <4>2. /\ "hostapd" \in enabled <=> file.ap_mode
            /\ "isc-dhcp-server" \in enabled <=> file.ap_mode
        BY <4>1 DEF ApServices
      <4> QED
        BY <2>3, <4>2 DEF Init, ModeAsSaved, Ends
    <3>2. ASSUME NEW s \in Shells PROVE AccessAsSaved(Left(s), cfg[s])
      BY <2>3 DEF Init, AccessAsSaved
    <3>3. ASSUME NEW s \in Shells PROVE PortAsSaved(Left(s), cfg[s])
      BY DEF Init, PortAsSaved
    <3> QED
      BY <3>1, <3>2, <3>3 DEF Net
  <2>8. Keep
    <3> SUFFICES ASSUME NEW s \in Shells PROVE KeepAt(s)
      BY DEF Keep, KeepAt
    <3>1. Between(Left(s))
      BY DEF Init, Between
    <3> QED
      BY <2>3, <3>1
         DEF KeepAt, Unzipping, Moving, Copying, Starting, Recovering, Cleaning
  <2>9. TypeOK
    BY <2>2, <2>4, <2>5, <2>6, TypeParts
  <2> QED
    BY <2>2, <2>6, <2>7, <2>8, <2>9 DEF IInv
<1>2. IInv /\ [Next]_vars => IInv'
  BY TypesKept, NetKept, KeepKept DEF IInv
<1> QED
  BY <1>1, <1>2, PTL DEF Spec

\* The types, as Services states them: a step is only what the script has,
\* the pid file names a daemon there may be, no file has an impossible content.
THEOREM ServicesTyped ==
  ASSUME Alone PROVE Spec => []TypeOK
<1>1. IInv => TypeOK
  BY DEF IInv
<1> QED
  BY <1>1, Inductive, PTL

\* Between scripts the network files, the services that start at boot and the
\* announced port are those of canpi.cfg, except for what was changed since or
\* cut short: start_canpi.sh never leaves a mixture of the two modes.
THEOREM NetworkIsAsSaved ==
  ASSUME Alone PROVE Spec => []NetworkAsSaved
<1>1. IInv => NetworkAsSaved
  <2> SUFFICES ASSUME IInv, AtRest
               PROVE  /\ "ap_mode" \notin unapplied =>
                           /\ iface = Mode(file)
                           /\ enabled = (IF file.ap_mode THEN ApServices ELSE {})
                      /\ Network \cap unapplied = {} /\ file.ap_mode => hostapd = Access(file)
                      /\ "tcpport" \notin unapplied => bonjour = file.tcpport
    BY DEF NetworkAsSaved
  <2>1. PICK s \in Shells : TRUE
    BY ServicesAssumption
  <2>2. todo[s] = <<>> /\ on
    BY DEF AtRest, Idle
  <2>3. Left(s) = {}
    BY <2>2, Nothing DEF Left
  <2>4. NetAt(s) /\ enabled \subseteq ApServices /\ file.ap_mode \in BOOLEAN
    BY DEF IInv, Net, NetAt, TypeOK, Settings
  <2>5. "ap_mode" \notin unapplied =>
           /\ iface = Mode(file)
           /\ "hostapd" \in enabled <=> file.ap_mode
           /\ "isc-dhcp-server" \in enabled <=> file.ap_mode
    BY <2>3, <2>4 DEF NetAt, ModeAsSaved, Ends
  <2>6. "ap_mode" \notin unapplied => enabled = (IF file.ap_mode THEN ApServices ELSE {})
    BY <2>4, <2>5 DEF ApServices
  <2>7. Network \cap unapplied = {} /\ file.ap_mode => hostapd = Access(file)
    BY <2>3, <2>4 DEF NetAt, AccessAsSaved
  <2>8. "tcpport" \notin unapplied => bonjour = file.tcpport
    BY <2>2, <2>3, <2>4 DEF NetAt, PortAsSaved
  <2> QED
    BY <2>5, <2>6, <2>7, <2>8
<1> QED
  BY <1>1, Inductive, PTL

\* One broken upload, or one power failure at any point of an upgrade, leaves a
\* good program on the card.
THEOREM GoodProgramKept ==
  ASSUME Alone PROVE Spec => []WorkingCopyKept
<1>1. IInv => WorkingCopyKept
  <2> SUFFICES ASSUME IInv, mishaps <= 1 PROVE "good" \in {canpi, backup, unpacked}
    BY DEF WorkingCopyKept
  <2>1. PICK s \in Shells : TRUE
    BY ServicesAssumption
  <2>2. mishaps = 0 \/ mishaps = 1
    BY DEF IInv, TypeOK
  <2>3. KeepAt(s)
    BY DEF IInv, Keep, KeepAt
  <2> QED
    BY <2>2, <2>3
       DEF KeepAt, Between, Once, Unzipping, Moving, Copying, Starting, Recovering, NewRuns,
           Cleaning
<1> QED
  BY <1>1, Inductive, PTL

=============================================================================
