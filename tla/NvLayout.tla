------------------------------ MODULE NvLayout ------------------------------
(***************************************************************************)
(* The node variables of CANPiWi: 47 bytes that hold settings of canpi.cfg *)
(* for a configuration tool on the CBUS. nodeConfigurator fills them when  *)
(* the program starts (loadParamsToMemory), and reads the settings back    *)
(* from them when a tool has written a full set (setNV).                   *)
(*                                                                         *)
(* Settings are a function from keys to values: switches, numbers, texts   *)
(* (sequences of character codes), the level of the log, and the list of   *)
(* the momentary functions, which is a set. A key that the file lacks is   *)
(* not in the domain; its getter answers Default. char is unsigned, as it  *)
(* is on the Raspberry Pi.                                                 *)
(***************************************************************************)
EXTENDS Integers, Sequences

Byte == 0..255
Word == 0..65535
Character == 1..255

At == [flags |-> 0, tcpport |-> 1, cangrid_port |-> 3, ap_channel |-> 5,
       ap_ssid |-> 6, ap_password |-> 14, service_name |-> 22,
       turnout_file |-> 30, fn_momentary |-> 41, start_event_id |-> 45]
Size == [flags |-> 1, tcpport |-> 2, cangrid_port |-> 2, ap_channel |-> 1,
         ap_ssid |-> 8, ap_password |-> 8, service_name |-> 8,
         turnout_file |-> 11, fn_momentary |-> 4, start_event_id |-> 2]
Fields == DOMAIN At
NVS_SIZE == At.start_event_id + Size.start_event_id
NvIndex == 0..(NVS_SIZE - 1)

Switches == {"ap_mode", "can_grid", "ap_no_password", "create_log_file", "edserver"}
Ports == {"tcpport", "cangrid_port", "start_event_id"}
Texts == {"ap_ssid", "ap_password", "service_name", "turnout_file"}
Keys == Switches \cup Ports \cup Texts \cup {"ap_channel", "loglevel", "fn_momentary"}

\* What the getters answer for a key that is not in the file.
DefaultPort == [tcpport |-> 5555, cangrid_port |-> 5550, start_event_id |-> 1]
DefaultText ==
  [k \in Texts |-> IF k = "turnout_file"
                   THEN <<116, 117, 114, 110, 111, 117, 116, 46, 116, 120, 116>> ELSE <<>>]
Default ==
  [k \in Keys |-> CASE k \in Switches -> k = "edserver" [] k \in Ports -> DefaultPort[k]
                    [] k \in Texts -> DefaultText[k] [] k = "ap_channel" -> 6
                    [] k = "loglevel" -> "WARN" [] k = "fn_momentary" -> {}]

Get(c, k) ==
  IF k \in DOMAIN c /\ ~(k = "turnout_file" /\ c[k] = <<>>) THEN c[k] ELSE Default[k]

\* The text s without the characters in bad.
Without(s, bad) ==
  LET kept[n \in 0..Len(s)] ==
        IF n = 0 THEN <<>>
        ELSE IF s[n] \in bad THEN kept[n - 1] ELSE Append(kept[n - 1], s[n])
  IN  kept[Len(s)]

-----------------------------------------------------------------------------
(* From settings to bytes.                                                 *)

Flag(b, n) == IF b THEN 2^n ELSE 0

\* loadParam1 puts the ED server into the bit of the log file.
LoadParam1(c) ==
  <<Flag(Get(c, "ap_mode"), 0) + Flag(Get(c, "can_grid"), 1)
    + Flag(Get(c, "loglevel") = "WARN", 2) + Flag(Get(c, "loglevel") = "DEBUG", 3)
    + Flag(Get(c, "ap_no_password"), 4)
    + Flag(Get(c, "create_log_file") \/ Get(c, "edserver"), 5)>>

\* Mutant: the high byte first, as a comment of nvToInt has it.
IntBytesHighFirst(v) == <<(v \div 256) % 256, v % 256>>

IntBytes(v) == <<v % 256, (v \div 256) % 256>>

TextBytes(s, size) == [i \in 1..size |-> IF i <= Len(s) THEN s[i] ELSE 0]

\* The byte of the functions i to i + 7, the first one its highest bit.
MomentaryByte(fns, i) ==
  Flag(i \in fns, 7) + Flag(i + 1 \in fns, 6) + Flag(i + 2 \in fns, 5)
  + Flag(i + 3 \in fns, 4) + Flag(i + 4 \in fns, 3) + Flag(i + 5 \in fns, 2)
  + Flag(i + 6 \in fns, 1) + Flag(i + 7 \in fns, 0)

\* An empty list leaves the bytes as they are.
MomentaryBytes(fns, old) ==
  IF fns = {} THEN old
  ELSE [b \in 1..4 |-> MomentaryByte(fns \cap 0..28, 8 * (b - 1))]

\* The bytes of a setting with the value v; old is what the memory of the
\* momentary functions held before.
FieldBytes(k, v, old) ==
  CASE k \in Ports -> IntBytes(v)
    [] k = "ap_channel" -> <<v % 256>>
    [] k \in Texts -> TextBytes(v, Size[k])
    [] k = "fn_momentary" -> MomentaryBytes(v, old)

\* The bytes of a field when the settings are c.
FieldOf(c, f, old) ==
  IF f = "flags" THEN LoadParam1(c) ELSE FieldBytes(f, Get(c, f), old)

\* The array with a field replaced.
Put(n, f, bytes) ==
  [i \in NvIndex |-> IF i \in At[f]..(At[f] + Size[f] - 1) THEN bytes[i - At[f] + 1] ELSE n[i]]

LoadParams(c, old) ==
  [i \in NvIndex |->
     LET f == CHOOSE g \in Fields : i \in At[g]..(At[g] + Size[g] - 1)
     IN  FieldOf(c, f, old)[i - At[f] + 1]]

-----------------------------------------------------------------------------
(* From bytes to settings.                                                 *)

FieldIn(n, f) == [i \in 1..Size[f] |-> n[At[f] + i - 1]]

Bit(byte, b) == (byte \div 2^b) % 2 = 1

NvToInt(s) == s[1] + 256 * s[2]
NvToString(s) == Without(s, {0})
NvToMomentary(s) == {i \in 0..31 : Bit(s[i \div 8 + 1], 7 - (i % 8))}
NvToLogLevel(byte) ==
  CASE (byte \div 4) % 4 = 1 -> "WARN" [] (byte \div 4) % 4 = 2 -> "DEBUG" [] OTHER -> "INFO"

\* setNV gives neither the service name nor the log file's switch a value.
Unset == {"service_name", "create_log_file"}

NvValue(n, k) ==
  CASE k = "ap_mode" -> Bit(n[0], 0)
    [] k = "can_grid" -> Bit(n[0], 1)
    [] k = "ap_no_password" -> Bit(n[0], 4)
    [] k = "edserver" -> Bit(n[0], 6)
    [] k = "loglevel" -> NvToLogLevel(n[0])
    [] k = "ap_channel" -> n[At[k]]
    [] k \in Ports -> NvToInt(FieldIn(n, k))
    [] k \in Texts -> NvToString(FieldIn(n, k))
    [] k = "fn_momentary" -> NvToMomentary(FieldIn(n, k))

\* The setters of a full set: a key that the file lacks is not added.
WithNVs(c, n) == [k \in DOMAIN c |-> IF k \in Unset THEN c[k] ELSE NvValue(n, k)]

-----------------------------------------------------------------------------
(* What loadConfig takes out of a line: quotes, semicolons and blanks.     *)

Clean(s) == Without(s, {34, 59, 32})
Cleaned(c) == [k \in DOMAIN c |-> IF k \in Texts THEN Clean(c[k]) ELSE c[k]]

=============================================================================
