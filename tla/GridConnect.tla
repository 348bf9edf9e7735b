---------------------------- MODULE GridConnect ----------------------------
(***************************************************************************)
(* The GridConnect text form of a CAN frame, :ShhhhNdd..; or               *)
(* :XhhhhhhhhNdd..;, as tcpClientGridConnect writes and reads it. A text   *)
(* is a record of the two letters, the bytes of the header and the bytes   *)
(* of the data; "fits" says whether a reader finds both letters in it.     *)
(***************************************************************************)
EXTENDS Naturals, Sequences

\* CAN_SFF_MASK and CAN_EFF_MASK: ids of 11 and of 29 bits.
CanFrame(Data) ==
  {f \in [eff : BOOLEAN, rtr : BOOLEAN, id : Nat, data : Data] :
     f.id < IF f.eff THEN 2^29 ELSE 2^11}

-----------------------------------------------------------------------------
(* canMessage.                                                             *)

\* Mutant: the header is not left justified.
StdHeaderRight(id) == <<id \div 256, id % 256>>

\* The 11 bits of the id are the upper bits of the two bytes.
StdHeader(id) == <<id \div 8, (id * 32) % 256>>

\* The id is moved up by 3 bits, and the third byte stands for the fourth too.
ExtHeader(id) ==
  <<id \div 2^21, (id \div 2^13) % 256, (id \div 2^5) % 256, (id \div 2^5) % 256>>

Format(f) ==
  [letter |-> IF f.eff THEN "X" ELSE "S",
   type |-> IF f.rtr THEN "R" ELSE "N",
   header |-> IF f.eff THEN ExtHeader(f.id) ELSE StdHeader(f.id),
   data |-> f.data, fits |-> TRUE]

-----------------------------------------------------------------------------
(* handleClientGridMessage: the texts of one string that recv returned.    *)

\* Mutant: the three bits that are not of the id stay.
StdIdUnshifted(h) == h[1] * 256 + h[2]

StdId(h) == (h[1] * 256 + h[2]) \div 32

\* Mutant: the bit that marks an extended frame stays.
ExtIdMarked(h) == (h[1] % 32) * 2^24 + h[2] * 2^16 + h[3] * 2^8 + h[4]

\* The header as it is, without bit 19 ("a crazy 8 that the FCU sends"). The
\* upper three bits fall on the flags of the CAN id, one of them is RTR.
ExtId(h) ==
  (h[1] % 32) * 2^24 + (h[2] - 8 * ((h[2] \div 8) % 2)) * 2^16 + h[3] * 2^8 + h[4]
ExtRtr(h) == (h[1] \div 64) % 2 = 1

\* stdframe and isRTR are set for the string and never go back.
Flags(texts, n) ==
  [std |-> \A m \in 1..n : texts[m].letter = "S",
   rtr |-> \E m \in 1..n : texts[m].type = "R" /\ texts[m].fits]

Found(x, flags) == x.fits /\ Len(x.header) = IF flags.std THEN 2 ELSE 4

Read(x, flags) ==
  [eff |-> ~flags.std,
   rtr |-> flags.rtr \/ (~flags.std /\ ExtRtr(x.header)),
   id |-> IF flags.std THEN StdId(x.header) ELSE ExtId(x.header),
   data |-> x.data]

\* What the reader makes of text n: no frame, or one.
Parse(texts, n) ==
  LET flags == Flags(texts, n) IN
    IF Found(texts[n], flags) THEN {Read(texts[n], flags)} ELSE {}

-----------------------------------------------------------------------------
(* The protocol, as the comment at the head of tcpClientGridConnect.cpp has *)
(* it: a standard header is left justified, an extended one is the 11 upper *)
(* bits of the id, 0, 1, 0 and the 18 lower bits.                          *)

Bytes4(sid, eid) ==
  <<sid \div 8, (sid % 8) * 32 + 8 + eid \div 2^16, (eid \div 2^8) % 256, eid % 256>>

Encode(f) ==
  [letter |-> IF f.eff THEN "X" ELSE "S",
   type |-> IF f.rtr THEN "R" ELSE "N",
   header |-> IF f.eff THEN Bytes4(f.id \div 2^18, f.id % 2^18)
                       ELSE <<f.id \div 8, (f.id % 8) * 32>>,
   data |-> f.data, fits |-> TRUE]

=============================================================================
