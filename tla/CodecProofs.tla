---------------------------- MODULE CodecProofs ----------------------------
(***************************************************************************)
(* Proofs about the two encodings of CANPiWi: GridLink, the frames as the  *)
(* texts of a GridConnect program, and NodeVariables, the settings as the  *)
(* node variables of a configuration tool.                                 *)
(*                                                                         *)
(* GridLink: the arithmetic of the headers first (what the daemon reads    *)
(* from the header the protocol prescribes is the id it stands for, and    *)
(* the header it writes for a standard id is that one), then that it is    *)
(* carried through recv, the queue and the parser, for every frame, every  *)
(* cut and every order of texts in a string.                               *)
(*                                                                         *)
(* NodeVariables: what is read back from the bytes of a field is what was  *)
(* written into it, for every value that fits, and a change of one setting *)
(* is seen in no other; then that a set of variables saves what users      *)
(* mean, through any number of sets, changes of the page and restarts.     *)
(***************************************************************************)
EXTENDS GridLink, NodeVariables, FiniteSetTheorems, SequenceTheorems,
        WellFoundedInduction, TLAPS

Frame == CanFrame(Seq(Byte))

\* What a text of the program is made of, whole or cut.
Text ==
  {x \in [letter : {"S", "X"}, type : {"N", "R"}, header : Seq(Byte),
          data : Seq(Byte), fits : BOOLEAN] :
     Len(x.header) = IF x.letter = "S" THEN 2 ELSE 4}

-----------------------------------------------------------------------------
(* Headers.                                                                *)

LEMMA IsByte == \A n : n \in Byte <=> n \in Nat /\ n < 256
  BY SMT DEF Byte

LEMMA FrameIs ==
  ASSUME NEW f \in Frame
  PROVE  /\ f \in [eff : BOOLEAN, rtr : BOOLEAN, id : Nat, data : Seq(Byte)]
         /\ f.eff => f.id < 536870912
         /\ ~f.eff => f.id < 2048
  BY SMT DEF Frame, CanFrame

LEMMA ParametersAreFrames ==
  /\ \A f \in Sendable : f \in Frame
  /\ \A f \in Showable : f \in Frame
  BY LinkAssumption, SMT DEF Frame, Byte

\* A standard header is read as the id it was made of.
LEMMA StdIdOfHeader ==
  ASSUME NEW id \in Nat, id < 2048
  PROVE  /\ StdId(<<id \div 8, (id % 8) * 32>>) = id
         /\ StdHeader(id) = <<id \div 8, (id % 8) * 32>>
<1>1. ((id \div 8) * 256 + (id % 8) * 32) \div 32 = id
  BY SMT
<1>2. (id * 32) % 256 = (id % 8) * 32
  BY SMT
<1> QED
  BY <1>1, <1>2, SMT DEF StdId, StdHeader

\* A number of up to 18 bits, byte by byte.
LEMMA BytesOf ==
  ASSUME NEW n \in Nat, n < 262144
  PROVE  /\ n \div 65536 \in Nat /\ n \div 65536 < 4
         /\ (n \div 256) % 256 \in Byte /\ n % 256 \in Byte
         /\ (n \div 65536) * 65536 + ((n \div 256) % 256) * 256 + (n % 256) = n
<1>1. n \div 65536 \in Nat /\ n \div 65536 < 4
  BY SMT
<1>2. (n \div 256) % 256 \in Nat /\ (n \div 256) % 256 < 256
  BY SMT
<1>3. n % 256 \in Nat /\ n % 256 < 256
  BY SMT
<1>4. (n \div 65536) * 65536 + ((n \div 256) % 256) * 256 + (n % 256) = n
  BY SMT
<1> QED
  BY <1>1, <1>2, <1>3, <1>4, IsByte, SMT

\* Bit 19, which the reader takes out of an extended header, is the 1 in the
\* 0, 1, 0 that the protocol puts there.
LEMMA ExtIdOfHeader ==
  ASSUME NEW id \in Nat, id < 262144
  PROVE  /\ ExtId(Bytes4(id \div 262144, id % 262144)) = id
         /\ ~ExtRtr(Bytes4(id \div 262144, id % 262144))
<1>1. id \div 262144 = 0 /\ id % 262144 = id
  BY SMT
<1>2. PICK a \in Nat : a < 4 /\ a = id \div 65536
  BY BytesOf, SMT
<1>3. PICK b \in Nat, c \in Nat :
        /\ b = (id \div 256) % 256 /\ c = id % 256
        /\ a * 65536 + b * 256 + c = id
  BY <1>2, BytesOf, IsByte, SMT
<1>4. Bytes4(id \div 262144, id % 262144) = <<0, 8 + a, b, c>>
  BY <1>1, <1>2, <1>3, SMT DEF Bytes4
<1>5. (8 + a) - 8 * (((8 + a) \div 8) % 2) = a
  BY <1>2, SMT
<1>6. ExtId(<<0, 8 + a, b, c>>) = id
  BY <1>3, <1>5, SMT DEF ExtId
<1>7. ~ExtRtr(<<0, 8 + a, b, c>>)
  BY SMT DEF ExtRtr
<1> QED
  BY <1>4, <1>6, <1>7, SMT

LEMMA ExtHeaderBytes ==
  ASSUME NEW id \in Nat, id < 536870912
  PROVE  /\ Bytes4(id \div 262144, id % 262144) \in Seq(Byte)
         /\ Len(Bytes4(id \div 262144, id % 262144)) = 4
<1>1. PICK sid \in Nat, eid \in Nat :
        /\ sid = id \div 262144 /\ sid < 2048
        /\ eid = id % 262144 /\ eid < 262144
  BY SMT
<1>2. sid \div 8 \in Nat /\ sid \div 8 < 256
  BY <1>1, SMT
<1>3. PICK a \in Nat : a = eid \div 65536 /\ a < 4
  BY <1>1, BytesOf, SMT
<1>4. (sid % 8) * 32 + 8 + a \in Nat /\ (sid % 8) * 32 + 8 + a < 256
  BY <1>1, <1>3, SMT
<1>5. /\ sid \div 8 \in Byte /\ (sid % 8) * 32 + 8 + a \in Byte
      /\ (eid \div 256) % 256 \in Byte /\ eid % 256 \in Byte
  BY <1>1, <1>2, <1>4, BytesOf, IsByte, SMT
<1>6. Bytes4(sid, eid) =
        <<sid \div 8, (sid % 8) * 32 + 8 + a, (eid \div 256) % 256, eid % 256>>
  BY <1>1, <1>3, SMT DEF Bytes4
<1>7. Bytes4(sid, eid) \in Seq(Byte) /\ Len(Bytes4(sid, eid)) = 4
  BY <1>5, <1>6, SMT
<1> QED
  BY <1>1, <1>7, SMT

LEMMA TextOf ==
  ASSUME NEW l \in {"S", "X"}, NEW t \in {"N", "R"}, NEW h \in Seq(Byte),
         NEW d \in Seq(Byte), NEW b \in BOOLEAN, Len(h) = IF l = "S" THEN 2 ELSE 4
  PROVE  [letter |-> l, type |-> t, header |-> h, data |-> d, fits |-> b] \in Text
<1> DEFINE x == [letter |-> l, type |-> t, header |-> h, data |-> d, fits |-> b]
<1>1. x \in [letter : {"S", "X"}, type : {"N", "R"}, header : Seq(Byte),
            data : Seq(Byte), fits : BOOLEAN]
  BY Zenon
<1>2. x.header = h /\ x.letter = l
  BY Zenon
<1> HIDE DEF x
<1>3. Len(x.header) = IF x.letter = "S" THEN 2 ELSE 4
  BY <1>2, Zenon
<1> QED
  BY <1>1, <1>3, Zenon DEF Text, x

LEMMA PairIs ==
  ASSUME NEW a \in Byte, NEW b \in Byte
  PROVE  <<a, b>> \in Seq(Byte) /\ Len(<<a, b>>) = 2
  BY SMT

\* What the protocol has for a frame is a text with both letters in it.
LEMMA EncodeIsText ==
  ASSUME NEW f \in Frame
  PROVE  Encode(f) \in Text /\ Encode(f).fits
<1>1. /\ f \in [eff : BOOLEAN, rtr : BOOLEAN, id : Nat, data : Seq(Byte)]
      /\ f.eff => f.id < 536870912
      /\ ~f.eff => f.id < 2048
  BY FrameIs, SMT
<1>2. PICK id \in Nat : id = f.id
  BY <1>1, SMT
<1>3. f.data \in Seq(Byte) /\ (IF f.rtr THEN "R" ELSE "N") \in {"N", "R"}
  BY <1>1, SMT
<1>4. CASE f.eff
  <2> DEFINE h == Bytes4(id \div 262144, id % 262144)
  <2>1. h \in Seq(Byte) /\ Len(h) = 4
    BY <1>1, <1>2, <1>4, ExtHeaderBytes, SMT
  <2>2. Encode(f) = [letter |-> "X", type |-> IF f.rtr THEN "R" ELSE "N",
                     header |-> h, data |-> f.data, fits |-> TRUE]
    BY <1>2, <1>4, <2>1, SMT DEF Encode
  <2> HIDE DEF h
  <2>3. Len(h) = IF "X" = "S" THEN 2 ELSE 4
    BY <2>1, SMT
  <2>4. Encode(f) \in Text
    BY <1>3, <2>1, <2>2, <2>3, TextOf, Zenon
  <2> QED
    BY <2>2, <2>4, SMT
<1>5. CASE ~f.eff
  <2> DEFINE h == <<id \div 8, (id % 8) * 32>>
  <2>1. id < 2048
    BY <1>1, <1>2, <1>5, SMT
  <2>2. id \div 8 \in Nat /\ id \div 8 < 256
    BY <2>1, SMT
  <2>3. (id % 8) * 32 \in Nat /\ (id % 8) * 32 < 256
    BY <2>1, SMT
  <2>4. id \div 8 \in Byte /\ (id % 8) * 32 \in Byte
    BY <2>2, <2>3, IsByte, SMT
  <2>5. h \in Seq(Byte) /\ Len(h) = 2
    BY <2>4, PairIs, SMT
  <2>6. Encode(f) = [letter |-> "S", type |-> IF f.rtr THEN "R" ELSE "N",
                     header |-> h, data |-> f.data, fits |-> TRUE]
    BY <1>2, <1>5, SMT DEF Encode
  <2> HIDE DEF h
  <2>7. Len(h) = IF "S" = "S" THEN 2 ELSE 4
    BY <2>5, SMT
  <2>8. Encode(f) \in Text
    BY <1>3, <2>5, <2>6, <2>7, TextOf, Zenon
  <2> QED
    BY <2>6, <2>8, SMT
<1> QED
  BY <1>4, <1>5, SMT

-----------------------------------------------------------------------------
(* The parser.                                                             *)

\* The letters that stand in a string before text k.
Before(texts, k) == UNION {{texts[j].letter, texts[j].type} : j \in 1..(k - 1)}

LEMMA StdIdInRange ==
  ASSUME NEW h \in Seq(Byte), Len(h) = 2
  PROVE  StdId(h) \in Nat /\ StdId(h) < 2048
<1>1. PICK a \in Nat, b \in Nat : a = h[1] /\ b = h[2] /\ a < 256 /\ b < 256
  <2>1. h[1] \in Byte /\ h[2] \in Byte
    BY SMT
  <2> QED
    BY <2>1, IsByte, SMT
<1>2. (a * 256 + b) \div 32 \in Nat /\ (a * 256 + b) \div 32 < 2048
  BY <1>1, SMT
<1> QED
  BY <1>1, <1>2, SMT DEF StdId

LEMMA Sum29 ==
  ASSUME NEW a \in Nat, NEW b \in Nat, NEW c \in Nat, NEW d \in Nat,
         a < 32, b < 256, c < 256, d < 256
  PROVE  a * 16777216 + b * 65536 + c * 256 + d < 536870912
  BY SMT

LEMMA ExtIdInRange ==
  ASSUME NEW h \in Seq(Byte), Len(h) = 4
  PROVE  ExtId(h) \in Nat /\ ExtId(h) < 536870912
<1>1. PICK a \in Nat, b \in Nat, c \in Nat, d \in Nat :
        /\ a = h[1] /\ b = h[2] /\ c = h[3] /\ d = h[4]
        /\ a < 256 /\ b < 256 /\ c < 256 /\ d < 256
  <2>1. h[1] \in Byte /\ h[2] \in Byte /\ h[3] \in Byte /\ h[4] \in Byte
    BY SMT
  <2> QED
    BY <2>1, IsByte, SMT
<1>2. PICK b1 \in Nat : b1 = b - 8 * ((b \div 8) % 2) /\ b1 < 256
  <2>1. b - 8 * ((b \div 8) % 2) \in Nat /\ b - 8 * ((b \div 8) % 2) < 256
    BY <1>1, SMT
  <2> QED
    BY <2>1, SMT
<1>3. PICK a1 \in Nat : a1 = a % 32 /\ a1 < 32
  BY <1>1, SMT
<1>4. ExtId(h) = a1 * 16777216 + b1 * 65536 + c * 256 + d
  BY <1>1, <1>2, <1>3, SMT DEF ExtId
<1>5. a1 * 16777216 + b1 * 65536 + c * 256 + d < 536870912
  <2>1. a1 < 32 /\ b1 < 256 /\ c < 256 /\ d < 256
    BY <1>1, <1>2, <1>3, SMT
  <2> QED
    BY <2>1, Sum29, SMT
<1> QED
  BY <1>4, <1>5, SMT

LEMMA ReadStd ==
  ASSUME NEW x, NEW flags, flags.std = TRUE
  PROVE  Read(x, flags) = [eff |-> FALSE, rtr |-> (flags.rtr \/ FALSE),
                           id |-> StdId(x.header), data |-> x.data]
  BY Zenon DEF Read

LEMMA ReadExt ==
  ASSUME NEW x, NEW flags, flags.std = FALSE
  PROVE  Read(x, flags) = [eff |-> TRUE, rtr |-> (flags.rtr \/ ExtRtr(x.header)),
                           id |-> ExtId(x.header), data |-> x.data]
  BY Zenon DEF Read

LEMMA FrameOf ==
  ASSUME NEW r \in BOOLEAN, NEW id \in Nat, NEW d \in Seq(Byte)
  PROVE  /\ id < 2^11 => [eff |-> FALSE, rtr |-> r, id |-> id, data |-> d] \in Frame
         /\ id < 2^29 => [eff |-> TRUE, rtr |-> r, id |-> id, data |-> d] \in Frame
<1>1. ASSUME NEW e \in BOOLEAN, id < IF e THEN 2^29 ELSE 2^11
      PROVE  [eff |-> e, rtr |-> r, id |-> id, data |-> d] \in Frame
  <2> DEFINE f == [eff |-> e, rtr |-> r, id |-> id, data |-> d]
  <2>1. f \in [eff : BOOLEAN, rtr : BOOLEAN, id : Nat, data : Seq(Byte)]
    BY SMT
  <2>2. f.id < IF f.eff THEN 2^29 ELSE 2^11
    BY <1>1, SMT
  <2> HIDE DEF f
  <2>3. f \in Frame
    BY <2>1, <2>2, SMT DEF Frame, CanFrame
  <2> QED
    BY <2>3 DEF f
<1> QED
  BY <1>1, Zenon

\* Whatever the reader makes of a text is one frame or none.
LEMMA ParseTyped ==
  ASSUME NEW texts, NEW k, texts[k] \in Text
  PROVE  Parse(texts, k) \subseteq Frame /\ Cardinality(Parse(texts, k)) <= 1
<1> DEFINE flags == Flags(texts, k)
           x == texts[k]
<1>1. flags.std \in BOOLEAN /\ flags.rtr \in BOOLEAN
  BY SMT DEF Flags
<1>2. x.header \in Seq(Byte) /\ x.data \in Seq(Byte)
  BY SMT DEF Text
<1> HIDE DEF flags, x
<1>3. ASSUME Found(x, flags)
      PROVE  Read(x, flags) \in Frame
  <2>1. CASE flags.std = TRUE
    <3> DEFINE r == flags.rtr \/ FALSE
               id == StdId(x.header)
    <3>1. id \in Nat /\ id < 2^11
      <4>1. Len(x.header) = 2
        BY <1>3, <2>1, Zenon DEF Found
      <4> QED
        BY <1>2, <4>1, StdIdInRange, SMT
    <3>2. r \in BOOLEAN
      BY Zenon
    <3>3. Read(x, flags) = [eff |-> FALSE, rtr |-> r, id |-> id, data |-> x.data]
      BY <2>1, ReadStd, Zenon
    <3> HIDE DEF r, id
    <3>4. [eff |-> FALSE, rtr |-> r, id |-> id, data |-> x.data] \in Frame
      BY <1>2, <3>1, <3>2, FrameOf, Zenon
    <3> QED
      BY <3>3, <3>4, Zenon
  <2>2. CASE flags.std = FALSE
    <3> DEFINE r == flags.rtr \/ ExtRtr(x.header)
               id == ExtId(x.header)
    <3>1. id \in Nat /\ id < 2^29
      <4>1. Len(x.header) = 4
        BY <1>3, <2>2, Zenon DEF Found
      <4> QED
        BY <1>2, <4>1, ExtIdInRange, SMT
    <3>2. r \in BOOLEAN
      BY Zenon
    <3>3. Read(x, flags) = [eff |-> TRUE, rtr |-> r, id |-> id, data |-> x.data]
      BY <2>2, ReadExt, Zenon
    <3> HIDE DEF r, id
    <3>4. [eff |-> TRUE, rtr |-> r, id |-> id, data |-> x.data] \in Frame
      BY <1>2, <3>1, <3>2, FrameOf, Zenon
    <3> QED
      BY <3>3, <3>4, Zenon
  <2> QED
    BY <1>1, <2>1, <2>2, Zenon
<1>4. Parse(texts, k) = IF Found(x, flags) THEN {Read(x, flags)} ELSE {}
  BY SMT DEF Parse, flags, x
<1>5. Cardinality({}) = 0 /\ Cardinality({Read(x, flags)}) = 1
  BY FS_EmptySet, FS_Singleton, Zenon
<1> QED
  BY <1>3, <1>4, <1>5, SMT

\* The header of a frame that the daemon leaves alone, read again.
LEMMA HeaderReadBack ==
  ASSUME NEW f \in Frame, Plain(f)
  PROVE  /\ ~f.eff => Len(Encode(f).header) = 2 /\ StdId(Encode(f).header) = f.id
         /\ f.eff => /\ Len(Encode(f).header) = 4 /\ ExtId(Encode(f).header) = f.id
                     /\ ~ExtRtr(Encode(f).header)
<1>1. PICK id \in Nat : id = f.id
  BY FrameIs, SMT
<1>2. CASE f.eff
  <2>1. id < 262144
    BY <1>1, <1>2, SMT DEF Plain
  <2>2. Encode(f).header = Bytes4(id \div 262144, id % 262144)
    BY <1>1, <1>2, SMT DEF Encode
  <2>3. Len(Encode(f).header) = 4
    BY <2>1, <2>2, ExtHeaderBytes, SMT
  <2> QED
    BY <1>1, <1>2, <2>1, <2>2, <2>3, ExtIdOfHeader, SMT
<1>3. CASE ~f.eff
  <2>1. id < 2048
    BY <1>1, <1>3, FrameIs, SMT
  <2>2. Encode(f).header = <<id \div 8, (id % 8) * 32>>
    BY <1>1, <1>3, SMT DEF Encode
  <2> QED
    BY <1>1, <1>3, <2>1, <2>2, StdIdOfHeader, SMT
<1> QED
  BY <1>2, <1>3, Zenon

\* A whole text becomes its frame, if no remote frame stands before it in the
\* string, and no extended one before a standard one.
LEMMA WholeText ==
  ASSUME NEW texts, NEW k \in Nat, k >= 1, \A m \in 1..k : texts[m] \in Text,
         NEW f \in Frame, texts[k] = Encode(f), Plain(f),
         "R" \notin Before(texts, k), f.eff \/ "X" \notin Before(texts, k)
  PROVE  Parse(texts, k) = {f}
<1>1. f = [eff |-> f.eff, rtr |-> f.rtr, id |-> f.id, data |-> f.data]
      /\ f.eff \in BOOLEAN /\ f.rtr \in BOOLEAN
  <2>1. f \in [eff : BOOLEAN, rtr : BOOLEAN, id : Nat, data : Seq(Byte)]
    BY FrameIs, SMT
  <2> QED
    BY <2>1, Zenon
<1>2. \A m \in 1..k : m # k =>
        texts[m].letter \in Before(texts, k) /\ texts[m].type \in Before(texts, k)
  <2>1. \A m \in 1..k : m # k => m \in 1..(k - 1)
    BY SMT
  <2>2. ASSUME NEW j \in 1..(k - 1)
        PROVE  texts[j].letter \in Before(texts, k) /\ texts[j].type \in Before(texts, k)
    BY SMT DEF Before
  <2> QED
    BY <2>1, <2>2, Zenon
<1>3. \A m \in 1..k : texts[m].letter \in {"S", "X"} /\ texts[m].type \in {"N", "R"}
  BY Zenon DEF Text
<1>4. /\ Encode(f).letter = IF f.eff THEN "X" ELSE "S"
      /\ Encode(f).type = IF f.rtr THEN "R" ELSE "N"
      /\ Encode(f).data = f.data /\ Encode(f).fits = TRUE
  BY Zenon DEF Encode
<1>5. k \in 1..k
  BY SMT
<1> DEFINE std == \A m \in 1..k : texts[m].letter = "S"
           rtr == \E m \in 1..k : texts[m].type = "R" /\ texts[m].fits
           flags == [std |-> std, rtr |-> rtr]
<1>6. std <=> ~f.eff
  BY <1>2, <1>3, <1>4, <1>5, SMT
<1>7. rtr <=> f.rtr
  BY <1>2, <1>3, <1>4, <1>5, SMT
<1>8. std \in BOOLEAN /\ rtr \in BOOLEAN /\ Flags(texts, k) = flags
  BY Zenon DEF Flags
<1> HIDE DEF std, rtr
<1>9. flags.std = std /\ flags.rtr = rtr
  BY Zenon
<1> HIDE DEF flags
<1>10. std = ~f.eff /\ rtr = f.rtr
  BY <1>1, <1>6, <1>7, <1>8, Zenon
<1>11. Read(texts[k], flags) = f
  <2>1. CASE f.eff
    <3>1. flags.std = FALSE /\ f.eff = TRUE
      BY <1>1, <1>9, <1>10, <2>1, Zenon
    <3>2. ExtId(texts[k].header) = f.id /\ ~ExtRtr(texts[k].header)
      BY <1>8, <1>10, <2>1, HeaderReadBack, Zenon
    <3>3. (flags.rtr \/ ExtRtr(texts[k].header)) = f.rtr
      BY <1>1, <1>9, <1>10, <3>2, Zenon
    <3>4. texts[k].data = f.data
      BY <1>4, Zenon
    <3>5. Read(texts[k], flags) =
            [eff |-> TRUE, rtr |-> (flags.rtr \/ ExtRtr(texts[k].header)),
             id |-> ExtId(texts[k].header), data |-> texts[k].data]
      BY <3>1, ReadExt, Zenon
    <3> QED
      BY <1>1, <3>1, <3>2, <3>3, <3>4, <3>5, Zenon
  <2>2. CASE ~f.eff
    <3>1. flags.std = TRUE /\ f.eff = FALSE
      BY <1>1, <1>9, <1>10, <2>2, Zenon
    <3>2. StdId(texts[k].header) = f.id
      BY <1>8, <1>10, <2>2, HeaderReadBack, Zenon
    <3>3. (flags.rtr \/ FALSE) = f.rtr
      BY <1>1, <1>9, <1>10, Zenon
    <3>4. texts[k].data = f.data
      BY <1>4, Zenon
    <3>5. Read(texts[k], flags) =
            [eff |-> FALSE, rtr |-> (flags.rtr \/ FALSE),
             id |-> StdId(texts[k].header), data |-> texts[k].data]
      BY <3>1, ReadStd, Zenon
    <3> QED
      BY <1>1, <3>1, <3>2, <3>3, <3>4, <3>5, Zenon
  <2> QED
    BY <2>1, <2>2, Zenon
<1>12. Found(texts[k], flags)
  <2>1. texts[k].fits /\ Len(texts[k].header) = IF std THEN 2 ELSE 4
    BY <1>4, <1>8, <1>10, HeaderReadBack, Zenon
  <2> QED
    BY <1>9, <2>1, Zenon DEF Found
<1> QED
  BY <1>8, <1>11, <1>12, Zenon DEF Parse

-----------------------------------------------------------------------------
(* recv, the queue and the parser.                                         *)

PieceType == [n : Nat, text : Text, whole : BOOLEAN]
HeardType == [n : Nat, whole : BOOLEAN, before : SUBSET {"S", "X", "N", "R"},
              frames : SUBSET Frame]

\* A piece of a string is of a text that recv has begun to return, and one
\* that is whole is what the program sent.
Genuine(p) == p.n \in 1..taken /\ (p.whole => p.text = Encode(sent[p.n]))

\* What was made of a text is its frame, unless the code forgives nothing.
Right(h) ==
  /\ h.n \in 1..taken /\ Cardinality(h.frames) <= 1
  /\ h.whole /\ Plain(sent[h.n]) /\ "R" \notin h.before
       /\ (sent[h.n].eff \/ "X" \notin h.before)
     => h.frames = {sent[h.n]}

InboxGenuine == \A i \in DOMAIN inbox : \A j \in DOMAIN inbox[i] : Genuine(inbox[i][j])

LinkInv ==
  /\ up \in BOOLEAN
  /\ sent \in Seq(Sendable) /\ Len(sent) <= MaxSent
  /\ taken \in 0..Len(sent)
  /\ inbox \in Seq(Seq(PieceType))
  /\ InboxGenuine
  /\ heard \in Seq(HeardType)
  /\ \A i \in DOMAIN heard : Right(heard[i])
  /\ \A s \in shown : s.frame \in Showable /\ s.text = Format(s.frame)

LEMMA InvImpliesProperties ==
  LinkInv => LinkTypeOK /\ TextsBecomeTheirFrames /\ ShownAsProtocol
<1> SUFFICES ASSUME LinkInv PROVE LinkTypeOK /\ TextsBecomeTheirFrames /\ ShownAsProtocol
  OBVIOUS
<1>1. LinkTypeOK
  <2>1. \A i \in DOMAIN inbox : \A j \in DOMAIN inbox[i] :
          inbox[i][j].n \in 1..taken /\ inbox[i][j].whole \in BOOLEAN
    <3>1. ASSUME NEW i \in DOMAIN inbox, NEW j \in DOMAIN inbox[i]
          PROVE  inbox[i][j].n \in 1..taken /\ inbox[i][j].whole \in BOOLEAN
      <4>1. inbox[i] \in Seq(PieceType)
        BY SMT DEF LinkInv
      <4>2. inbox[i][j] \in PieceType
        BY <4>1, SMT
      <4> QED
        BY <4>2, Zenon DEF LinkInv, InboxGenuine, Genuine, PieceType
    <3> QED
      BY <3>1, Zenon
  <2>2. \A i \in DOMAIN heard :
          /\ heard[i].n \in 1..taken
          /\ heard[i].frames \subseteq Frame /\ Cardinality(heard[i].frames) <= 1
    <3>1. ASSUME NEW i \in DOMAIN heard PROVE heard[i] \in HeardType
      BY SMT DEF LinkInv
    <3> QED
      BY <3>1, Zenon DEF LinkInv, Right, HeardType
  <2> QED
    BY <2>1, <2>2, Zenon DEF LinkInv, LinkTypeOK, Frame, Byte
<1>2. TextsBecomeTheirFrames
  BY Zenon DEF LinkInv, Right, TextsBecomeTheirFrames
<1>3. ShownAsProtocol
  <2>1. ASSUME NEW f \in Frame, ~f.eff PROVE Format(f) = Encode(f)
    <3>1. StdHeader(f.id) = <<f.id \div 8, (f.id % 8) * 32>>
      <4>1. PICK id \in Nat : id = f.id /\ id < 2048
        BY <2>1, FrameIs, SMT
      <4>2. StdHeader(id) = <<id \div 8, (id % 8) * 32>>
        <5>1. (id * 32) % 256 = (id % 8) * 32
          BY <4>1, SMT
        <5> QED
          BY <5>1, Zenon DEF StdHeader
      <4> QED
        BY <4>1, <4>2, SMT
    <3> QED
      BY <2>1, <3>1, Zenon DEF Format, Encode
  <2> QED
    BY <2>1, ParametersAreFrames, Zenon DEF LinkInv, ShownAsProtocol
<1> QED
  BY <1>1, <1>2, <1>3, Zenon

LEMMA InitLinkInv == LinkInit => LinkInv
<1> SUFFICES ASSUME LinkInit PROVE LinkInv
  OBVIOUS
<1>1. sent = <<>> /\ taken = 0 /\ inbox = <<>> /\ heard = <<>> /\ shown = {} /\ up = TRUE
  BY Zenon DEF LinkInit
<1> QED
  BY <1>1, LinkAssumption, SMT DEF LinkInv, InboxGenuine

\* A text that was cut is a text still.
LEMMA CutIsText ==
  ASSUME NEW x \in Text, NEW place \in CutPlaces(x)
  PROVE  CutAt(x, place) \in Text
<1>1. /\ x \in [letter : {"S", "X"}, type : {"N", "R"}, header : Seq(Byte),
                data : Seq(Byte), fits : BOOLEAN]
      /\ Len(x.header) = IF x.letter = "S" THEN 2 ELSE 4
  BY Zenon DEF Text
<1>2. ASSUME NEW d \in Seq(Byte), NEW b \in BOOLEAN
      PROVE  [letter |-> x.letter, type |-> x.type, header |-> x.header,
              data |-> d, fits |-> b] \in Text
  BY <1>1, TextOf, Zenon
<1>3. CASE place = 0
  <2>1. CutAt(x, place) = [letter |-> x.letter, type |-> x.type, header |-> x.header,
                           data |-> x.data, fits |-> FALSE]
    BY <1>1, <1>3, Zenon DEF CutAt
  <2> QED
    BY <1>1, <1>2, <2>1, Zenon
<1>4. CASE place # 0
  <2> DEFINE k == place - 1
             full == SubSeq(x.data, 1, k \div 2)
             d == IF k % 2 = 0 THEN full ELSE Append(full, x.data[k \div 2 + 1] \div 16)
  <2>1. x.data \in Seq(Byte)
    BY <1>1, Zenon
  <2>2. k \in Nat /\ k <= 2 * Len(x.data)
    BY <1>4, <2>1, SMT DEF CutPlaces
  <2>3. k \div 2 \in Nat /\ k \div 2 <= Len(x.data)
    BY <2>1, <2>2, SMT
  <2>4. full \in Seq(Byte)
    BY <2>1, <2>3, SMT
  <2>5. d \in Seq(Byte) => CutAt(x, place) \in Text
    <3>1. CutAt(x, place) = [x EXCEPT !.data = d]
      BY <1>4, SMT DEF CutAt
    <3> HIDE DEF d
    <3>2. CutAt(x, place) = [letter |-> x.letter, type |-> x.type, header |-> x.header,
                             data |-> d, fits |-> x.fits]
      BY <1>1, <3>1, Zenon
    <3> QED
      BY <1>1, <1>2, <3>2, Zenon
  <2>6. CASE k % 2 # 0
    <3>1. k \div 2 + 1 \in 1..Len(x.data)
      BY <2>1, <2>2, <2>6, SMT
    <3>2. PICK b \in Nat : b < 256 /\ b = x.data[k \div 2 + 1]
      <4>1. x.data[k \div 2 + 1] \in Byte
        BY <2>1, <3>1, SMT
      <4> QED
        BY <4>1, IsByte, SMT
    <3>3. b \div 16 \in Byte
      <4>1. b \div 16 \in Nat /\ b \div 16 < 256
        BY <3>2, SMT
      <4> QED
        BY <4>1, IsByte, SMT
    <3>4. d \in Seq(Byte)
      BY <2>4, <2>6, <3>2, <3>3, SMT
    <3> QED
      BY <2>5, <3>4, Zenon
  <2>7. CASE k % 2 = 0
    BY <2>4, <2>5, <2>7, Zenon
  <2> QED
    BY <2>6, <2>7, Zenon
<1> QED
  BY <1>3, <1>4, Zenon

LEMMA SendKeeps ==
  ASSUME LinkInv, NEW f \in Sendable, Send(f)
  PROVE  LinkInv'
<1>1. /\ sent' = Append(sent, f) /\ sent' \in Seq(Sendable) /\ Len(sent') = Len(sent) + 1
      /\ Len(sent') <= MaxSent
      /\ UNCHANGED <<up, taken, inbox, heard, shown>>
  <2>1. /\ sent' = Append(sent, f) /\ sent \in Seq(Sendable) /\ Len(sent) < MaxSent
        /\ UNCHANGED <<up, taken, inbox, heard, shown>>
    BY Zenon DEF LinkInv, Send
  <2>2. MaxSent \in Nat
    BY LinkAssumption, Zenon
  <2> QED
    BY <2>1, <2>2, SMT
<1>2. \A n \in 1..taken : sent'[n] = sent[n]
  BY <1>1, SMT DEF LinkInv
<1>3. taken' \in 0..Len(sent')
  BY <1>1, SMT DEF LinkInv
<1>4. InboxGenuine'
  <2>1. \A p : Genuine(p) => Genuine(p)'
    BY <1>1, <1>2, Zenon DEF Genuine
  <2> QED
    BY <1>1, <2>1, Zenon DEF InboxGenuine, LinkInv
<1>5. \A h : Right(h) => Right(h)'
  BY <1>1, <1>2, Zenon DEF Right
<1> QED
  BY <1>1, <1>3, <1>4, <1>5, Zenon DEF LinkInv

\* The strings that recv returns are made of pieces of texts that were sent.
LEMMA RecvKeeps ==
  ASSUME LinkInv, NEW m \in 1..MaxSent, Recv(m)
  PROVE  LinkInv'
<1>1. /\ taken \in Nat /\ m \in Nat /\ m >= 1 /\ taken + m <= Len(sent)
      /\ taken' = taken + m
      /\ UNCHANGED <<up, sent, heard, shown>>
  BY SMT DEF LinkInv, Recv
<1> DEFINE Sound(p) == p.n \in 1..(taken + m) /\ (p.whole => p.text = Encode(sent[p.n]))
<1>2. ASSUME NEW n \in Nat, n >= 1, n <= taken + m, NEW x \in Text
      PROVE  Piece(n, x) \in PieceType /\ Sound(Piece(n, x))
  <2>1. n \in 1..(taken + m)
    BY <1>1, <1>2, SMT
  <2>2. Piece(n, x).n = n /\ Piece(n, x).text = x /\ Piece(n, x).whole = (x = Encode(sent[n]))
    BY Zenon DEF Piece
  <2>3. Piece(n, x).whole => x = Encode(sent[n])
    BY <2>2, Zenon
  <2>4. (x = Encode(sent[n])) \in BOOLEAN
    BY Zenon
  <2>5. Piece(n, x) \in PieceType
    BY <2>4, Zenon DEF Piece, PieceType
  <2>6. Sound(Piece(n, x))
    BY <2>1, <2>2, <2>3, Zenon
  <2> QED
    BY <2>5, <2>6, Zenon
<1>3. \A p : Sound(p) => Genuine(p)'
  BY <1>1, Zenon DEF Genuine
<1>4. \A p : Genuine(p) => Sound(p)
  <2>1. 1..taken \subseteq 1..(taken + m)
    BY <1>1, SMT
  <2> QED
    BY <2>1, Zenon DEF Genuine
<1> HIDE DEF Sound
<1>5. ASSUME NEW n \in Nat, n >= 1, n <= taken + m
      PROVE  Encode(sent[n]) \in Text
  <2>1. sent[n] \in Sendable
    BY <1>1, <1>5, SMT DEF LinkInv
  <2> QED
    BY <2>1, ParametersAreFrames, EncodeIsText, Zenon
<1>6. ASSUME NEW l \in Nat, l <= m
      PROVE  /\ Pieces(l) \in Seq(PieceType)
             /\ \A j \in DOMAIN Pieces(l) : Sound(Pieces(l)[j])
  <2> DEFINE P(j) == Piece(taken + j, Encode(sent[taken + j]))
  <2>1. ASSUME NEW j \in 1..l PROVE P(j) \in PieceType /\ Sound(P(j))
    <3>1. taken + j \in Nat /\ taken + j >= 1 /\ taken + j <= taken + m
      BY <1>1, <1>6, SMT
    <3> QED
      BY <1>2, <1>5, <3>1, Zenon
  <2>2. Pieces(l) = [j \in 1..l |-> P(j)]
    BY Zenon DEF Pieces
  <2> HIDE DEF P
  <2>3. Pieces(l) \in Seq(PieceType)
    BY <2>1, <2>2, SMT
  <2>4. DOMAIN Pieces(l) = 1..l /\ \A j \in 1..l : Pieces(l)[j] = P(j)
    BY <2>2, Zenon
  <2> QED
    BY <2>1, <2>3, <2>4, Zenon
<1>7. PICK string : /\ inbox' = Append(inbox, string)
                    /\ string \in Seq(PieceType)
                    /\ \A j \in DOMAIN string : Sound(string[j])
  <2> DEFINE last == Encode(sent[taken + m])
  <2>1. taken + m \in Nat /\ taken + m >= 1 /\ taken + m <= taken + m
        /\ m \in Nat /\ m <= m /\ m - 1 \in Nat /\ m - 1 <= m
    BY <1>1, SMT
  <2>2. last \in Text
    BY <1>5, <2>1, Zenon
  <2>3. CASE inbox' = Append(inbox, Pieces(m))
    BY <1>6, <2>1, <2>3, Zenon
  <2>4. ASSUME NEW place \in CutPlaces(last),
               inbox' = Append(inbox, Append(Pieces(m - 1), Piece(taken + m, CutAt(last, place))))
        PROVE  \E string : /\ inbox' = Append(inbox, string)
                           /\ string \in Seq(PieceType)
                           /\ \A j \in DOMAIN string : Sound(string[j])
    <3> DEFINE q == Pieces(m - 1)
               p == Piece(taken + m, CutAt(last, place))
    <3>1. p \in PieceType /\ Sound(p)
      BY <1>2, <2>1, <2>2, <2>4, CutIsText, Zenon
    <3>2. q \in Seq(PieceType) /\ \A j \in DOMAIN q : Sound(q[j])
      BY <1>6, <2>1, Zenon
    <3> HIDE DEF p, q
    <3>3. /\ Append(q, p) \in Seq(PieceType)
          /\ \A j \in DOMAIN Append(q, p) :
               \/ j \in DOMAIN q /\ Append(q, p)[j] = q[j]
               \/ Append(q, p)[j] = p
      BY <3>1, <3>2, SMT
    <3>4. \A j \in DOMAIN Append(q, p) : Sound(Append(q, p)[j])
      BY <3>1, <3>2, <3>3, Zenon
    <3> QED
      BY <2>4, <3>3, <3>4, Zenon DEF p, q
  <2> QED
    BY <2>3, <2>4, Zenon DEF Recv
<1>8. \A h : Right(h) => Right(h)'
  <2>1. 1..taken \subseteq 1..taken'
    BY <1>1, SMT
  <2> QED
    BY <1>1, <2>1, Zenon DEF Right
<1>9. /\ inbox' \in Seq(Seq(PieceType))
      /\ \A i \in DOMAIN inbox' : inbox'[i] = string \/ (i \in DOMAIN inbox /\ inbox'[i] = inbox[i])
  BY <1>7, SMT DEF LinkInv
<1>10. InboxGenuine'
  <2>1. \A i \in DOMAIN inbox' : \A j \in DOMAIN inbox'[i] : Sound(inbox'[i][j])
    BY <1>7, <1>9, <1>4, Zenon DEF LinkInv, InboxGenuine
  <2> QED
    BY <1>3, <2>1, Zenon DEF InboxGenuine
<1>11. taken' \in 0..Len(sent')
  BY <1>1, SMT DEF LinkInv
<1> QED
  BY <1>1, <1>8, <1>9, <1>10, <1>11, Zenon DEF LinkInv

\* What the parser makes of a string.
LEMMA ParseKeeps ==
  ASSUME LinkInv, ParseString
  PROVE  LinkInv'
<1> DEFINE string == Head(inbox)
           news == [k \in DOMAIN string |-> Heard(string, k)]
<1>1. /\ inbox # <<>> /\ inbox' = Tail(inbox) /\ heard' = heard \o news
      /\ UNCHANGED <<up, sent, taken, shown>>
  BY Zenon DEF ParseString
<1>2. /\ string \in Seq(PieceType) /\ inbox' \in Seq(Seq(PieceType))
      /\ \A i \in DOMAIN inbox' : i + 1 \in DOMAIN inbox /\ inbox'[i] = inbox[i + 1]
      /\ 1 \in DOMAIN inbox /\ string = inbox[1]
  BY <1>1, SMT DEF LinkInv
<1>3. \A j \in DOMAIN string : Genuine(string[j])
  BY <1>2, Zenon DEF LinkInv, InboxGenuine
<1> HIDE DEF string
<1>4. ASSUME NEW k \in DOMAIN string
      PROVE  Heard(string, k) \in HeardType /\ Right(Heard(string, k))
  <2> DEFINE texts == [j \in DOMAIN string |-> string[j].text]
             before == UNION {{string[j].text.letter, string[j].text.type} : j \in 1..(k - 1)}
  <2>1. k \in Nat /\ k >= 1 /\ 1..k \subseteq DOMAIN string /\ 1..(k - 1) \subseteq 1..k
    BY <1>2, <1>4, SMT
  <2>2. \A j \in DOMAIN string : string[j] \in PieceType
    BY <1>2, SMT
  <2>3. \A j \in 1..k : texts[j] = string[j].text /\ texts[j] \in Text
    BY <2>1, <2>2, Zenon DEF PieceType
  <2>4. \A j \in 1..(k - 1) : string[j].text.letter = texts[j].letter
                           /\ string[j].text.type = texts[j].type
    BY <2>1, <2>3, Zenon
  <2>5. before = Before(texts, k)
    BY <2>4, Zenon DEF Before
  <2>6. \A j \in 1..(k - 1) : texts[j].letter \in {"S", "X"} /\ texts[j].type \in {"N", "R"}
    BY <2>1, <2>3, Zenon DEF Text
  <2>7. before \subseteq {"S", "X", "N", "R"}
    <3>1. \A j \in 1..(k - 1) :
            {string[j].text.letter, string[j].text.type} \subseteq {"S", "X", "N", "R"}
      <4>1. \A j \in 1..(k - 1) : string[j].text.letter \in {"S", "X"}
        BY <2>4, <2>6, Zenon
      <4>2. \A j \in 1..(k - 1) : string[j].text.type \in {"N", "R"}
        BY <2>4, <2>6, Zenon
      <4> QED
        BY <4>1, <4>2, Zenon
    <3> QED
      BY <3>1, Zenon
  <2>8. /\ Heard(string, k).n = string[k].n /\ Heard(string, k).whole = string[k].whole
        /\ Heard(string, k).before = before /\ Heard(string, k).frames = Parse(texts, k)
    BY Zenon DEF Heard
  <2>9. k \in 1..k
    BY <2>1, SMT
  <2> HIDE DEF texts, before
  <2>10. Parse(texts, k) \subseteq Frame /\ Cardinality(Parse(texts, k)) <= 1
    BY <2>3, <2>9, ParseTyped, Zenon
  <2>11. string[k].n \in Nat /\ string[k].whole \in BOOLEAN
    BY <1>4, <2>2, Zenon DEF PieceType
  <2>12. Heard(string, k) \in HeardType
    BY <2>7, <2>10, <2>11, Zenon DEF Heard, HeardType, texts, before
  <2>13. string[k].n \in 1..taken /\ (string[k].whole => texts[k] = Encode(sent[string[k].n]))
    BY <1>3, <1>4, <2>3, <2>9, Zenon DEF Genuine
  <2>14. sent[string[k].n] \in Frame
    <3>1. sent[string[k].n] \in Sendable
      BY <2>13, SMT DEF LinkInv
    <3> QED
      BY <3>1, ParametersAreFrames, Zenon
  <2>15. string[k].whole /\ Plain(sent[string[k].n]) /\ "R" \notin before
           /\ (sent[string[k].n].eff \/ "X" \notin before)
         => Parse(texts, k) = {sent[string[k].n]}
    BY <2>1, <2>3, <2>5, <2>13, <2>14, WholeText, Zenon
  <2>16. Right(Heard(string, k))
    BY <2>8, <2>10, <2>13, <2>15, Zenon DEF Right
  <2> QED
    BY <2>12, <2>16, Zenon
<1>5. DOMAIN string = 1..Len(string) /\ Len(string) \in Nat
  BY <1>2, SMT
<1>6. news \in Seq(HeardType) /\ \A k \in DOMAIN news : Right(news[k])
  <2>1. DOMAIN news = 1..Len(string) /\ \A k \in DOMAIN news : news[k] \in HeardType /\ Right(news[k])
    BY <1>4, <1>5, Zenon
  <2>2. news = [k \in 1..Len(string) |-> news[k]]
    BY <1>5, Zenon
  <2> HIDE DEF news
  <2>3. news \in Seq(HeardType)
    BY <1>5, <2>1, <2>2, SMT
  <2> QED
    BY <2>1, <2>3, Zenon
<1> HIDE DEF news
<1>7. /\ heard' \in Seq(HeardType)
      /\ \A i \in DOMAIN heard' :
           \/ i \in DOMAIN heard /\ heard'[i] = heard[i]
           \/ i - Len(heard) \in DOMAIN news /\ heard'[i] = news[i - Len(heard)]
  BY <1>1, <1>6, SMT DEF LinkInv
<1>8. \A i \in DOMAIN heard' : Right(heard'[i])
  BY <1>6, <1>7, Zenon DEF LinkInv
<1>9. \A i \in DOMAIN inbox' : \A j \in DOMAIN inbox'[i] : Genuine(inbox'[i][j])
  BY <1>2, Zenon DEF LinkInv, InboxGenuine
<1>10. InboxGenuine'
  BY <1>1, <1>9, Zenon DEF Genuine, InboxGenuine
<1>11. \A h : Right(h) => Right(h)'
  BY <1>1, Zenon DEF Right
<1> QED
  BY <1>1, <1>2, <1>7, <1>8, <1>10, <1>11, Zenon DEF LinkInv

LEMMA StepLinkInv == LinkInv /\ [LinkNext]_linkVars => LinkInv'
<1> SUFFICES ASSUME LinkInv, [LinkNext]_linkVars PROVE LinkInv'
  OBVIOUS
<1>1. ASSUME NEW f \in Sendable, Send(f) PROVE LinkInv'
  BY <1>1, SendKeeps
<1>2. ASSUME NEW m \in 1..MaxSent, Recv(m) PROVE LinkInv'
  BY <1>2, RecvKeeps
<1>3. CASE ParseString
  BY <1>3, ParseKeeps
<1>4. CASE Close
  BY <1>4, Zenon DEF Close, LinkInv, InboxGenuine, Genuine, Right
<1>5. ASSUME NEW f \in Showable, CanMessage(f) PROVE LinkInv'
  <2>1. /\ UNCHANGED <<up, sent, taken, inbox, heard>>
        /\ \A s \in shown' : s.frame = f /\ s.text = Format(f)
    BY <1>5, SMT DEF CanMessage
  <2> QED
    BY <2>1, Zenon DEF LinkInv, InboxGenuine, Genuine, Right
<1>6. CASE UNCHANGED linkVars
  BY <1>6, Zenon DEF linkVars, LinkInv, InboxGenuine, Genuine, Right
<1> QED
  BY <1>1, <1>2, <1>3, <1>4, <1>5, <1>6, Zenon DEF LinkNext

\* Every text that recv has not cut becomes the frame the program sent,
\* whatever else is in its string (handleClientGridMessage), for every frame,
\* every cut and every number of texts.
THEOREM ProgramsAreUnderstood == LinkSpec => []TextsBecomeTheirFrames
<1>1. LinkInv => TextsBecomeTheirFrames
  BY InvImpliesProperties
<1> QED
  BY <1>1, InitLinkInv, StepLinkInv, PTL DEF LinkSpec

\* A standard frame is shown to the program as the protocol wants it
\* (canMessage), whatever its id.
THEOREM ProgramsAreTold == LinkSpec => []ShownAsProtocol
<1>1. LinkInv => ShownAsProtocol
  BY InvImpliesProperties
<1> QED
  BY <1>1, InitLinkInv, StepLinkInv, PTL DEF LinkSpec

\* Strings, texts and frames keep their types: no text becomes anything but a
\* CAN frame with an id in range, or nothing (handleClientGridMessage).
THEOREM LinkTyped == LinkSpec => []LinkTypeOK
<1>1. LinkInv => LinkTypeOK
  BY InvImpliesProperties
<1> QED
  BY <1>1, InitLinkInv, StepLinkInv, PTL DEF LinkSpec

-----------------------------------------------------------------------------
(* The node variables.                                                     *)
(*                                                                         *)
(* Induction, without an operator as a parameter: on the least number that *)
(* is not in the set of those for which a formula holds.                   *)

\* Induction over the natural numbers, for a set instead of a predicate.
LEMMA SetInduction ==
  ASSUME NEW S, 0 \in S, \A n \in Nat : n \in S => n + 1 \in S
  PROVE  Nat \subseteq S
<1> SUFFICES ASSUME Nat \ S # {} PROVE FALSE
  OBVIOUS
<1> DEFINE R == {ss \in Nat \X Nat : ss[1] < ss[2]}
<1>1. IsWellFoundedOn(R, Nat)
  BY NatLessThanWellFounded DEF OpToRel
<1>2. PICK x \in Nat \ S : \A y \in Nat \ S : ~ (<<y, x>> \in R)
  <2> HIDE DEF R
  <2> QED BY <1>1, WFMin
<1>3. \A y \in Nat \ S : ~(y < x)
  BY <1>2
<1>4. x # 0 /\ x - 1 \in Nat
  OBVIOUS
<1>5. x - 1 \in S
  BY <1>3, <1>4
<1> QED
  BY <1>4, <1>5

\* The same for texts: what holds of the empty one, and of each with a
\* character more, holds of all.
LEMMA TextInduction ==
  ASSUME NEW A, NEW T, <<>> \in T,
         \A t \in Seq(A), x \in A : t \in T => Append(t, x) \in T
  PROVE  Seq(A) \subseteq T
<1> DEFINE S == {n \in Nat : \A t \in Seq(A) : Len(t) = n => t \in T}
<1>1. 0 \in S
  OBVIOUS
<1>2. ASSUME NEW n \in Nat, n \in S PROVE n + 1 \in S
  <2> SUFFICES ASSUME NEW t \in Seq(A), Len(t) = n + 1 PROVE t \in T
    OBVIOUS
  <2> DEFINE u == SubSeq(t, 1, n)
  <2>1. u \in Seq(A) /\ Len(u) = n /\ t[n + 1] \in A
    OBVIOUS
  <2>2. t = Append(u, t[n + 1])
    OBVIOUS
  <2>3. u \in T
    BY <1>2, <2>1
  <2> HIDE DEF u
  <2> QED
    BY <2>1, <2>2, <2>3
<1> HIDE DEF S
<1>3. Nat \subseteq S
  BY <1>1, <1>2, SetInduction
<1> QED
  BY <1>3 DEF S

\* The function by which Without goes through a text.
KeptIn(s, bad, m) ==
  CHOOSE f : f = [n \in 0..m |->
    IF n = 0 THEN <<>> ELSE IF s[n] \in bad THEN f[n - 1] ELSE Append(f[n - 1], s[n])]

LEMMA WithoutIsKept ==
  ASSUME NEW s, NEW bad
  PROVE  Without(s, bad) = KeptIn(s, bad, Len(s))[Len(s)]
  BY DEF Without, KeptIn

\* There is such a function.
LEMMA KeptExists ==
  ASSUME NEW s, NEW bad, NEW m \in Nat
  PROVE  KeptIn(s, bad, m) = [n \in 0..m |->
           IF n = 0 THEN <<>>
           ELSE IF s[n] \in bad THEN KeptIn(s, bad, m)[n - 1]
           ELSE Append(KeptIn(s, bad, m)[n - 1], s[n])]
<1> DEFINE Step(f, n) ==
             IF n = 0 THEN <<>>
             ELSE IF s[n] \in bad THEN f[n - 1] ELSE Append(f[n - 1], s[n])
           S == {k \in Nat : \E f : f = [n \in 0..k |-> Step(f, n)]}
<1>1. 0 \in S
  <2> DEFINE f == [n \in 0..0 |-> <<>>]
  <2>1. f = [n \in 0..0 |-> Step(f, n)]
    OBVIOUS
  <2> QED
    BY <2>1
<1>2. ASSUME NEW k \in Nat, k \in S PROVE k + 1 \in S
  <2>1. PICK f : f = [n \in 0..k |-> Step(f, n)]
    BY <1>2
  <2> DEFINE g == [n \in 0..(k + 1) |-> IF n <= k THEN f[n] ELSE Step(f, k + 1)]
  <2>2. ASSUME NEW n \in 0..(k + 1) PROVE g[n] = Step(g, n)
    <3>1. CASE n = 0
      BY <2>1, <3>1
    <3>2. CASE n \in 1..k
      <4>1. g[n] = f[n] /\ g[n - 1] = f[n - 1]
        BY <3>2
      <4>2. f[n] = Step(f, n)
        <5>1. n \in 0..k
          BY <3>2
        <5> HIDE DEF Step
        <5> QED
          BY <2>1, <5>1
      <4> QED
        BY <3>2, <4>1, <4>2
    <3>3. CASE n = k + 1
      <4>1. g[n] = Step(f, n) /\ g[n - 1] = f[n - 1]
        BY <3>3
      <4> QED
        BY <3>3, <4>1
    <3> QED
      BY <3>1, <3>2, <3>3
  <2>3. g = [n \in 0..(k + 1) |-> g[n]]
    OBVIOUS
  <2> HIDE DEF g
  <2>4. g = [n \in 0..(k + 1) |-> Step(g, n)]
    <3> HIDE DEF Step
    <3> QED BY <2>2, <2>3
  <2> HIDE DEF Step
  <2> QED
    BY <2>4
<1> HIDE DEF S
<1>3. m \in S
  BY <1>1, <1>2, SetInduction
<1> USE DEF S
<1>4. \E f : f = [n \in 0..m |-> Step(f, n)]
  BY <1>3
<1> QED
  BY <1>4 DEF KeptIn

LEMMA KeptAt ==
  ASSUME NEW s, NEW bad, NEW m \in Nat
  PROVE  /\ KeptIn(s, bad, m)[0] = <<>>
         /\ \A n \in 1..m :
              KeptIn(s, bad, m)[n] =
                IF s[n] \in bad THEN KeptIn(s, bad, m)[n - 1]
                ELSE Append(KeptIn(s, bad, m)[n - 1], s[n])
<1> DEFINE f == KeptIn(s, bad, m)
<1>1. f = [n \in 0..m |-> IF n = 0 THEN <<>>
                         ELSE IF s[n] \in bad THEN f[n - 1] ELSE Append(f[n - 1], s[n])]
  BY KeptExists
<1> HIDE DEF f
<1>2. f[0] = <<>>
  BY <1>1
<1>3. ASSUME NEW n \in 1..m
      PROVE  f[n] = IF s[n] \in bad THEN f[n - 1] ELSE Append(f[n - 1], s[n])
  <2>1. n \in 0..m /\ n # 0
    OBVIOUS
  <2> QED
    BY <1>1, <2>1
<1> QED
  BY <1>2, <1>3 DEF f

\* Two texts that begin alike are gone through alike.
LEMMA KeptAlike ==
  ASSUME NEW s, NEW t, NEW bad, NEW m \in Nat, NEW l \in Nat, NEW j \in Nat,
         j <= m, j <= l, \A i \in 1..j : s[i] = t[i]
  PROVE  KeptIn(s, bad, m)[j] = KeptIn(t, bad, l)[j]
<1> DEFINE f == KeptIn(s, bad, m)
           g == KeptIn(t, bad, l)
           S == {i \in Nat : i <= j => f[i] = g[i]}
<1>1. 0 \in S
  BY KeptAt
<1>2. ASSUME NEW i \in Nat, i \in S PROVE i + 1 \in S
  <2> SUFFICES ASSUME i + 1 <= j PROVE f[i + 1] = g[i + 1]
    OBVIOUS
  <2>1. i + 1 \in 1..m /\ i + 1 \in 1..l /\ s[i + 1] = t[i + 1] /\ (i + 1) - 1 = i
    OBVIOUS
  <2>2. f[i + 1] = IF s[i + 1] \in bad THEN f[i] ELSE Append(f[i], s[i + 1])
    BY <2>1, KeptAt
  <2>3. g[i + 1] = IF t[i + 1] \in bad THEN g[i] ELSE Append(g[i], t[i + 1])
    BY <2>1, KeptAt
  <2>4. f[i] = g[i]
    BY <1>2
  <2> HIDE DEF f, g
  <2> QED
    BY <2>1, <2>2, <2>3, <2>4
<1> HIDE DEF S
<1>3. j \in S
  BY <1>1, <1>2, SetInduction
<1> QED
  BY <1>3 DEF S

LEMMA WithoutEmpty ==
  ASSUME NEW bad
  PROVE  Without(<<>>, bad) = <<>>
<1>1. Len(<<>>) = 0
  OBVIOUS
<1> QED
  BY <1>1, WithoutIsKept, KeptAt

\* A text with a character more.
LEMMA WithoutAppend ==
  ASSUME NEW A, NEW s \in Seq(A), NEW x \in A, NEW bad
  PROVE  Without(Append(s, x), bad) =
           IF x \in bad THEN Without(s, bad) ELSE Append(Without(s, bad), x)
<1> DEFINE t == Append(s, x)
           m == Len(s)
<1>1. m \in Nat /\ Len(t) = m + 1 /\ t[m + 1] = x /\ \A i \in 1..m : t[i] = s[i]
  OBVIOUS
<1>2. Without(t, bad) = KeptIn(t, bad, m + 1)[m + 1]
  BY <1>1, WithoutIsKept
<1>3. Without(s, bad) = KeptIn(s, bad, m)[m]
  BY WithoutIsKept
<1> HIDE DEF t, m
<1>4. KeptIn(t, bad, m + 1)[m] = KeptIn(s, bad, m)[m]
  BY <1>1, KeptAlike
<1>5. m + 1 \in 1..(m + 1) /\ (m + 1) - 1 = m
  BY <1>1
<1>6. KeptIn(t, bad, m + 1)[m + 1] =
        IF t[m + 1] \in bad THEN KeptIn(t, bad, m + 1)[m]
        ELSE Append(KeptIn(t, bad, m + 1)[m], t[m + 1])
  BY <1>1, <1>5, KeptAt
<1> QED
  BY <1>1, <1>2, <1>3, <1>4, <1>6 DEF t

\* What is kept is not of bad.
LEMMA WithoutTyped ==
  ASSUME NEW A, NEW s \in Seq(A), NEW bad
  PROVE  Without(s, bad) \in Seq(A \ bad)
<1> DEFINE T == {t \in Seq(A) : Without(t, bad) \in Seq(A \ bad)}
<1>1. <<>> \in T
  <2>1. <<>> \in Seq(A \ bad) /\ <<>> \in Seq(A)
    OBVIOUS
  <2> QED
    BY <2>1, WithoutEmpty
<1>2. ASSUME NEW t \in Seq(A), NEW x \in A, t \in T PROVE Append(t, x) \in T
  <2> DEFINE w == Without(t, bad)
  <2>1. w \in Seq(A \ bad) /\ Append(t, x) \in Seq(A)
    BY <1>2
  <2>2. Without(Append(t, x), bad) = IF x \in bad THEN w ELSE Append(w, x)
    BY WithoutAppend
  <2> HIDE DEF w
  <2>3. x \notin bad => Append(w, x) \in Seq(A \ bad)
    BY <2>1
  <2> QED
    BY <2>1, <2>2, <2>3
<1> HIDE DEF T
<1>3. s \in T
  BY <1>1, <1>2, TextInduction
<1> QED
  BY <1>3 DEF T

\* A text that has nothing of bad stays.
LEMMA WithoutNothing ==
  ASSUME NEW A, NEW bad, A \cap bad = {}, NEW s \in Seq(A)
  PROVE  Without(s, bad) = s
<1> DEFINE T == {t \in Seq(A) : Without(t, bad) = t}
<1>1. <<>> \in T
  BY WithoutEmpty
<1>2. ASSUME NEW t \in Seq(A), NEW x \in A, t \in T PROVE Append(t, x) \in T
  BY <1>2, WithoutAppend
<1> HIDE DEF T
<1>3. s \in T
  BY <1>1, <1>2, TextInduction
<1> QED
  BY <1>3 DEF T

\* Taking out some first changes nothing.
LEMMA WithoutTwice ==
  ASSUME NEW A, NEW s \in Seq(A), NEW a, NEW b, a \subseteq b
  PROVE  Without(Without(s, a), b) = Without(s, b)
<1> DEFINE T == {t \in Seq(A) : Without(Without(t, a), b) = Without(t, b)}
<1>1. <<>> \in T
  BY WithoutEmpty
<1>2. ASSUME NEW t \in Seq(A), NEW x \in A, t \in T PROVE Append(t, x) \in T
  <2>1. Append(t, x) \in Seq(A)
    OBVIOUS
  <2>2. Without(t, a) \in Seq(A)
    <3> DEFINE B == A \ a
    <3>1. Without(t, a) \in Seq(B) /\ B \subseteq A
      BY WithoutTyped
    <3> HIDE DEF B
    <3> QED
      BY <3>1, SeqMonotonic
  <2>3. Without(Append(t, x), b) = IF x \in b THEN Without(t, b) ELSE Append(Without(t, b), x)
    BY WithoutAppend
  <2>4. Without(Append(t, x), a) = IF x \in a THEN Without(t, a) ELSE Append(Without(t, a), x)
    BY WithoutAppend
  <2>5. Without(Append(Without(t, a), x), b) =
          IF x \in b THEN Without(t, b) ELSE Append(Without(t, b), x)
    BY <1>2, <2>2, WithoutAppend
  <2> QED
    BY <1>2, <2>1, <2>3, <2>4, <2>5
<1> HIDE DEF T
<1>3. s \in T
  BY <1>1, <1>2, TextInduction
<1> QED
  BY <1>3 DEF T

\* A text that is filled up with characters of bad comes back.
LEMMA WithoutFilling ==
  ASSUME NEW A, NEW bad, A \cap bad = {}, NEW s \in Seq(A), NEW z \in bad,
         NEW n \in Nat, Len(s) <= n
  PROVE  Without([i \in 1..n |-> IF i <= Len(s) THEN s[i] ELSE z], bad) = s
<1> DEFINE Full(k) == [i \in 1..(Len(s) + k) |-> IF i <= Len(s) THEN s[i] ELSE z]
           S == {k \in Nat : Without(Full(k), bad) = s}
<1>1. 0 \in S
  <2>1. Full(0) = s
    OBVIOUS
  <2> QED
    BY <2>1, WithoutNothing
<1>2. ASSUME NEW k \in Nat, k \in S PROVE k + 1 \in S
  <2>1. Full(k) \in Seq(A \cup bad) /\ z \in A \cup bad
    OBVIOUS
  <2>2. Full(k + 1) = Append(Full(k), z)
    OBVIOUS
  <2>3. Without(Full(k + 1), bad) = Without(Full(k), bad)
    <3> DEFINE u == Full(k)
    <3>1. u \in Seq(A \cup bad) /\ Full(k + 1) = Append(u, z)
      BY <2>1, <2>2
    <3> HIDE DEF u
    <3>2. Without(Append(u, z), bad) = Without(u, bad)
      BY <2>1, <3>1, WithoutAppend
    <3> QED
      BY <3>1, <3>2 DEF u
  <2> QED
    BY <1>2, <2>3
<1> HIDE DEF S
<1>3. n - Len(s) \in Nat /\ Len(s) + (n - Len(s)) = n
  OBVIOUS
<1>4. n - Len(s) \in S
  BY <1>1, <1>2, <1>3, SetInduction
<1>5. Without(Full(n - Len(s)), bad) = s
  BY <1>4 DEF S
<1> QED
  BY <1>3, <1>5

-----------------------------------------------------------------------------
(* Bits.                                                                   *)

LEMMA Flags8 ==
  ASSUME NEW v \in BOOLEAN
  PROVE  /\ Flag(v, 0) = IF v THEN 1 ELSE 0
         /\ Flag(v, 1) = IF v THEN 2 ELSE 0
         /\ Flag(v, 2) = IF v THEN 4 ELSE 0
         /\ Flag(v, 3) = IF v THEN 8 ELSE 0
         /\ Flag(v, 4) = IF v THEN 16 ELSE 0
         /\ Flag(v, 5) = IF v THEN 32 ELSE 0
         /\ Flag(v, 6) = IF v THEN 64 ELSE 0
         /\ Flag(v, 7) = IF v THEN 128 ELSE 0
  BY SMT DEF Flag

LEMMA Bits8 ==
  ASSUME NEW x \in Byte
  PROVE  /\ Bit(x, 0) <=> x % 2 = 1
         /\ Bit(x, 1) <=> (x \div 2) % 2 = 1
         /\ Bit(x, 2) <=> (x \div 4) % 2 = 1
         /\ Bit(x, 3) <=> (x \div 8) % 2 = 1
         /\ Bit(x, 4) <=> (x \div 16) % 2 = 1
         /\ Bit(x, 5) <=> (x \div 32) % 2 = 1
         /\ Bit(x, 6) <=> (x \div 64) % 2 = 1
         /\ Bit(x, 7) <=> (x \div 128) % 2 = 1
  BY SMT DEF Bit, Byte

\* Numbers instead of truth values, for the arithmetic.
LEMMA Binary ==
  ASSUME NEW a \in {0, 1}, NEW b \in {0, 1}, NEW c \in {0, 1}, NEW d \in {0, 1},
         NEW e \in {0, 1}, NEW f \in {0, 1}, NEW g \in {0, 1}, NEW h \in {0, 1},
         NEW x, x = a + 2*b + 4*c + 8*d + 16*e + 32*f + 64*g + 128*h
  PROVE  /\ x \in Byte
         /\ x % 2 = a
         /\ (x \div 2) % 2 = b
         /\ (x \div 4) % 2 = c
         /\ (x \div 8) % 2 = d
         /\ (x \div 16) % 2 = e
         /\ (x \div 32) % 2 = f
         /\ (x \div 64) % 2 = g
         /\ (x \div 128) % 2 = h
         /\ (x \div 4) % 4 = c + 2*d
<1>0. x \in Byte
  BY DEF Byte
<1>1. x % 2 = a
  BY SMT
<1>2. (x \div 2) % 2 = b
  BY SMT
<1>3. (x \div 4) % 2 = c
  BY SMT
<1>4. (x \div 8) % 2 = d
  BY SMT
<1>5. (x \div 16) % 2 = e
  BY SMT
<1>6. (x \div 32) % 2 = f
  BY SMT
<1>7. (x \div 64) % 2 = g
  BY SMT
<1>8. (x \div 128) % 2 = h
  BY SMT
<1>9. (x \div 4) % 4 = c + 2*d
  BY SMT
<1> QED
  BY <1>0, <1>1, <1>2, <1>3, <1>4, <1>5, <1>6, <1>7, <1>8, <1>9

-----------------------------------------------------------------------------
(* Fields.                                                                 *)

LEMMA FieldPlaces ==
  /\ Fields = {"flags", "tcpport", "cangrid_port", "ap_channel", "ap_ssid", "ap_password",
               "service_name", "turnout_file", "fn_momentary", "start_event_id"}
  /\ NVS_SIZE = 47 /\ NvIndex = 0..46
  /\ At["flags"] = 0 /\ Size["flags"] = 1
  /\ At["tcpport"] = 1 /\ Size["tcpport"] = 2
  /\ At["cangrid_port"] = 3 /\ Size["cangrid_port"] = 2
  /\ At["ap_channel"] = 5 /\ Size["ap_channel"] = 1
  /\ At["ap_ssid"] = 6 /\ Size["ap_ssid"] = 8
  /\ At["ap_password"] = 14 /\ Size["ap_password"] = 8
  /\ At["service_name"] = 22 /\ Size["service_name"] = 8
  /\ At["turnout_file"] = 30 /\ Size["turnout_file"] = 11
  /\ At["fn_momentary"] = 41 /\ Size["fn_momentary"] = 4
  /\ At["start_event_id"] = 45 /\ Size["start_event_id"] = 2
  BY DEF Fields, At, Size, NVS_SIZE, NvIndex

\* Every place of the array belongs to one field.
LEMMA FieldsDisjoint ==
  ASSUME NEW f \in Fields, NEW g \in Fields, NEW i \in 1..Size[f],
         At[f] + i - 1 \in At[g]..(At[g] + Size[g] - 1)
  PROVE  g = f
  BY FieldPlaces

LEMMA FieldsCover ==
  ASSUME NEW n \in NvIndex
  PROVE  \E f \in Fields : n \in At[f]..(At[f] + Size[f] - 1)
  BY FieldPlaces

LEMMA FieldInArray ==
  ASSUME NEW f \in Fields, NEW i \in 1..Size[f]
  PROVE  /\ At[f] + i - 1 \in NvIndex
         /\ At[f] + i - 1 \in At[f]..(At[f] + Size[f] - 1)
         /\ (At[f] + i - 1) - At[f] + 1 = i
  BY FieldPlaces

LEMMA LoadedField ==
  ASSUME NEW c, NEW old, NEW f \in Fields, NEW i \in 1..Size[f]
  PROVE  LoadParams(c, old)[At[f] + i - 1] = FieldOf(c, f, old)[i]
<1> DEFINE n == At[f] + i - 1
           g == CHOOSE h \in Fields : n \in At[h]..(At[h] + Size[h] - 1)
<1>1. n \in NvIndex /\ n \in At[f]..(At[f] + Size[f] - 1) /\ n - At[f] + 1 = i
  BY FieldInArray
<1>2. g \in Fields /\ n \in At[g]..(At[g] + Size[g] - 1)
  BY <1>1
<1>3. g = f
  <2> HIDE DEF g
  <2> QED BY <1>2, FieldsDisjoint
<1>4. LoadParams(c, old)[n] = FieldOf(c, g, old)[n - At[g] + 1]
  <2> HIDE DEF n
  <2> QED BY <1>1 DEF LoadParams
<1> QED
  BY <1>1, <1>3, <1>4

-----------------------------------------------------------------------------
(* Settings.                                                               *)

Flagged == {"ap_mode", "can_grid", "ap_no_password", "edserver"}

\* Settings of the right types.
Settings(c) == DOMAIN c \subseteq Keys /\ \A k \in DOMAIN c : c[k] \in Value(k)

\* The kinds of settings, and that a key is of one kind only.
LEMMA SwitchKind ==
  ASSUME NEW k \in Switches
  PROVE  k \notin Ports /\ k \notin Texts /\ k \notin {"ap_channel", "loglevel", "fn_momentary", "flags"}
  BY DEF Switches, Ports, Texts

LEMMA PortKind ==
  ASSUME NEW k \in Ports
  PROVE  /\ k \notin Switches /\ k \notin Texts
         /\ k \notin {"ap_channel", "loglevel", "fn_momentary", "flags"}
  BY DEF Switches, Ports, Texts

LEMMA TextKind ==
  ASSUME NEW k \in Texts
  PROVE  /\ k \notin Switches /\ k \notin Ports
         /\ k \notin {"ap_channel", "loglevel", "fn_momentary", "flags"}
  BY DEF Switches, Ports, Texts

LEMMA OtherKind ==
  ASSUME NEW k \in {"ap_channel", "loglevel", "fn_momentary", "flags"}
  PROVE  k \notin Switches /\ k \notin Ports /\ k \notin Texts
  BY DEF Switches, Ports, Texts

LEMMA KeySets ==
  /\ Switches \ Unset = Flagged /\ Flagged \subseteq Switches
  /\ Switches \cup Ports \cup Texts \cup {"ap_channel", "loglevel", "fn_momentary"} = Keys
  /\ Ports \subseteq Fields /\ Texts \subseteq Fields
  /\ {"ap_channel", "fn_momentary"} \subseteq Fields
  /\ Fields = Ports \cup Texts \cup {"flags", "ap_channel", "fn_momentary"}
  BY FieldPlaces DEF Keys, Switches, Ports, Texts, Unset, Flagged

LEMMA SwitchValue ==
  ASSUME NEW k \in Switches
  PROVE  Value(k) = BOOLEAN
<1>1. /\ k \notin Ports /\ k \notin Texts
      /\ k # "ap_channel" /\ k # "loglevel" /\ k # "fn_momentary"
  BY SwitchKind
<1> QED
  BY <1>1, Zenon DEF Value

LEMMA ValueIs ==
  /\ \A k \in Ports : Value(k) = Word
  /\ \A k \in Texts : Value(k) = Seq(Character)
  /\ Value("ap_channel") = Byte
  /\ Value("loglevel") = {"NOTSET", "DEBUG", "INFO", "NOTICE", "WARN"}
  /\ Value("fn_momentary") = SUBSET (0..31)
<1>1. ASSUME NEW k \in Ports PROVE Value(k) = Word
  BY <1>1, PortKind DEF Value
<1>2. ASSUME NEW k \in Texts PROVE Value(k) = Seq(Character)
  BY <1>2, TextKind DEF Value
<1>3. Value("ap_channel") = Byte
  BY OtherKind DEF Value
<1>4. Value("loglevel") = {"NOTSET", "DEBUG", "INFO", "NOTICE", "WARN"}
  BY OtherKind DEF Value
<1>5. Value("fn_momentary") = SUBSET (0..31)
  BY OtherKind DEF Value
<1> QED
  BY <1>1, <1>2, <1>3, <1>4, <1>5, Zenon

LEMMA NvValueIs ==
  ASSUME NEW n
  PROVE  /\ NvValue(n, "ap_mode") = Bit(n[0], 0)
         /\ NvValue(n, "can_grid") = Bit(n[0], 1)
         /\ NvValue(n, "ap_no_password") = Bit(n[0], 4)
         /\ NvValue(n, "edserver") = Bit(n[0], 6)
         /\ NvValue(n, "loglevel") = NvToLogLevel(n[0])
         /\ NvValue(n, "ap_channel") = n[At["ap_channel"]]
         /\ \A k \in Ports : NvValue(n, k) = NvToInt(FieldIn(n, k))
         /\ \A k \in Texts : NvValue(n, k) = NvToString(FieldIn(n, k))
         /\ NvValue(n, "fn_momentary") = NvToMomentary(FieldIn(n, "fn_momentary"))
<1>1. ASSUME NEW k \in Ports PROVE NvValue(n, k) = NvToInt(FieldIn(n, k))
  <2>1. /\ k \notin {"ap_mode", "can_grid", "ap_no_password", "edserver"}
        /\ k \notin {"loglevel", "ap_channel", "fn_momentary"} /\ k \notin Texts
    BY <1>1, PortKind DEF Switches
  <2> QED BY <1>1, <2>1 DEF NvValue
<1>2. ASSUME NEW k \in Texts PROVE NvValue(n, k) = NvToString(FieldIn(n, k))
  <2>1. /\ k \notin {"ap_mode", "can_grid", "ap_no_password", "edserver"}
        /\ k \notin {"loglevel", "ap_channel", "fn_momentary"} /\ k \notin Ports
    BY <1>2, TextKind DEF Switches
  <2> QED BY <1>2, <2>1 DEF NvValue
<1>3. /\ NvValue(n, "ap_mode") = Bit(n[0], 0)
      /\ NvValue(n, "can_grid") = Bit(n[0], 1)
      /\ NvValue(n, "ap_no_password") = Bit(n[0], 4)
      /\ NvValue(n, "edserver") = Bit(n[0], 6)
  <2>1. \A k \in {"ap_mode", "can_grid", "ap_no_password", "edserver"} :
          k \notin Ports /\ k \notin Texts
    BY SwitchKind DEF Switches
  <2> QED BY <2>1 DEF NvValue
<1>4. /\ NvValue(n, "loglevel") = NvToLogLevel(n[0])
      /\ NvValue(n, "ap_channel") = n[At["ap_channel"]]
      /\ NvValue(n, "fn_momentary") = NvToMomentary(FieldIn(n, "fn_momentary"))
  BY OtherKind DEF NvValue
<1> QED
  BY <1>1, <1>2, <1>3, <1>4

LEMMA FieldBytesIs ==
  ASSUME NEW v, NEW old
  PROVE  /\ \A k \in Ports : FieldBytes(k, v, old) = IntBytes(v)
         /\ FieldBytes("ap_channel", v, old) = <<v % 256>>
         /\ \A k \in Texts : FieldBytes(k, v, old) = TextBytes(v, Size[k])
         /\ FieldBytes("fn_momentary", v, old) = MomentaryBytes(v, old)
<1>1. ASSUME NEW k \in Ports PROVE FieldBytes(k, v, old) = IntBytes(v)
  BY <1>1, PortKind DEF FieldBytes
<1>2. ASSUME NEW k \in Texts PROVE FieldBytes(k, v, old) = TextBytes(v, Size[k])
  BY <1>2, TextKind DEF FieldBytes
<1>3. /\ FieldBytes("ap_channel", v, old) = <<v % 256>>
      /\ FieldBytes("fn_momentary", v, old) = MomentaryBytes(v, old)
  BY OtherKind DEF FieldBytes
<1> QED
  BY <1>1, <1>2, <1>3

LEMMA KeySorts ==
  /\ \A k \in Switches : k \in Keys
  /\ \A k \in Ports : k \in Keys
  /\ \A k \in Texts : k \in Keys
  /\ \A k \in {"ap_channel", "loglevel", "fn_momentary"} : k \in Keys
  /\ \A k \in Keys : \/ k \in Switches \/ k \in Ports \/ k \in Texts
                     \/ k = "ap_channel" \/ k = "loglevel" \/ k = "fn_momentary"
  BY DEF Keys

\* What the getters answer.
LEMMA DefaultTyped ==
  ASSUME NEW k \in Keys
  PROVE  Default[k] \in Value(k)
<1>1. CASE k \in Switches
  <2>1. /\ k \notin Ports /\ k \notin Texts
        /\ k # "ap_channel" /\ k # "loglevel" /\ k # "fn_momentary"
    BY <1>1, SwitchKind
  <2>2. Default[k] = (k = "edserver")
    BY <1>1, <2>1, Zenon DEF Default
  <2>3. (k = "edserver") \in BOOLEAN
    OBVIOUS
  <2>4. Value(k) = BOOLEAN
    BY <1>1, SwitchValue
  <2> QED
    BY <2>2, <2>3, <2>4, Zenon
<1>2. CASE k \in Texts
  <2>1. Default[k] = DefaultText[k]
    BY <1>2, TextKind DEF Default
  <2>2. /\ <<116, 117, 114, 110, 111, 117, 116, 46, 116, 120, 116>> \in Seq(Character)
        /\ <<>> \in Seq(Character)
    BY DEF Character
  <2>3. DefaultText[k] \in Seq(Character)
    BY <1>2, <2>2 DEF DefaultText
  <2> QED
    BY <1>2, <2>1, <2>3, ValueIs
<1>3. CASE k \in Ports
  <2>1. Default[k] = DefaultPort[k]
    BY <1>3, PortKind DEF Default
  <2>2. DefaultPort[k] \in Word
    <3>1. /\ DefaultPort["tcpport"] \in Word
          /\ DefaultPort["cangrid_port"] \in Word
          /\ DefaultPort["start_event_id"] \in Word
      BY DEF DefaultPort, Word
    <3> QED
      BY <1>3, <3>1 DEF Ports
  <2> QED
    BY <1>3, <2>1, <2>2, ValueIs
<1>4. CASE k \in {"ap_channel", "loglevel", "fn_momentary"}
  <2>1. /\ k = "ap_channel" => Default[k] = 6
        /\ k = "loglevel" => Default[k] = "WARN"
        /\ k = "fn_momentary" => Default[k] = {}
    BY <1>4, OtherKind DEF Default
  <2> QED
    BY <1>4, <2>1, ValueIs DEF Byte
<1> QED
  BY <1>1, <1>2, <1>3, <1>4, KeySorts

LEMMA GetTyped ==
  ASSUME NEW c, Settings(c), NEW k \in Keys
  PROVE  Get(c, k) \in Value(k)
  BY DefaultTyped DEF Get, Settings

Array == [NvIndex -> Byte]

-----------------------------------------------------------------------------
(* From settings to bytes and back.                                        *)

\* The bits of the first byte that loadParam1 makes of the settings.
LEMMA FlagsLoaded ==
  ASSUME NEW c, Settings(c), NEW old, NEW x, x = LoadParams(c, old)[0]
  PROVE  /\ x \in Byte
         /\ Bit(x, 0) <=> Get(c, "ap_mode")
         /\ Bit(x, 1) <=> Get(c, "can_grid")
         /\ Bit(x, 4) <=> Get(c, "ap_no_password")
         /\ ~Bit(x, 6)
         /\ (x \div 4) % 4 = (IF Get(c, "loglevel") = "WARN" THEN 1 ELSE 0)
                             + 2 * (IF Get(c, "loglevel") = "DEBUG" THEN 1 ELSE 0)
<1>1. LoadParams(c, old)[0] = FieldOf(c, "flags", old)[1]
  BY LoadedField, FieldPlaces
<1>2. FieldOf(c, "flags", old) = LoadParam1(c)
  BY DEF FieldOf
<1>3. /\ Get(c, "ap_mode") \in BOOLEAN /\ Get(c, "can_grid") \in BOOLEAN
      /\ Get(c, "ap_no_password") \in BOOLEAN
      /\ Get(c, "create_log_file") \in BOOLEAN /\ Get(c, "edserver") \in BOOLEAN
  <2>1. \A k \in Switches : Get(c, k) \in BOOLEAN
    BY GetTyped, SwitchValue, KeySorts
  <2> QED
    BY <2>1 DEF Switches
<1> DEFINE A == IF Get(c, "ap_mode") THEN 1 ELSE 0
           B == IF Get(c, "can_grid") THEN 1 ELSE 0
           C == IF Get(c, "loglevel") = "WARN" THEN 1 ELSE 0
           D == IF Get(c, "loglevel") = "DEBUG" THEN 1 ELSE 0
           E == IF Get(c, "ap_no_password") THEN 1 ELSE 0
           F == IF Get(c, "create_log_file") \/ Get(c, "edserver") THEN 1 ELSE 0
<1>4. /\ Flag(Get(c, "ap_mode"), 0) = A
      /\ Flag(Get(c, "can_grid"), 1) = 2 * B
      /\ Flag(Get(c, "loglevel") = "WARN", 2) = 4 * C
      /\ Flag(Get(c, "loglevel") = "DEBUG", 3) = 8 * D
      /\ Flag(Get(c, "ap_no_password"), 4) = 16 * E
      /\ Flag(Get(c, "create_log_file") \/ Get(c, "edserver"), 5) = 32 * F
  BY <1>3, SMT DEF Flag
<1>5. /\ A \in {0, 1} /\ B \in {0, 1} /\ C \in {0, 1} /\ D \in {0, 1}
      /\ E \in {0, 1} /\ F \in {0, 1}
  OBVIOUS
<1>6. /\ A = 1 <=> Get(c, "ap_mode")
      /\ B = 1 <=> Get(c, "can_grid")
      /\ E = 1 <=> Get(c, "ap_no_password")
  OBVIOUS
<1>7. (x = A + 2 * B + 4 * C + 8 * D + 16 * E + 32 * F)
  <2>1. LoadParam1(c) = <<Flag(Get(c, "ap_mode"), 0) + Flag(Get(c, "can_grid"), 1)
    + Flag(Get(c, "loglevel") = "WARN", 2) + Flag(Get(c, "loglevel") = "DEBUG", 3)
    + Flag(Get(c, "ap_no_password"), 4)
    + Flag(Get(c, "create_log_file") \/ Get(c, "edserver"), 5)>>
    BY DEF LoadParam1
  <2>2. LoadParam1(c) = <<A + 2 * B + 4 * C + 8 * D + 16 * E + 32 * F>>
    <3> HIDE DEF A, B, C, D, E, F
    <3> QED BY <2>1, <1>4
  <2> QED
    BY <1>1, <1>2, <2>2
<1> HIDE DEF A, B, C, D, E, F
<1>8. (x = A + 2 * B + 4 * C + 8 * D + 16 * E + 32 * F + 64 * 0 + 128 * 0)
  BY <1>5, <1>7
<1>9. /\ x \in Byte
      /\ x % 2 = A
      /\ (x \div 2) % 2 = B
      /\ (x \div 16) % 2 = E
      /\ (x \div 64) % 2 = 0
      /\ (x \div 4) % 4 = C + 2 * D
  BY <1>5, <1>8, Binary
<1>10. (x \div 4) % 4 = (IF Get(c, "loglevel") = "WARN" THEN 1 ELSE 0)
                             + 2 * (IF Get(c, "loglevel") = "DEBUG" THEN 1 ELSE 0)
  BY <1>9 DEF C, D
<1> QED
  BY <1>6, <1>9, <1>10, Bits8

\* The bits of a byte of the momentary functions.
LEMMA MomentaryBits ==
  ASSUME NEW fns, NEW i, NEW x, x = MomentaryByte(fns, i)
  PROVE  /\ x \in Byte
         /\ Bit(x, 7) <=> i \in fns
         /\ Bit(x, 6) <=> i + 1 \in fns
         /\ Bit(x, 5) <=> i + 2 \in fns
         /\ Bit(x, 4) <=> i + 3 \in fns
         /\ Bit(x, 3) <=> i + 4 \in fns
         /\ Bit(x, 2) <=> i + 5 \in fns
         /\ Bit(x, 1) <=> i + 6 \in fns
         /\ Bit(x, 0) <=> i + 7 \in fns
<1> DEFINE A == IF i + 7 \in fns THEN 1 ELSE 0
           B == IF i + 6 \in fns THEN 1 ELSE 0
           C == IF i + 5 \in fns THEN 1 ELSE 0
           D == IF i + 4 \in fns THEN 1 ELSE 0
           E == IF i + 3 \in fns THEN 1 ELSE 0
           F == IF i + 2 \in fns THEN 1 ELSE 0
           G == IF i + 1 \in fns THEN 1 ELSE 0
           H == IF i \in fns THEN 1 ELSE 0
<1>4. /\ Flag(i \in fns, 7) = 128 * H
      /\ Flag(i + 1 \in fns, 6) = 64 * G
      /\ Flag(i + 2 \in fns, 5) = 32 * F
      /\ Flag(i + 3 \in fns, 4) = 16 * E
      /\ Flag(i + 4 \in fns, 3) = 8 * D
      /\ Flag(i + 5 \in fns, 2) = 4 * C
      /\ Flag(i + 6 \in fns, 1) = 2 * B
      /\ Flag(i + 7 \in fns, 0) = A
  BY SMT DEF Flag
<1>5. /\ A \in {0, 1} /\ B \in {0, 1} /\ C \in {0, 1} /\ D \in {0, 1}
      /\ E \in {0, 1} /\ F \in {0, 1} /\ G \in {0, 1} /\ H \in {0, 1}
  OBVIOUS
<1>6. /\ A = 1 <=> i + 7 \in fns
      /\ B = 1 <=> i + 6 \in fns
      /\ C = 1 <=> i + 5 \in fns
      /\ D = 1 <=> i + 4 \in fns
      /\ E = 1 <=> i + 3 \in fns
      /\ F = 1 <=> i + 2 \in fns
      /\ G = 1 <=> i + 1 \in fns
      /\ H = 1 <=> i \in fns
  OBVIOUS
<1> HIDE DEF A, B, C, D, E, F, G, H
<1>7. (x = 128 * H + 64 * G + 32 * F + 16 * E + 8 * D + 4 * C + 2 * B + A)
  BY <1>4 DEF MomentaryByte
<1>8. (x = A + 2 * B + 4 * C + 8 * D + 16 * E + 32 * F + 64 * G + 128 * H)
  BY <1>5, <1>7
<1>9. /\ x \in Byte
      /\ x % 2 = A
      /\ (x \div 2) % 2 = B
      /\ (x \div 4) % 2 = C
      /\ (x \div 8) % 2 = D
      /\ (x \div 16) % 2 = E
      /\ (x \div 32) % 2 = F
      /\ (x \div 64) % 2 = G
      /\ (x \div 128) % 2 = H
  BY <1>5, <1>8, Binary
<1> QED
  BY <1>6, <1>9, Bits8

\* A list of momentary functions that is not empty is read back.
LEMMA MomentaryKept ==
  ASSUME NEW v \in SUBSET (0..28), v # {}, NEW old
  PROVE  /\ MomentaryBytes(v, old) \in [1..4 -> Byte]
         /\ NvToMomentary(MomentaryBytes(v, old)) = v
<1> DEFINE s == MomentaryBytes(v, old)
<1>1. s = [b \in 1..4 |-> MomentaryByte(v, 8 * (b - 1))]
  <2>1. v \cap 0..28 = v
    OBVIOUS
  <2> QED
    BY <2>1 DEF MomentaryBytes
<1>2. \A b \in 1..4 : s[b] = MomentaryByte(v, 8 * (b - 1))
  BY <1>1
<1>3. s \in [1..4 -> Byte]
  <2>1. \A b \in 1..4 : MomentaryByte(v, 8 * (b - 1)) \in Byte
    BY MomentaryBits
  <2> QED
    BY <1>1, <2>1
<1> HIDE DEF s
<1>4. ASSUME NEW i \in 0..31
      PROVE  Bit(s[i \div 8 + 1], 7 - (i % 8)) <=> i \in v
  <2> DEFINE b == i \div 8 + 1
             j == i % 8
             x == s[b]
             m == 8 * (b - 1)
  <2>1. b \in 1..4 /\ j \in 0..7 /\ m \in Int /\ (i = m + j)
    OBVIOUS
  <2>2. x = MomentaryByte(v, m)
    BY <1>2, <2>1
  <2> HIDE DEF b, j, x, m
  <2>3. Bit(x, 7 - j) <=> m + j \in v
    <3>1. /\ Bit(x, 7) <=> m \in v
          /\ Bit(x, 6) <=> m + 1 \in v
          /\ Bit(x, 5) <=> m + 2 \in v
          /\ Bit(x, 4) <=> m + 3 \in v
          /\ Bit(x, 3) <=> m + 4 \in v
          /\ Bit(x, 2) <=> m + 5 \in v
          /\ Bit(x, 1) <=> m + 6 \in v
          /\ Bit(x, 0) <=> m + 7 \in v
      BY <2>2, MomentaryBits
    <3>2. CASE j = 0
      <4>1. 7 - j = 7 /\ m + j = m
        BY <3>2, <2>1
      <4> QED BY <3>1, <4>1
    <3>3. CASE j = 1
      <4>1. 7 - j = 6
        BY <3>3
      <4> QED BY <3>1, <3>3, <4>1
    <3>4. CASE j = 2
      <4>1. 7 - j = 5
        BY <3>4
      <4> QED BY <3>1, <3>4, <4>1
    <3>5. CASE j = 3
      <4>1. 7 - j = 4
        BY <3>5
      <4> QED BY <3>1, <3>5, <4>1
    <3>6. CASE j = 4
      <4>1. 7 - j = 3
        BY <3>6
      <4> QED BY <3>1, <3>6, <4>1
    <3>7. CASE j = 5
      <4>1. 7 - j = 2
        BY <3>7
      <4> QED BY <3>1, <3>7, <4>1
    <3>8. CASE j = 6
      <4>1. 7 - j = 1
        BY <3>8
      <4> QED BY <3>1, <3>8, <4>1
    <3>9. CASE j = 7
      <4>1. 7 - j = 0
        BY <3>9
      <4> QED BY <3>1, <3>9, <4>1
    <3> QED
      BY <2>1, <3>2, <3>3, <3>4, <3>5, <3>6, <3>7, <3>8, <3>9
  <2> QED
    BY <2>1, <2>3 DEF b, j, x
<1>5. NvToMomentary(s) = {i \in 0..31 : i \in v}
  BY <1>4 DEF NvToMomentary
<1>6. \A i \in v : i \in 0..31
  OBVIOUS
<1>7. {i \in 0..31 : i \in v} = v
  BY <1>6
<1> QED
  BY <1>3, <1>5, <1>7 DEF s

LEMMA WordBytes ==
  ASSUME NEW v \in Word
  PROVE  /\ IntBytes(v)[1] \in Byte /\ IntBytes(v)[2] \in Byte
         /\ IntBytes(v)[1] + 256 * IntBytes(v)[2] = v
<1> DEFINE q == v \div 256
           r == v % 256
<1>1. q \in 0..255 /\ r \in 0..255 /\ (v = r + 256 * q)
  BY SMT DEF Word
<1>2. IntBytes(v) = <<r, q % 256>>
  BY DEF IntBytes
<1> HIDE DEF q, r
<1>3. q % 256 = q
  BY <1>1
<1>4. IntBytes(v)[1] = r /\ IntBytes(v)[2] = q
  BY <1>2, <1>3
<1> QED
  BY <1>1, <1>4 DEF Byte

\* The bytes of a setting.
LEMMA FieldBytesTyped ==
  ASSUME NEW k \in Ports \cup Texts \cup {"ap_channel", "fn_momentary"}, NEW v \in Value(k),
         NEW old \in [1..4 -> Byte], NEW i \in 1..Size[k]
  PROVE  FieldBytes(k, v, old)[i] \in Byte
<1>1. CASE k \in Ports
  <2>1. v \in Word /\ FieldBytes(k, v, old) = IntBytes(v)
    BY <1>1, ValueIs, FieldBytesIs
  <2>2. i = 1 \/ i = 2
    BY <1>1, FieldPlaces DEF Ports
  <2> QED
    BY <2>1, <2>2, WordBytes
<1>2. CASE k \in Texts
  <2>1. v \in Seq(Character) /\ FieldBytes(k, v, old) = TextBytes(v, Size[k])
    BY <1>2, ValueIs, FieldBytesIs
  <2>2. TextBytes(v, Size[k])[i] = IF i <= Len(v) THEN v[i] ELSE 0
    BY DEF TextBytes
  <2>3. i \in Nat /\ i >= 1
    BY <1>2, FieldPlaces DEF Texts
  <2>4. i <= Len(v) => v[i] \in Character
    BY <2>1, <2>3
  <2> QED
    BY <2>1, <2>2, <2>4 DEF Character, Byte
<1>3. CASE k = "ap_channel"
  <2>1. v \in Byte /\ FieldBytes(k, v, old) = <<v % 256>>
    BY <1>3, ValueIs, FieldBytesIs
  <2>2. i = 1
    BY <1>3, FieldPlaces
  <2> QED
    BY <2>1, <2>2 DEF Byte
<1>4. CASE k = "fn_momentary"
  <2>1. FieldBytes(k, v, old) = MomentaryBytes(v, old) /\ i \in 1..4
    BY <1>4, FieldBytesIs, FieldPlaces
  <2>2. CASE v = {}
    BY <2>1, <2>2 DEF MomentaryBytes
  <2>3. CASE v # {}
    <3>1. MomentaryBytes(v, old)[i] = MomentaryByte(v \cap 0..28, 8 * (i - 1))
      BY <2>1, <2>3 DEF MomentaryBytes
    <3> QED
      BY <2>1, <3>1, MomentaryBits
  <2> QED
    BY <2>2, <2>3
<1> QED
  BY <1>1, <1>2, <1>3, <1>4

\* What is read from the bytes of a setting.
FieldValue(k, s) ==
  CASE k \in Ports -> NvToInt(s)
    [] k \in Texts -> NvToString(s)
    [] k = "ap_channel" -> s[1]
    [] k = "fn_momentary" -> NvToMomentary(s)

LEMMA FieldValueIs ==
  ASSUME NEW s
  PROVE  /\ \A k \in Ports : FieldValue(k, s) = NvToInt(s)
         /\ FieldValue("ap_channel", s) = s[1]
         /\ \A k \in Texts : FieldValue(k, s) = NvToString(s)
         /\ FieldValue("fn_momentary", s) = NvToMomentary(s)
<1>1. ASSUME NEW k \in Ports PROVE FieldValue(k, s) = NvToInt(s)
  BY <1>1, PortKind DEF FieldValue
<1>2. ASSUME NEW k \in Texts PROVE FieldValue(k, s) = NvToString(s)
  BY <1>2, TextKind DEF FieldValue
<1>3. /\ FieldValue("ap_channel", s) = s[1]
      /\ FieldValue("fn_momentary", s) = NvToMomentary(s)
  BY OtherKind DEF FieldValue
<1> QED
  BY <1>1, <1>2, <1>3

\* Settings with a field of their own.
Fielded == Ports \cup Texts \cup {"ap_channel", "fn_momentary"}

LEMMA NvValueOfField ==
  ASSUME NEW n, NEW k \in Fielded
  PROVE  NvValue(n, k) = FieldValue(k, FieldIn(n, k))
<1>1. CASE k = "ap_channel"
  <2>1. FieldIn(n, k)[1] = n[At[k]]
    BY <1>1, FieldPlaces DEF FieldIn
  <2> QED
    BY <1>1, <2>1, NvValueIs, FieldValueIs
<1>2. CASE k # "ap_channel"
  BY <1>2, NvValueIs, FieldValueIs DEF Fielded
<1> QED
  BY <1>1, <1>2

\* A setting that fits its field is read from its bytes as it was.
LEMMA FieldKept ==
  ASSUME NEW k \in Fielded, NEW v \in Value(k),
         k \in Texts => Len(v) <= Size[k],
         k = "fn_momentary" => v # {} /\ v \subseteq 0..28,
         NEW old
  PROVE  FieldValue(k, [i \in 1..Size[k] |-> FieldBytes(k, v, old)[i]]) = v
<1> DEFINE s == [i \in 1..Size[k] |-> FieldBytes(k, v, old)[i]]
<1>0. \A i \in 1..Size[k] : s[i] = FieldBytes(k, v, old)[i]
  OBVIOUS
<1>1. CASE k \in Ports
  <2>1. v \in Word /\ FieldBytes(k, v, old) = IntBytes(v) /\ FieldValue(k, s) = NvToInt(s)
    BY <1>1, ValueIs, FieldBytesIs, FieldValueIs
  <2>2. Size[k] = 2
    BY <1>1, FieldPlaces DEF Ports
  <2>3. s[1] = IntBytes(v)[1] /\ s[2] = IntBytes(v)[2]
    BY <1>0, <2>1, <2>2
  <2> HIDE DEF s
  <2>4. NvToInt(s) = v
    BY <2>1, <2>3, WordBytes DEF NvToInt
  <2> QED
    BY <2>1, <2>4 DEF s
<1>2. CASE k \in Texts
  <2>1. v \in Seq(Character) /\ FieldBytes(k, v, old) = TextBytes(v, Size[k])
        /\ FieldValue(k, s) = NvToString(s)
    BY <1>2, ValueIs, FieldBytesIs, FieldValueIs
  <2>2. Size[k] \in Nat
    BY <1>2, FieldPlaces DEF Texts
  <2>3. s = [i \in 1..Size[k] |-> IF i <= Len(v) THEN v[i] ELSE 0]
    BY <2>1 DEF TextBytes
  <2>4. Character \cap {0} = {} /\ 0 \in {0}
    BY DEF Character
  <2>5. Without([i \in 1..Size[k] |-> IF i <= Len(v) THEN v[i] ELSE 0], {0}) = v
    BY <1>2, <2>1, <2>2, <2>4, WithoutFilling
  <2> QED
    BY <2>1, <2>3, <2>5 DEF NvToString
<1>3. CASE k = "ap_channel"
  <2>1. v \in Byte /\ FieldBytes(k, v, old) = <<v % 256>> /\ FieldValue(k, s) = s[1]
    BY <1>3, ValueIs, FieldBytesIs, FieldValueIs
  <2>2. s[1] = v % 256
    BY <1>0, <1>3, <2>1, FieldPlaces
  <2>3. \A x \in Byte : x % 256 = x
    BY DEF Byte
  <2> QED
    BY <2>1, <2>2, <2>3
<1>4. CASE k = "fn_momentary"
  <2>1. FieldBytes(k, v, old) = MomentaryBytes(v, old) /\ Size[k] = 4
        /\ FieldValue(k, s) = NvToMomentary(s)
    BY <1>4, FieldBytesIs, FieldPlaces, FieldValueIs
  <2>2. /\ MomentaryBytes(v, old) \in [1..4 -> Byte]
        /\ NvToMomentary(MomentaryBytes(v, old)) = v
    BY <1>4, MomentaryKept
  <2>3. s = MomentaryBytes(v, old)
    BY <2>1, <2>2
  <2> QED
    BY <2>1, <2>2, <2>3
<1> QED
  BY <1>1, <1>2, <1>3, <1>4 DEF Fielded

LEMMA FieldedIn == Fielded \subseteq Fields /\ Fielded \subseteq Keys /\ "flags" \notin Fielded
  BY KeySets, KeySorts, PortKind, TextKind, OtherKind DEF Fielded

\* The constructor fills the array.
LEMMA LoadedTyped ==
  ASSUME NEW c, Settings(c), NEW old \in [1..4 -> Byte]
  PROVE  LoadParams(c, old) \in Array
<1>1. ASSUME NEW n \in NvIndex PROVE LoadParams(c, old)[n] \in Byte
  <2>1. PICK f \in Fields : n \in At[f]..(At[f] + Size[f] - 1)
    BY FieldsCover
  <2> DEFINE i == n - At[f] + 1
  <2>2. At[f] \in Nat /\ Size[f] \in Nat /\ n \in Int
    BY FieldPlaces
  <2>3. i \in 1..Size[f] /\ At[f] + i - 1 = n
    BY <2>1, <2>2
  <2> HIDE DEF i
  <2>4. LoadParams(c, old)[n] = FieldOf(c, f, old)[i]
    BY <2>3, LoadedField
  <2>5. CASE f = "flags"
    <3>1. n = 0
      BY <2>1, <2>5, FieldPlaces
    <3> QED
      BY <3>1, FlagsLoaded
  <2>6. CASE f # "flags"
    <3>1. f \in Fielded
      BY <2>6, KeySets DEF Fielded
    <3>2. FieldOf(c, f, old) = FieldBytes(f, Get(c, f), old)
      BY <2>6 DEF FieldOf
    <3>3. Get(c, f) \in Value(f)
      BY <3>1, FieldedIn, GetTyped
    <3> QED
      BY <2>3, <2>4, <3>1, <3>2, <3>3, FieldBytesTyped DEF Fielded
  <2> QED
    BY <2>5, <2>6
<1>2. LoadParams(c, old) = [n \in NvIndex |-> LoadParams(c, old)[n]]
  BY DEF LoadParams
<1> QED
  BY <1>1, <1>2 DEF Array

\* What a field holds when the settings are loaded.
LEMMA LoadedValue ==
  ASSUME NEW c, NEW old, NEW k \in Fielded, NEW v, v = Get(c, k)
  PROVE  NvValue(LoadParams(c, old), k) =
           FieldValue(k, [i \in 1..Size[k] |-> FieldBytes(k, v, old)[i]])
<1>1. k \in Fields /\ k # "flags"
  BY FieldedIn
<1>2. \A i \in 1..Size[k] : LoadParams(c, old)[At[k] + i - 1] = FieldBytes(k, v, old)[i]
  <2>1. FieldOf(c, k, old) = FieldBytes(k, v, old)
    BY <1>1 DEF FieldOf
  <2> QED
    BY <1>1, <2>1, LoadedField
<1>3. FieldIn(LoadParams(c, old), k) = [i \in 1..Size[k] |-> FieldBytes(k, v, old)[i]]
  BY <1>2 DEF FieldIn
<1> QED
  BY <1>3, NvValueOfField

\* What the program takes for a setting that the variables can express, if it
\* fills them with the settings c: what is in c.
LEMMA LoadedKept ==
  ASSUME NEW c, Settings(c), NEW old, NEW k \in DOMAIN c \ Unset, Expressible(k, c[k]),
         k \in Texts => Clean(c[k]) = c[k]
  PROVE  NvValue(LoadParams(c, old), k) = c[k]
<1> DEFINE n == LoadParams(c, old)
           v == c[k]
<1>1. k \in Keys /\ v \in Value(k)
  BY DEF Settings
<1>2. CASE k \in Texts
  <2>0. Clean(v) = v
    BY <1>2
  <2>1. Len(v) <= Size[k] /\ (k = "turnout_file" => Len(v) >= 1)
    <3>1. CASE k = "turnout_file"
      <4>1. Len(Clean(v)) \in 1..Size[k]
        BY <1>2, <3>1 DEF Expressible
      <4> QED BY <2>0, <4>1, FieldPlaces
    <3>2. CASE k # "turnout_file"
      <4>1. k \in Texts \ {"turnout_file"} /\ k # "edserver"
        BY <1>2, <3>2 DEF Texts
      <4>2. Len(Clean(v)) <= Size[k]
        BY <3>2, <4>1, TextKind DEF Expressible
      <4> QED BY <2>0, <3>2, <4>2
    <3> QED BY <3>1, <3>2
  <2>2. k = "turnout_file" => v # <<>>
    BY <2>1
  <2>3. Get(c, k) = v
    BY <2>2 DEF Get
  <2>4. k # "fn_momentary" /\ k \in Fielded
    BY <1>2, TextKind DEF Fielded
  <2>5. FieldValue(k, [i \in 1..Size[k] |-> FieldBytes(k, v, old)[i]]) = v
    BY <1>1, <2>1, <2>4, FieldKept
  <2> QED
    BY <2>3, <2>4, <2>5, LoadedValue
<1>3. CASE k \in Ports \cup {"ap_channel", "fn_momentary"}
  <2>1. k \in Fielded /\ k \notin Texts /\ k # "turnout_file"
    BY <1>3, PortKind, OtherKind, FieldPlaces DEF Fielded, Ports, Texts
  <2>2. Get(c, k) = v
    BY <2>1 DEF Get
  <2>3. k = "fn_momentary" => v # {} /\ v \subseteq 0..28
    BY <2>1, OtherKind DEF Expressible
  <2>4. FieldValue(k, [i \in 1..Size[k] |-> FieldBytes(k, v, old)[i]]) = v
    BY <1>1, <2>1, <2>3, FieldKept
  <2> QED
    BY <2>1, <2>2, <2>4, LoadedValue
<1>4. CASE k \in Switches
  <2>1. k \in Flagged /\ k # "turnout_file"
    BY <1>4, KeySets, SwitchKind DEF Texts
  <2>2. Get(c, k) = v
    BY <2>1 DEF Get
  <2>3. v \in BOOLEAN
    BY <1>1, <1>4, SwitchValue
  <2>4. k = "edserver" => ~v
    BY <1>4, SwitchKind DEF Expressible
  <2>5. /\ Bit(n[0], 0) <=> Get(c, "ap_mode")
        /\ Bit(n[0], 1) <=> Get(c, "can_grid")
        /\ Bit(n[0], 4) <=> Get(c, "ap_no_password")
        /\ ~Bit(n[0], 6)
    BY FlagsLoaded
  <2>6. NvValue(n, k) <=> v
    BY <2>1, <2>2, <2>4, <2>5, NvValueIs DEF Flagged
  <2>7. NvValue(n, k) \in BOOLEAN
    BY <2>1, NvValueIs DEF Flagged, Bit
  <2> QED
    BY <2>3, <2>6, <2>7
<1>5. CASE k = "loglevel"
  <2>1. v \in {"INFO", "WARN", "DEBUG"}
    BY <1>5, OtherKind DEF Expressible, LogBits
  <2>2. Get(c, k) = v
    BY <1>5 DEF Get
  <2>3. (n[0] \div 4) % 4 = (IF v = "WARN" THEN 1 ELSE 0) + 2 * (IF v = "DEBUG" THEN 1 ELSE 0)
    BY <1>5, <2>2, FlagsLoaded
  <2>4. NvToLogLevel(n[0]) = v
    <3> DEFINE q == (n[0] \div 4) % 4
    <3>1. /\ v = "WARN" => q = 1
          /\ v = "DEBUG" => q = 2
          /\ v = "INFO" => q = 0
      BY <2>3
    <3>2. NvToLogLevel(n[0]) = IF q = 1 THEN "WARN" ELSE IF q = 2 THEN "DEBUG" ELSE "INFO"
      BY DEF NvToLogLevel
    <3> HIDE DEF q
    <3> QED BY <2>1, <3>1, <3>2
  <2> QED
    BY <1>5, <2>4, NvValueIs
<1> QED
  BY <1>1, <1>2, <1>3, <1>4, <1>5, KeySorts

\* x is the sum of these bits, the lowest first.
Summed(x, a, b, c, d, e, f, g, h) ==
  /\ a \in {0, 1} /\ b \in {0, 1} /\ c \in {0, 1} /\ d \in {0, 1}
  /\ e \in {0, 1} /\ f \in {0, 1} /\ g \in {0, 1} /\ h \in {0, 1}
  /\ x = a + 2 * b + 4 * c + 8 * d + 16 * e + 32 * f + 64 * g + 128 * h

LEMMA SummedBits ==
  ASSUME NEW x, NEW a, NEW b, NEW c, NEW d, NEW e, NEW f, NEW g, NEW h,
         Summed(x, a, b, c, d, e, f, g, h)
  PROVE  /\ x \in Byte
         /\ Bit(x, 0) <=> a = 1
         /\ Bit(x, 1) <=> b = 1
         /\ Bit(x, 4) <=> e = 1
         /\ Bit(x, 6) <=> g = 1
         /\ (x \div 4) % 4 = c + 2 * d
<1>1. /\ a \in {0, 1} /\ b \in {0, 1} /\ c \in {0, 1} /\ d \in {0, 1}
      /\ e \in {0, 1} /\ f \in {0, 1} /\ g \in {0, 1} /\ h \in {0, 1}
      /\ x = a + 2 * b + 4 * c + 8 * d + 16 * e + 32 * f + 64 * g + 128 * h
  BY DEF Summed
<1>2. /\ x \in Byte
      /\ x % 2 = a
      /\ (x \div 2) % 2 = b
      /\ (x \div 16) % 2 = e
      /\ (x \div 64) % 2 = g
      /\ (x \div 4) % 4 = c + 2 * d
  BY <1>1, Binary
<1> QED
  BY <1>2, Bits8

-----------------------------------------------------------------------------
(* The first byte.                                                         *)

\* Every byte is the sum of its bits.
LEMMA ByteSum ==
  ASSUME NEW x \in Byte
  PROVE  \E A, B, C, D, E, F, G, H \in {0, 1} :
           /\ Summed(x, A, B, C, D, E, F, G, H)
           /\ Flag(Bit(x, 0), 0) = A
           /\ Flag(Bit(x, 1), 1) = 2 * B
           /\ Flag(Bit(x, 2), 2) = 4 * C
           /\ Flag(Bit(x, 3), 3) = 8 * D
           /\ Flag(Bit(x, 4), 4) = 16 * E
           /\ Flag(Bit(x, 6), 6) = 64 * G
<1>1. /\ Bit(x, 0) \in BOOLEAN /\ Bit(x, 1) \in BOOLEAN /\ Bit(x, 2) \in BOOLEAN
      /\ Bit(x, 3) \in BOOLEAN /\ Bit(x, 4) \in BOOLEAN /\ Bit(x, 6) \in BOOLEAN
  BY DEF Bit
<1> DEFINE A == x % 2            B == (x \div 2) % 2    C == (x \div 4) % 2
           D == (x \div 8) % 2   E == (x \div 16) % 2   F == (x \div 32) % 2
           G == (x \div 64) % 2  H == (x \div 128) % 2
<1>2. (x = A + 2 * B + 4 * C + 8 * D + 16 * E + 32 * F + 64 * G + 128 * H)
  BY SMT DEF Byte
<1>3. A \in {0, 1} /\ B \in {0, 1} /\ C \in {0, 1} /\ D \in {0, 1}
  BY SMT DEF Byte
<1>4. E \in {0, 1} /\ F \in {0, 1} /\ G \in {0, 1} /\ H \in {0, 1}
  BY SMT DEF Byte
<1>5. /\ Bit(x, 0) <=> A = 1
      /\ Bit(x, 1) <=> B = 1
      /\ Bit(x, 2) <=> C = 1
      /\ Bit(x, 3) <=> D = 1
      /\ Bit(x, 4) <=> E = 1
      /\ Bit(x, 6) <=> G = 1
  BY Bits8
<1> HIDE DEF A, B, C, D, E, F, G, H
<1>6. /\ Flag(Bit(x, 0), 0) = A
      /\ Flag(Bit(x, 1), 1) = 2 * B
      /\ Flag(Bit(x, 2), 2) = 4 * C
      /\ Flag(Bit(x, 3), 3) = 8 * D
  BY <1>1, <1>3, <1>5, Flags8
<1>7. /\ Flag(Bit(x, 4), 4) = 16 * E
      /\ Flag(Bit(x, 6), 6) = 64 * G
  BY <1>1, <1>4, <1>5, Flags8
<1>8. Summed(x, A, B, C, D, E, F, G, H)
  BY <1>2, <1>3, <1>4 DEF Summed
<1> QED
  BY <1>3, <1>4, <1>6, <1>7, <1>8

\* The bits that are read from the first byte.
SameBits(x, y, b) ==
  \A j \in {0, 1, 4, 6} \ {b} : Bit(x, j) <=> Bit(y, j)

\* A switch in the first byte.
Switched(p, b, v) == p - Flag(Bit(p, b), b) + Flag(v, b)

LEMMA SwitchBits ==
  ASSUME NEW p \in Byte, NEW b \in {0, 1, 4, 6}, NEW v \in BOOLEAN,
         NEW x, x = Switched(p, b, v)
  PROVE  /\ x \in Byte /\ (Bit(x, b) <=> v)
         /\ SameBits(x, p, b) /\ (x \div 4) % 4 = (p \div 4) % 4
<1>1. PICK A, B, C, D, E, F, G, H \in {0, 1} :
           /\ Summed(p, A, B, C, D, E, F, G, H)
           /\ Flag(Bit(p, 0), 0) = A
           /\ Flag(Bit(p, 1), 1) = 2 * B
           /\ Flag(Bit(p, 2), 2) = 4 * C
           /\ Flag(Bit(p, 3), 3) = 8 * D
           /\ Flag(Bit(p, 4), 4) = 16 * E
           /\ Flag(Bit(p, 6), 6) = 64 * G
  BY ByteSum
<1>2. /\ Bit(p, 0) <=> A = 1
      /\ Bit(p, 1) <=> B = 1
      /\ Bit(p, 4) <=> E = 1
      /\ Bit(p, 6) <=> G = 1
      /\ (p \div 4) % 4 = C + 2 * D
  <2>1. Summed(p, A, B, C, D, E, F, G, H)
    BY <1>1
  <2> QED
    BY <2>1, SummedBits
<1> DEFINE V == IF v THEN 1 ELSE 0
<1>3. V \in {0, 1} /\ (V = 1 <=> v)
  OBVIOUS
<1>4. /\ Flag(v, 0) = V
      /\ Flag(v, 1) = 2 * V
      /\ Flag(v, 4) = 16 * V
      /\ Flag(v, 6) = 64 * V
  BY Flags8
<1> HIDE DEF V
<1>5. CASE b = 0
  <2>1. Summed(x, V, B, C, D, E, F, G, H)
    BY <1>1, <1>3, <1>4, <1>5 DEF Summed, Switched
  <2>2. /\ x \in Byte
        /\ Bit(x, 0) <=> V = 1
        /\ Bit(x, 1) <=> B = 1
        /\ Bit(x, 4) <=> E = 1
        /\ Bit(x, 6) <=> G = 1
        /\ (x \div 4) % 4 = C + 2 * D
    BY <2>1, SummedBits
  <2> QED
    BY <1>2, <1>3, <1>5, <2>2 DEF SameBits
<1>6. CASE b = 1
  <2>1. Summed(x, A, V, C, D, E, F, G, H)
    BY <1>1, <1>3, <1>4, <1>6 DEF Summed, Switched
  <2>2. /\ x \in Byte
        /\ Bit(x, 0) <=> A = 1
        /\ Bit(x, 1) <=> V = 1
        /\ Bit(x, 4) <=> E = 1
        /\ Bit(x, 6) <=> G = 1
        /\ (x \div 4) % 4 = C + 2 * D
    BY <2>1, SummedBits
  <2> QED
    BY <1>2, <1>3, <1>6, <2>2 DEF SameBits
<1>7. CASE b = 4
  <2>1. Summed(x, A, B, C, D, V, F, G, H)
    BY <1>1, <1>3, <1>4, <1>7 DEF Summed, Switched
  <2>2. /\ x \in Byte
        /\ Bit(x, 0) <=> A = 1
        /\ Bit(x, 1) <=> B = 1
        /\ Bit(x, 4) <=> V = 1
        /\ Bit(x, 6) <=> G = 1
        /\ (x \div 4) % 4 = C + 2 * D
    BY <2>1, SummedBits
  <2> QED
    BY <1>2, <1>3, <1>7, <2>2 DEF SameBits
<1>8. CASE b = 6
  <2>1. Summed(x, A, B, C, D, E, F, V, H)
    BY <1>1, <1>3, <1>4, <1>8 DEF Summed, Switched
  <2>2. /\ x \in Byte
        /\ Bit(x, 0) <=> A = 1
        /\ Bit(x, 1) <=> B = 1
        /\ Bit(x, 4) <=> E = 1
        /\ Bit(x, 6) <=> V = 1
        /\ (x \div 4) % 4 = C + 2 * D
    BY <2>1, SummedBits
  <2> QED
    BY <1>2, <1>3, <1>8, <2>2 DEF SameBits
<1> QED
  BY <1>5, <1>6, <1>7, <1>8

\* The level of the log in the first byte.
LEMMA LevelBits ==
  ASSUME NEW p \in Byte, NEW v \in {"INFO", "WARN", "DEBUG"},
         NEW x, x = p - Flag(Bit(p, 2), 2) - Flag(Bit(p, 3), 3) + LogBits[v]
  PROVE  /\ x \in Byte
         /\ \A j \in {0, 1, 4, 6} : Bit(x, j) <=> Bit(p, j)
         /\ NvToLogLevel(x) = v
<1>1. PICK A, B, C, D, E, F, G, H \in {0, 1} :
           /\ Summed(p, A, B, C, D, E, F, G, H)
           /\ Flag(Bit(p, 0), 0) = A
           /\ Flag(Bit(p, 1), 1) = 2 * B
           /\ Flag(Bit(p, 2), 2) = 4 * C
           /\ Flag(Bit(p, 3), 3) = 8 * D
           /\ Flag(Bit(p, 4), 4) = 16 * E
           /\ Flag(Bit(p, 6), 6) = 64 * G
  BY ByteSum
<1>2. /\ Bit(p, 0) <=> A = 1
      /\ Bit(p, 1) <=> B = 1
      /\ Bit(p, 4) <=> E = 1
      /\ Bit(p, 6) <=> G = 1
  BY <1>1, SummedBits
<1> DEFINE U == IF v = "WARN" THEN 1 ELSE 0
           V == IF v = "DEBUG" THEN 1 ELSE 0
<1>3. U \in {0, 1} /\ V \in {0, 1}
  OBVIOUS
<1>4. LogBits[v] = 4 * U + 8 * V
  <2>1. LogBits["INFO"] = 0 /\ LogBits["WARN"] = 4 /\ LogBits["DEBUG"] = 8
    BY DEF LogBits
  <2> QED
    BY <2>1
<1>5. Summed(x, A, B, U, V, E, F, G, H)
  <2> HIDE DEF U, V
  <2> QED BY <1>1, <1>3, <1>4 DEF Summed
<1>6. /\ x \in Byte
      /\ Bit(x, 0) <=> A = 1
      /\ Bit(x, 1) <=> B = 1
      /\ Bit(x, 4) <=> E = 1
      /\ Bit(x, 6) <=> G = 1
      /\ (x \div 4) % 4 = U + 2 * V
  <2> HIDE DEF U, V
  <2> QED BY <1>5, SummedBits
<1>7. \A j \in {0, 1, 4, 6} : Bit(x, j) <=> Bit(p, j)
  BY <1>2, <1>6
<1>8. NvToLogLevel(x) = v
  <2> DEFINE q == (x \div 4) % 4
  <2>1. /\ v = "WARN" => q = 1
        /\ v = "DEBUG" => q = 2
        /\ v = "INFO" => q = 0
    BY <1>6
  <2>2. NvToLogLevel(x) = IF q = 1 THEN "WARN" ELSE IF q = 2 THEN "DEBUG" ELSE "INFO"
    BY DEF NvToLogLevel
  <2> HIDE DEF q
  <2> QED BY <2>1, <2>2
<1> QED
  BY <1>6, <1>7, <1>8

-----------------------------------------------------------------------------
(* A change of one setting.                                                *)

\* Putting a field into the array.
LEMMA PutTyped ==
  ASSUME NEW n \in Array, NEW f \in Fields, NEW bytes, \A i \in 1..Size[f] : bytes[i] \in Byte
  PROVE  Put(n, f, bytes) \in Array
<1>1. At[f] \in Nat /\ Size[f] \in Nat
  BY FieldPlaces
<1>2. ASSUME NEW i \in NvIndex, i \in At[f]..(At[f] + Size[f] - 1)
      PROVE  bytes[i - At[f] + 1] \in Byte
  <2>1. i - At[f] + 1 \in 1..Size[f]
    BY <1>1, <1>2, FieldPlaces
  <2> QED
    BY <2>1
<1>3. \A i \in NvIndex : n[i] \in Byte
  BY DEF Array
<1> QED
  BY <1>2, <1>3 DEF Put, Array

LEMMA PutFieldIn ==
  ASSUME NEW n, NEW f \in Fields, NEW bytes, NEW g \in Fields
  PROVE  FieldIn(Put(n, f, bytes), g) =
           IF g = f THEN [i \in 1..Size[f] |-> bytes[i]] ELSE FieldIn(n, g)
<1>1. ASSUME NEW i \in 1..Size[g]
      PROVE  /\ g = f => Put(n, f, bytes)[At[g] + i - 1] = bytes[i]
             /\ g # f => Put(n, f, bytes)[At[g] + i - 1] = n[At[g] + i - 1]
  <2> DEFINE p == At[g] + i - 1
  <2>1. p \in NvIndex /\ p \in At[g]..(At[g] + Size[g] - 1) /\ p - At[g] + 1 = i
    BY FieldInArray
  <2>2. p \in At[f]..(At[f] + Size[f] - 1) => f = g
    BY FieldsDisjoint
  <2> HIDE DEF p
  <2>3. Put(n, f, bytes)[p] =
          IF p \in At[f]..(At[f] + Size[f] - 1) THEN bytes[p - At[f] + 1] ELSE n[p]
    BY <2>1 DEF Put
  <2>4. CASE g = f
    BY <2>1, <2>3, <2>4 DEF p
  <2>5. CASE g # f
    BY <2>2, <2>3, <2>5 DEF p
  <2> QED
    BY <2>4, <2>5
<1>2. CASE g = f
  BY <1>1, <1>2 DEF FieldIn
<1>3. CASE g # f
  BY <1>1, <1>3 DEF FieldIn
<1> QED
  BY <1>2, <1>3

LEMMA PutFlags ==
  ASSUME NEW n, NEW f \in Fields, NEW bytes
  PROVE  Put(n, f, bytes)[0] = IF f = "flags" THEN bytes[1] ELSE n[0]
<1>1. Put(n, f, bytes)[0] =
        IF 0 \in At[f]..(At[f] + Size[f] - 1) THEN bytes[0 - At[f] + 1] ELSE n[0]
  BY FieldPlaces DEF Put
<1>2. CASE f = "flags"
  BY <1>1, <1>2, FieldPlaces
<1>3. CASE f # "flags"
  <2>1. At[f] > 0
    BY <1>3, FieldPlaces
  <2> QED
    BY <1>1, <1>3, <2>1, FieldPlaces
<1> QED
  BY <1>2, <1>3

LEMMA PutFlagsByte ==
  ASSUME NEW n, NEW bytes
  PROVE  Put(n, "flags", bytes)[0] = bytes[1]
<1>1. "flags" \in Fields
  BY FieldPlaces
<1>2. \A f \in Fields : Put(n, f, bytes)[0] = IF f = "flags" THEN bytes[1] ELSE n[0]
  BY PutFlags
<1> QED
  BY <1>1, <1>2

\* A tool's change.
LEMMA EditIs ==
  ASSUME NEW n, NEW v
  PROVE  /\ \A k \in Switches :
              WithEdit(n, k, v) = Put(n, "flags", <<Switched(n[0], FlagBit[k], v)>>)
         /\ WithEdit(n, "loglevel", v) =
              Put(n, "flags", <<n[0] - Flag(Bit(n[0], 2), 2) - Flag(Bit(n[0], 3), 3) + LogBits[v]>>)
         /\ \A k \in Fielded : WithEdit(n, k, v) = Put(n, k, FieldBytes(k, v, <<0, 0, 0, 0>>))
<1>0. At.flags = 0
  BY DEF At
<1>1. ASSUME NEW k \in Switches
      PROVE  WithEdit(n, k, v) = Put(n, "flags", <<Switched(n[0], FlagBit[k], v)>>)
  BY <1>0, <1>1, SwitchKind DEF WithEdit, Switched
<1>2. WithEdit(n, "loglevel", v) =
        Put(n, "flags", <<n[0] - Flag(Bit(n[0], 2), 2) - Flag(Bit(n[0], 3), 3) + LogBits[v]>>)
  BY <1>0, OtherKind DEF WithEdit
<1>3. ASSUME NEW k \in Fielded
      PROVE  WithEdit(n, k, v) = Put(n, k, FieldBytes(k, v, <<0, 0, 0, 0>>))
  <2>1. k \notin Switches /\ k # "loglevel"
    BY <1>3, PortKind, TextKind, OtherKind DEF Fielded
  <2> QED
    BY <2>1 DEF WithEdit
<1> QED
  BY <1>1, <1>2, <1>3

\* The first byte after a change of a switch, and of the level of the log.
LEMMA SwitchEdit ==
  ASSUME NEW n \in Array, NEW k \in Flagged, NEW v \in BOOLEAN,
         NEW x, x = WithEdit(n, k, v)[0]
  PROVE  /\ WithEdit(n, k, v) \in Array
         /\ Bit(x, FlagBit[k]) <=> v
         /\ SameBits(x, n[0], FlagBit[k])
         /\ NvToLogLevel(x) = NvToLogLevel(n[0])
<1> DEFINE y == Switched(n[0], FlagBit[k], v)
<1>1. n[0] \in Byte /\ k \in Switches /\ FlagBit[k] \in {0, 1, 4, 6}
  BY FieldPlaces, KeySets DEF Array, Flagged, FlagBit
<1> HIDE DEF y
<1>2. WithEdit(n, k, v) = Put(n, "flags", <<y>>)
  BY <1>1, EditIs DEF y
<1>3. x = y
  <2>2. Put(n, "flags", <<y>>)[0] = <<y>>[1]
    BY PutFlagsByte, Zenon
  <2>3. <<y>>[1] = y
    OBVIOUS
  <2> QED
    BY <1>2, <2>2, <2>3
<1>4. /\ y \in Byte /\ (Bit(y, FlagBit[k]) <=> v)
      /\ SameBits(y, n[0], FlagBit[k]) /\ (y \div 4) % 4 = (n[0] \div 4) % 4
  BY <1>1, SwitchBits DEF y
<1>5. NvToLogLevel(y) = NvToLogLevel(n[0])
  BY <1>4 DEF NvToLogLevel
<1>6. WithEdit(n, k, v) \in Array
  <2>1. \A i \in 1..Size["flags"] : <<y>>[i] \in Byte
    BY <1>4, FieldPlaces
  <2> QED
    BY <1>2, <2>1, PutTyped, FieldPlaces
<1> QED
  BY <1>3, <1>4, <1>5, <1>6

LEMMA LevelEdit ==
  ASSUME NEW n \in Array, NEW v \in DOMAIN LogBits,
         NEW x, x = WithEdit(n, "loglevel", v)[0]
  PROVE  /\ WithEdit(n, "loglevel", v) \in Array
         /\ \A j \in {0, 1, 4, 6} : Bit(x, j) <=> Bit(n[0], j)
         /\ NvToLogLevel(x) = v
<1> DEFINE y == n[0] - Flag(Bit(n[0], 2), 2) - Flag(Bit(n[0], 3), 3) + LogBits[v]
<1>1. n[0] \in Byte /\ v \in {"INFO", "WARN", "DEBUG"}
  BY FieldPlaces DEF Array, LogBits
<1> HIDE DEF y
<1>2. WithEdit(n, "loglevel", v) = Put(n, "flags", <<y>>)
  BY EditIs DEF y
<1>3. x = y
  <2>2. Put(n, "flags", <<y>>)[0] = <<y>>[1]
    BY PutFlagsByte, Zenon
  <2>3. <<y>>[1] = y
    OBVIOUS
  <2> QED
    BY <1>2, <2>2, <2>3
<1>4. /\ y \in Byte
      /\ \A j \in {0, 1, 4, 6} : Bit(y, j) <=> Bit(n[0], j)
      /\ NvToLogLevel(y) = v
  BY <1>1, LevelBits DEF y
<1>6. WithEdit(n, "loglevel", v) \in Array
  <2>1. \A i \in 1..Size["flags"] : <<y>>[i] \in Byte
    BY <1>4, FieldPlaces
  <2> QED
    BY <1>2, <2>1, PutTyped, FieldPlaces
<1> QED
  BY <1>3, <1>4, <1>6

\* A change of a setting with a field of its own.
LEMMA FieldEdit ==
  ASSUME NEW n \in Array, NEW k \in Fielded, NEW v \in Value(k)
  PROVE  /\ WithEdit(n, k, v) \in Array
         /\ WithEdit(n, k, v)[0] = n[0]
         /\ FieldIn(WithEdit(n, k, v), k) =
              [i \in 1..Size[k] |-> FieldBytes(k, v, <<0, 0, 0, 0>>)[i]]
         /\ \A j \in Fielded \ {k} : FieldIn(WithEdit(n, k, v), j) = FieldIn(n, j)
<1> DEFINE bytes == FieldBytes(k, v, <<0, 0, 0, 0>>)
<1>1. WithEdit(n, k, v) = Put(n, k, bytes)
  BY EditIs
<1>2. k \in Fields /\ k # "flags" /\ Fielded \subseteq Fields
  BY FieldedIn
<1>3. \A i \in 1..Size[k] : bytes[i] \in Byte
  <2>1. <<0, 0, 0, 0>> \in [1..4 -> Byte]
    BY DEF Byte
  <2> QED
    BY <2>1, FieldBytesTyped DEF Fielded
<1> HIDE DEF bytes
<1>4. Put(n, k, bytes) \in Array
  BY <1>2, <1>3, PutTyped
<1>5. Put(n, k, bytes)[0] = n[0]
  BY <1>2, PutFlags
<1>6. FieldIn(Put(n, k, bytes), k) = [i \in 1..Size[k] |-> bytes[i]]
  BY <1>2, PutFieldIn
<1>7. \A j \in Fielded \ {k} : FieldIn(Put(n, k, bytes), j) = FieldIn(n, j)
  BY <1>2, PutFieldIn
<1> QED
  BY <1>1, <1>4, <1>5, <1>6, <1>7 DEF bytes

\* The settings that a tool can change.
LEMMA SetKeys ==
  ASSUME NEW k \in Keys \ Unset
  PROVE  k \in Flagged \/ k \in Fielded \/ k = "loglevel"
  BY KeySorts, KeySets DEF Fielded

LEMMA RoomIs ==
  ASSUME NEW k \in Keys \ Unset, NEW v \in Room(k)
  PROVE  /\ v \in Value(k)
         /\ k \in Texts => Len(v) <= Size[k]
         /\ k = "loglevel" => v \in DOMAIN LogBits
         /\ k = "fn_momentary" => v \subseteq 0..28
<1>1. CASE k \in Texts
  <2>1. v \in {s \in Value(k) : Len(s) <= Size[k]}
    BY <1>1, TextKind DEF Room
  <2> QED
    BY <1>1, <2>1, TextKind
<1>2. CASE k = "loglevel"
  <2>1. v \in DOMAIN LogBits
    BY <1>2, OtherKind DEF Room
  <2>2. v \in Value(k)
    BY <1>2, <2>1, ValueIs DEF LogBits
  <2> QED
    BY <1>2, <2>1, <2>2, OtherKind
<1>3. CASE k = "fn_momentary"
  <2>1. v \in SUBSET (0..28)
    BY <1>3, OtherKind DEF Room
  <2>2. v \in Value(k)
    <3>1. v \in SUBSET (0..31)
      BY <2>1
    <3> QED BY <1>3, <3>1, ValueIs
  <2> QED
    BY <1>3, <2>1, <2>2, OtherKind
<1>4. CASE k \notin Texts \cup {"loglevel", "fn_momentary"}
  BY <1>4 DEF Room
<1> QED
  BY <1>1, <1>2, <1>3, <1>4

LEMMA EditTyped ==
  ASSUME NEW n \in Array, NEW k \in Keys \ Unset, NEW v \in Room(k)
  PROVE  WithEdit(n, k, v) \in Array
<1>1. v \in Value(k) /\ (k = "loglevel" => v \in DOMAIN LogBits)
  BY RoomIs
<1>2. CASE k \in Flagged
  BY <1>1, <1>2, SwitchEdit, SwitchValue, KeySets
<1>3. CASE k \in Fielded
  BY <1>1, <1>3, FieldEdit
<1>4. CASE k = "loglevel"
  BY <1>1, <1>4, LevelEdit
<1> QED
  BY <1>2, <1>3, <1>4, SetKeys

\* The variables with a tool's change give the setting its new value.
LEMMA EditKept ==
  ASSUME NEW n \in Array, NEW k \in Keys \ Unset, NEW v \in Room(k), Expressible(k, v)
  PROVE  NvValue(WithEdit(n, k, v), k) = v
<1>1. /\ v \in Value(k)
      /\ k \in Texts => Len(v) <= Size[k]
      /\ k = "loglevel" => v \in DOMAIN LogBits
  BY RoomIs
<1>2. CASE k \in Flagged
  <2> DEFINE x == WithEdit(n, k, v)[0]
  <2>1. v \in BOOLEAN
    BY <1>1, <1>2, SwitchValue, KeySets
  <2>2. Bit(x, FlagBit[k]) <=> v
    BY <1>2, <2>1, SwitchEdit
  <2>3. NvValue(WithEdit(n, k, v), k) = Bit(x, FlagBit[k])
    <3>1. /\ FlagBit["ap_mode"] = 0 /\ FlagBit["can_grid"] = 1
          /\ FlagBit["ap_no_password"] = 4 /\ FlagBit["edserver"] = 6
      BY DEF FlagBit
    <3> QED
      BY <1>2, <3>1, NvValueIs DEF Flagged
  <2>4. Bit(x, FlagBit[k]) \in BOOLEAN
    BY DEF Bit
  <2> QED
    BY <2>1, <2>2, <2>3, <2>4
<1>3. CASE k \in Fielded
  <2>1. k = "fn_momentary" => v # {} /\ v \subseteq 0..28
    BY OtherKind DEF Expressible
  <2>2. FieldValue(k, [i \in 1..Size[k] |-> FieldBytes(k, v, <<0, 0, 0, 0>>)[i]]) = v
    BY <1>1, <1>3, <2>1, FieldKept
  <2>3. FieldIn(WithEdit(n, k, v), k) = [i \in 1..Size[k] |-> FieldBytes(k, v, <<0, 0, 0, 0>>)[i]]
    BY <1>1, <1>3, FieldEdit
  <2> QED
    BY <1>3, <2>2, <2>3, NvValueOfField
<1>4. CASE k = "loglevel"
  BY <1>1, <1>4, LevelEdit, NvValueIs
<1> QED
  BY <1>2, <1>3, <1>4, SetKeys

\* They give no other setting another value.
LEMMA EditOthers ==
  ASSUME NEW n \in Array, NEW k \in Keys \ Unset, NEW v \in Room(k),
         NEW j \in Keys \ Unset, j # k
  PROVE  NvValue(WithEdit(n, k, v), j) = NvValue(n, j)
<1> SUFFICES ASSUME NEW m, m = WithEdit(n, k, v)
             PROVE  NvValue(m, j) = NvValue(n, j)
  OBVIOUS
<1>1. v \in Value(k) /\ (k = "loglevel" => v \in DOMAIN LogBits)
  BY RoomIs
<1>2. CASE k \in Fielded
  <2>1. m[0] = n[0] /\ \A f \in Fielded \ {k} : FieldIn(m, f) = FieldIn(n, f)
    BY <1>1, <1>2, FieldEdit
  <2>2. CASE j \in Fielded
    BY <2>1, <2>2, NvValueOfField
  <2>3. CASE j \in Flagged \cup {"loglevel"}
    BY <2>1, <2>3, NvValueIs DEF Flagged
  <2> QED
    BY <2>2, <2>3, SetKeys
<1>3. CASE k \in Flagged \cup {"loglevel"}
  <2>1. \A f \in Fielded : FieldIn(m, f) = FieldIn(n, f)
    <3>1. \E bytes : m = Put(n, "flags", bytes)
      BY <1>3, EditIs, KeySets
    <3> QED
      BY <3>1, PutFieldIn, FieldedIn, FieldPlaces
  <2>2. CASE j \in Fielded
    BY <2>1, <2>2, NvValueOfField
  <2>3. CASE k = "loglevel"
    <3>1. \A b \in {0, 1, 4, 6} : Bit(m[0], b) <=> Bit(n[0], b)
      BY <1>1, <2>3, LevelEdit
    <3>2. CASE j \in Flagged
      BY <3>1, <3>2, NvValueIs DEF Flagged, Bit
    <3> QED
      BY <2>2, <2>3, <3>2, SetKeys
  <2>4. CASE k \in Flagged
    <3>1. v \in BOOLEAN
      BY <1>1, <2>4, SwitchValue, KeySets
    <3>2. SameBits(m[0], n[0], FlagBit[k]) /\ NvToLogLevel(m[0]) = NvToLogLevel(n[0])
      BY <2>4, <3>1, SwitchEdit
    <3>3. /\ FlagBit["ap_mode"] = 0 /\ FlagBit["can_grid"] = 1
          /\ FlagBit["ap_no_password"] = 4 /\ FlagBit["edserver"] = 6
      BY DEF FlagBit
    <3>4. CASE j = "loglevel"
      BY <3>2, <3>4, NvValueIs
    <3>5. CASE j \in Flagged
      <4>1. Bit(m[0], FlagBit[j]) <=> Bit(n[0], FlagBit[j])
        BY <2>4, <3>2, <3>3, <3>5 DEF Flagged, SameBits
      <4>2. /\ NvValue(m, j) = Bit(m[0], FlagBit[j])
            /\ NvValue(n, j) = Bit(n[0], FlagBit[j])
        BY <3>3, <3>5, NvValueIs DEF Flagged
      <4>3. Bit(m[0], FlagBit[j]) \in BOOLEAN /\ Bit(n[0], FlagBit[j]) \in BOOLEAN
        BY DEF Bit
      <4> QED
        BY <4>1, <4>2, <4>3
    <3> QED
      BY <2>2, <3>4, <3>5, SetKeys
  <2> QED
    BY <1>3, <2>3, <2>4
<1> QED
  BY <1>2, <1>3, SetKeys

\* What the variables hold is a value of the right type.
LEMMA NvValueTyped ==
  ASSUME NEW n \in Array, NEW k \in Keys \ Unset
  PROVE  NvValue(n, k) \in Value(k)
<1>1. CASE k \in Flagged
  <2>1. NvValue(n, k) \in BOOLEAN
    BY <1>1, NvValueIs DEF Flagged, Bit
  <2> QED
    BY <1>1, <2>1, SwitchValue, KeySets
<1>2. CASE k = "loglevel"
  <2>1. NvToLogLevel(n[0]) \in {"INFO", "WARN", "DEBUG"}
    BY DEF NvToLogLevel
  <2> QED
    BY <1>2, <2>1, NvValueIs, ValueIs
<1>3. CASE k \in Fielded
  <2> DEFINE s == FieldIn(n, k)
  <2>1. Size[k] \in Nat
    BY <1>3, FieldedIn, FieldPlaces
  <2>2. s \in [1..Size[k] -> Byte]
    <3>1. \A i \in 1..Size[k] : n[At[k] + i - 1] \in Byte
      BY <1>3, FieldedIn, FieldInArray DEF Array
    <3> QED
      BY <3>1 DEF FieldIn
  <2>3. NvValue(n, k) = FieldValue(k, s)
    BY <1>3, NvValueOfField
  <2> HIDE DEF s
  <2>4. CASE k \in Ports
    <3>1. Size[k] = 2
      BY <2>4, FieldPlaces DEF Ports
    <3>2. s[1] \in Byte /\ s[2] \in Byte
      BY <2>2, <3>1
    <3>3. NvToInt(s) \in Word
      <4>1. \A a, b \in Byte : a + 256 * b \in Word
        BY DEF Byte, Word
      <4> QED
        BY <3>2, <4>1 DEF NvToInt
    <3> QED
      BY <2>3, <2>4, <3>3, FieldValueIs, ValueIs
  <2>5. CASE k \in Texts
    <3>1. s \in Seq(Byte)
      BY <2>1, <2>2
    <3>2. Byte \ {0} = Character
      BY DEF Byte, Character
    <3>3. Without(s, {0}) \in Seq(Byte \ {0})
      BY <3>1, WithoutTyped
    <3>4. NvToString(s) \in Seq(Character)
      BY <3>2, <3>3 DEF NvToString
    <3> QED
      BY <2>3, <2>5, <3>4, FieldValueIs, ValueIs
  <2>6. CASE k = "ap_channel"
    <3>1. s[1] \in Byte
      BY <2>2, <2>6, FieldPlaces
    <3> QED
      BY <2>3, <2>6, <3>1, FieldValueIs, ValueIs
  <2>7. CASE k = "fn_momentary"
    <3>1. NvToMomentary(s) \in SUBSET (0..31)
      BY DEF NvToMomentary
    <3> QED
      BY <2>3, <2>7, <3>1, FieldValueIs, ValueIs
  <2> QED
    BY <1>3, <2>4, <2>5, <2>6, <2>7 DEF Fielded
<1> QED
  BY <1>1, <1>2, <1>3, SetKeys

-----------------------------------------------------------------------------
(* Texts without what loadConfig takes out of a line.                      *)

LEMMA WithoutIn ==
  ASSUME NEW s \in Seq(Character), NEW bad
  PROVE  Without(s, bad) \in Seq(Character)
<1> DEFINE B == Character \ bad
<1>1. Without(s, bad) \in Seq(B)
  BY WithoutTyped
<1>2. B \subseteq Character
  OBVIOUS
<1> HIDE DEF B
<1> QED
  BY <1>1, <1>2, SeqMonotonic

LEMMA CleanTwice ==
  ASSUME NEW s \in Seq(Character)
  PROVE  /\ Clean(s) \in Seq(Character)
         /\ Clean(Clean(s)) = Clean(s)
         /\ Clean(Without(s, {34, 59})) = Clean(s)
<1>1. {34, 59} \subseteq {34, 59, 32}
  OBVIOUS
<1>2. Without(Without(s, {34, 59}), {34, 59, 32}) = Without(s, {34, 59, 32})
  BY <1>1, WithoutTwice
<1>3. Without(Without(s, {34, 59, 32}), {34, 59, 32}) = Without(s, {34, 59, 32})
  BY WithoutTwice
<1> QED
  BY <1>2, <1>3, WithoutIn DEF Clean

\* A value as loadConfig takes it.
Bare(k, v) == IF k \in Texts THEN Clean(v) ELSE v

LEMMA BareTwice ==
  ASSUME NEW k, NEW v \in Value(k)
  PROVE  Bare(k, v) \in Value(k) /\ Bare(k, Bare(k, v)) = Bare(k, v)
<1>1. CASE k \in Texts
  BY <1>1, ValueIs, CleanTwice DEF Bare
<1>2. CASE k \notin Texts
  BY <1>2 DEF Bare
<1> QED
  BY <1>1, <1>2

LEMMA CleanedIs ==
  ASSUME NEW c, Settings(c)
  PROVE  /\ Settings(Cleaned(c)) /\ DOMAIN Cleaned(c) = DOMAIN c
         /\ \A k \in DOMAIN c : Cleaned(c)[k] = Bare(k, c[k])
<1>1. DOMAIN Cleaned(c) = DOMAIN c /\ \A k \in DOMAIN c : Cleaned(c)[k] = Bare(k, c[k])
  BY DEF Cleaned, Bare
<1>2. \A k \in DOMAIN c : Bare(k, c[k]) \in Value(k)
  BY BareTwice DEF Settings
<1> QED
  BY <1>1, <1>2 DEF Settings

\* Whether the variables can express a value is not seen from its blanks.
LEMMA ExpressibleBare ==
  ASSUME NEW k \in Keys, NEW v \in Value(k), NEW w \in Value(k), Bare(k, v) = Bare(k, w),
         Expressible(k, v)
  PROVE  Expressible(k, w)
<1>1. CASE k \notin Texts
  BY <1>1 DEF Bare
<1>2. CASE k = "turnout_file"
  <2>1. k \in Texts
    BY <1>2 DEF Texts
  <2> QED
    BY <1>2, <2>1, TextKind DEF Bare, Expressible
<1>3. CASE k \in Texts \ {"turnout_file"}
  <2>1. k # "edserver"
    BY <1>3 DEF Texts
  <2> QED
    BY <1>3, <2>1, TextKind DEF Bare, Expressible
<1> QED
  BY <1>1, <1>2, <1>3

\* The form of the page changes no setting that the file holds.
LEMMA FormIs ==
  ASSUME NEW c, Settings(c)
  PROVE  /\ DOMAIN Form(c) = Keys /\ Settings(Form(c))
         /\ \A k \in DOMAIN c : Bare(k, Form(c)[k]) = Bare(k, c[k])
<1>1. ASSUME NEW k \in Keys PROVE PageDefault[k] \in Value(k)
  <2>1. CASE k \in Switches
    <3>0. /\ k # "loglevel" /\ k # "ap_ssid" /\ k # "ap_password"
          /\ k # "service_name" /\ k # "fn_momentary"
      BY <2>1 DEF Switches
    <3>1. PageDefault[k] = TRUE
      BY <2>1, <3>0, Zenon DEF PageDefault
    <3>2. PageDefault[k] \in BOOLEAN
      BY <3>1, Zenon
    <3> QED
      BY <2>1, <3>2, SwitchValue
  <2>2. CASE k \in {"ap_ssid", "ap_password", "service_name"}
    <3>1. k \in Texts /\ k \notin Switches
      BY <2>2 DEF Texts, Switches
    <3>2. /\ <<99, 97, 110, 112, 105, 119, 105>> \in Seq(Character)
          /\ <<49, 50, 51, 52, 53, 54, 55, 56>> \in Seq(Character)
          /\ <<77, 121, 76, 97, 121, 111, 117, 116>> \in Seq(Character)
      BY DEF Character
    <3>3. PageDefault[k] \in Seq(Character)
      BY <2>2, <3>1, <3>2 DEF PageDefault
    <3> QED
      BY <3>1, <3>3, ValueIs
  <2>3. CASE k = "loglevel"
    <3>1. PageDefault[k] = "INFO"
      BY <2>3, OtherKind DEF PageDefault
    <3> QED
      BY <2>3, <3>1, ValueIs
  <2>4. CASE k = "fn_momentary"
    <3>1. PageDefault[k] = {2}
      BY <2>4, OtherKind DEF PageDefault
    <3>2. {2} \in SUBSET (0..31)
      OBVIOUS
    <3> QED
      BY <2>4, <3>1, <3>2, ValueIs
  <2>5. CASE k \notin Switches \cup {"ap_ssid", "ap_password", "service_name", "loglevel", "fn_momentary"}
    <3>1. PageDefault[k] = Default[k]
      BY <2>5 DEF PageDefault
    <3> QED
      BY <3>1, DefaultTyped
  <2> QED
    BY <2>1, <2>2, <2>3, <2>4, <2>5
<1>2. ASSUME NEW k \in DOMAIN c
      PROVE  Form(c)[k] \in Value(k) /\ Bare(k, Form(c)[k]) = Bare(k, c[k])
  <2>1. k \in Keys /\ c[k] \in Value(k)
    BY DEF Settings
  <2>2. CASE k \in Texts
    <3>1. Form(c)[k] = Without(c[k], {34, 59})
      BY <2>1, <2>2 DEF Form
    <3> QED
      BY <2>1, <2>2, <3>1, ValueIs, CleanTwice, WithoutIn DEF Bare
  <2>3. CASE k \notin Texts
    BY <2>1, <2>3 DEF Form, Bare
  <2> QED
    BY <2>2, <2>3
<1>3. \A k \in Keys : k \notin DOMAIN c => Form(c)[k] = PageDefault[k]
  BY DEF Form
<1>4. DOMAIN Form(c) = Keys
  BY DEF Form
<1> QED
  BY <1>1, <1>2, <1>3, <1>4 DEF Settings

-----------------------------------------------------------------------------
(* Types.                                                                  *)

\* A full set that is read back.
LEMMA SetFileTyped ==
  ASSUME NEW c, Settings(c), NEW n \in Array
  PROVE  /\ Settings(WithNVs(c, n)) /\ DOMAIN WithNVs(c, n) = DOMAIN c
         /\ \A k \in DOMAIN c : WithNVs(c, n)[k] = IF k \in Unset THEN c[k] ELSE NvValue(n, k)
<1>1. /\ DOMAIN WithNVs(c, n) = DOMAIN c
      /\ \A k \in DOMAIN c : WithNVs(c, n)[k] = IF k \in Unset THEN c[k] ELSE NvValue(n, k)
  BY DEF WithNVs
<1>2. \A k \in DOMAIN c \ Unset : NvValue(n, k) \in Value(k)
  BY NvValueTyped DEF Settings
<1> QED
  BY <1>1, <1>2 DEF Settings

\* A setting that is replaced.
LEMMA ChangedTyped ==
  ASSUME NEW c, Settings(c), NEW k \in DOMAIN c, NEW v \in Value(k),
         NEW d, d = [c EXCEPT ![k] = v]
  PROVE  /\ Settings(d) /\ DOMAIN d = DOMAIN c
         /\ d[k] = v
         /\ \A j \in DOMAIN c \ {k} : d[j] = c[j]
<1>1. DOMAIN d = DOMAIN c
  OBVIOUS
<1>2. d[k] = v
  OBVIOUS
<1>3. \A j \in DOMAIN c \ {k} : d[j] = c[j]
  OBVIOUS
<1>4. Settings(d)
  BY <1>1, <1>2, <1>3 DEF Settings
<1> QED
  BY <1>1, <1>2, <1>3, <1>4

LEMMA FilledTyped ==
  ASSUME NEW c, Settings(c), NEW n, Fill(c, n)
  PROVE  n \in Array
<1>1. PICK h \in Heap : n = LoadParams(c, [b \in 1..4 |-> h])
  BY DEF Fill
<1>2. [b \in 1..4 |-> h] \in [1..4 -> Byte]
  BY NodeVariablesAssumption
<1> QED
  BY <1>1, <1>2, LoadedTyped

LEMMA Entered ==
  /\ \A e \in ToolEdits : e[1] \in Keys \ Unset /\ e[2] \in Room(e[1]) /\ e[2] \in Value(e[1])
  /\ \A e \in PageEdits : e[1] \in Keys /\ e[2] \in Value(e[1])
  BY NodeVariablesAssumption, RoomIs

LEMMA TypeParts ==
  TypeOK <=> /\ Settings(config) /\ Settings(file) /\ Settings(meant)
             /\ nv \in Array /\ out \in Array
             /\ nvs_set \in 0..46 /\ at \in 0..47
             /\ edited \in BOOLEAN /\ events \in 0..MaxEvents
  BY FieldPlaces DEF TypeOK, Settings, Array

LEMMA InitTyped == Init => TypeOK
<1> SUFFICES ASSUME Init PROVE TypeOK
  OBVIOUS
<1>1. Settings(file)
  BY NodeVariablesAssumption DEF Init, Settings
<1>2. Settings(config)
  BY <1>1, CleanedIs DEF Init
<1>3. nv \in Array
  BY <1>2, FilledTyped DEF Init
<1>4. events \in 0..MaxEvents
  BY NodeVariablesAssumption DEF Init
<1>5. meant = file /\ out = nv /\ nvs_set = 0 /\ at = 0
  BY DEF Init
<1>6. edited \in BOOLEAN
  BY DEF Init
<1> QED
  BY <1>1, <1>2, <1>3, <1>4, <1>5, <1>6, TypeParts

\* The settings that users mean after a change with a tool.
LEMMA ToolMeant ==
  ASSUME NEW m, Settings(m), NEW k \in Keys, NEW v \in Value(k),
         NEW d, d = IF k \in DOMAIN m THEN [m EXCEPT ![k] = v] ELSE m
  PROVE  /\ Settings(d) /\ DOMAIN d = DOMAIN m
         /\ k \in DOMAIN m => d[k] = v
         /\ \A j \in DOMAIN m \ {k} : d[j] = m[j]
  BY ChangedTyped

LEMMA ToolTyped ==
  ASSUME TypeOK, NEW k \in Keys \ Unset, NEW v \in Room(k), ToolStarts(k, v)
  PROVE  TypeOK'
<1> USE DEF ToolStarts
<1>1. out' \in Array
  BY TypeParts, EditTyped
<1>2. Settings(meant')
  BY TypeParts, ToolMeant, RoomIs
<1>3. events' \in 0..MaxEvents
  BY TypeParts, NodeVariablesAssumption DEF Event
<1>4. at' = 1
  OBVIOUS
<1> QED
  BY <1>1, <1>2, <1>3, <1>4, TypeParts, FieldPlaces DEF TypeOK, Settings, Array

LEMMA NvSetTyped ==
  ASSUME TypeOK, NvSet
  PROVE  TypeOK'
<1> USE DEF NvSet
<1>1. nv' \in Array
  BY TypeParts, FieldPlaces DEF Array
<1>2. nvs_set' \in 0..46 /\ at' \in 0..47
  BY TypeParts, FieldPlaces
<1>3. Settings(file') /\ Settings(config')
  <2>1. CASE nvs_set' = 0
    <3>1. Settings(Cleaned(file))
      BY TypeParts, CleanedIs
    <3>2. Settings(file')
      BY <1>1, <2>1, <3>1, SetFileTyped
    <3> QED
      BY <2>1, <3>2, CleanedIs
  <2>2. CASE nvs_set' # 0
    BY <2>2, TypeParts
  <2> QED
    BY <2>1, <2>2
<1> QED
  BY <1>1, <1>2, <1>3, TypeParts, FieldPlaces DEF TypeOK, Settings, Array

\* Where f holds what m means, and where it holds nothing, g holds what d means.
Carried(f, m, g, d) ==
  \A x \in Keys : Bare(x, m[x]) = Bare(x, f[x]) \/ x \notin DOMAIN f
                  => Bare(x, d[x]) = Bare(x, g[x])

\* The file and what users mean after the page is saved.
LEMMA PageFile ==
  ASSUME NEW f, Settings(f), NEW m, Settings(m), DOMAIN m = DOMAIN f,
         NEW k \in Keys, NEW v \in Value(k),
         NEW g, g = [Form(f) EXCEPT ![k] = v],
         NEW d, d = [x \in Keys |-> IF x \in DOMAIN m /\ x # k THEN m[x] ELSE g[x]]
  PROVE  /\ Settings(g) /\ DOMAIN g = Keys /\ Settings(d) /\ DOMAIN d = Keys
         /\ Carried(f, m, g, d)
<1>1. /\ Settings(g) /\ DOMAIN g = Keys
      /\ \A x \in Keys \ {k} : g[x] = Form(f)[x]
  BY FormIs, ChangedTyped
<1>2. \A x \in Keys : g[x] \in Value(x)
  BY <1>1 DEF Settings
<1>3. /\ DOMAIN d = Keys
      /\ \A x \in Keys : d[x] = IF x \in DOMAIN m /\ x # k THEN m[x] ELSE g[x]
  OBVIOUS
<1>4. Settings(d)
  BY <1>2, <1>3 DEF Settings
<1>5. ASSUME NEW x \in Keys, Bare(x, m[x]) = Bare(x, f[x]) \/ x \notin DOMAIN f
      PROVE  Bare(x, d[x]) = Bare(x, g[x])
  <2>1. CASE x \in DOMAIN m /\ x # k
    <3>1. Bare(x, g[x]) = Bare(x, f[x])
      BY <1>1, <2>1, FormIs
    <3> QED
      BY <1>3, <1>5, <2>1, <3>1
  <2>2. CASE ~(x \in DOMAIN m /\ x # k)
    BY <1>3, <2>2
  <2> QED
    BY <2>1, <2>2
<1> QED
  BY <1>1, <1>3, <1>4, <1>5 DEF Carried

LEMMA PageTyped ==
  ASSUME TypeOK, NEW k \in Keys, NEW v \in Value(k), PageSaves(k, v)
  PROVE  TypeOK'
<1> USE DEF PageSaves
<1>1. Settings(file') /\ DOMAIN file' = Keys
  <2>1. Settings(Form(file)) /\ DOMAIN Form(file) = Keys
    BY TypeParts, FormIs
  <2>2. file' = [Form(file) EXCEPT ![k] = v]
    OBVIOUS
  <2>3. k \in DOMAIN Form(file)
    BY <2>1
  <2> HIDE DEF PageSaves
  <2> QED
    BY <2>1, <2>2, <2>3, ChangedTyped
<1>2. Settings(meant')
  BY <1>1, TypeParts DEF Settings
<1>3. events' \in 0..MaxEvents
  BY TypeParts, NodeVariablesAssumption DEF Event
<1> QED
  BY <1>1, <1>2, <1>3, TypeParts, FieldPlaces DEF TypeOK, Settings, Array

LEMMA RestartTyped ==
  ASSUME TypeOK, Restart
  PROVE  TypeOK'
<1> USE DEF Restart
<1>1. Settings(config')
  BY TypeParts, CleanedIs
<1>2. nv' \in Array
  BY <1>1, FilledTyped
<1>3. events' \in 0..MaxEvents
  BY TypeParts, NodeVariablesAssumption DEF Event
<1>4. at' \in 0..47 /\ nvs_set' = 0
  BY TypeParts
<1>6. edited' \in BOOLEAN
  OBVIOUS
<1>5. file' = file /\ out' = out /\ meant' = meant
  OBVIOUS
<1> HIDE DEF Restart
<1> QED
  BY <1>1, <1>2, <1>3, <1>4, <1>5, <1>6, TypeParts, FieldPlaces DEF TypeOK, Settings, Array

\* The types hold for every first file, every change of users and every
\* content of the memory, however often the program restarts, and whether or
\* not a tool ends its sets.
THEOREM NvTypes == Spec => []TypeOK
<1>1. TypeOK /\ [Next]_vars => TypeOK'
  <2> SUFFICES ASSUME TypeOK, [Next]_vars PROVE TypeOK'
    OBVIOUS
  <2>1. ASSUME NEW e \in ToolEdits, ToolStarts(e[1], e[2]) PROVE TypeOK'
    BY <2>1, Entered, ToolTyped
  <2>2. ASSUME NEW e \in PageEdits, PageSaves(e[1], e[2]) PROVE TypeOK'
    BY <2>2, Entered, PageTyped
  <2>3. CASE UNCHANGED vars
    BY <2>3 DEF vars, TypeOK
  <2> QED
    BY <2>1, <2>2, <2>3, NvSetTyped, RestartTyped DEF Next
<1> QED
  BY <1>1, InitTyped, PTL DEF Spec

-----------------------------------------------------------------------------
(* What users mean.                                                        *)

\* The variables n, and the file f, hold the settings m as far as the
\* variables can express them; what they have no place for is in the file.
Same(n, f, m) ==
  \A k \in DOMAIN f \ Unset :
    Expressible(k, m[k]) => Bare(k, NvValue(n, k)) = Bare(k, m[k])
Saved(f, m) == \A k \in DOMAIN f : Expressible(k, m[k]) => Bare(k, f[k]) = Bare(k, m[k])
Untouched(f, m) == \A k \in DOMAIN f \cap Unset : Bare(k, f[k]) = Bare(k, m[k])

\* The program starts with the file.
LEMMA SameLoaded ==
  ASSUME NEW f, Settings(f), NEW m, Settings(m), DOMAIN m = DOMAIN f, Saved(f, m),
         NEW c, c = Cleaned(f), NEW n, Fill(c, n)
  PROVE  Same(n, f, m)
<1>1. PICK old : n = LoadParams(c, old)
  BY DEF Fill
<1>2. /\ Settings(c) /\ DOMAIN c = DOMAIN f
      /\ \A k \in DOMAIN f : c[k] = Bare(k, f[k])
  BY CleanedIs
<1>3. ASSUME NEW k \in DOMAIN f \ Unset, Expressible(k, m[k])
      PROVE  Bare(k, NvValue(n, k)) = Bare(k, m[k])
  <2>1. /\ k \in Keys /\ f[k] \in Value(k) /\ m[k] \in Value(k)
        /\ c[k] \in Value(k) /\ c[k] = Bare(k, f[k])
    BY <1>2 DEF Settings
  <2>2. Bare(k, c[k]) = c[k]
    BY <2>1, BareTwice
  <2>3. c[k] = Bare(k, m[k])
    BY <1>3, <2>1 DEF Saved
  <2>4. Expressible(k, c[k])
    BY <1>3, <2>1, <2>2, <2>3, ExpressibleBare
  <2>5. k \in Texts => Clean(c[k]) = c[k]
    BY <2>2 DEF Bare
  <2>6. NvValue(n, k) = c[k]
    BY <1>1, <1>2, <2>4, <2>5, LoadedKept
  <2> QED
    BY <2>2, <2>3, <2>6
<1> QED
  BY <1>3 DEF Same

\* A tool changes a setting.
LEMMA SameEdited ==
  ASSUME NEW n \in Array, NEW f, NEW m, Settings(m), DOMAIN m = DOMAIN f, Same(n, f, m),
         NEW k \in Keys \ Unset, NEW v \in Room(k),
         NEW d, d = IF k \in DOMAIN m THEN [m EXCEPT ![k] = v] ELSE m
  PROVE  Same(WithEdit(n, k, v), f, d)
<1>1. /\ k \in DOMAIN m => d[k] = v
      /\ \A j \in DOMAIN m \ {k} : d[j] = m[j]
  BY ToolMeant, RoomIs
<1>2. ASSUME NEW j \in DOMAIN f \ Unset, Expressible(j, d[j])
      PROVE  Bare(j, NvValue(WithEdit(n, k, v), j)) = Bare(j, d[j])
  <2>1. CASE j = k
    <3>1. d[j] = v
      BY <1>1, <2>1
    <3>2. NvValue(WithEdit(n, k, v), k) = v
      BY <1>2, <2>1, <3>1, EditKept
    <3> QED
      BY <2>1, <3>1, <3>2
  <2>2. CASE j # k
    <3>1. d[j] = m[j] /\ j \in Keys
      BY <1>1, <2>2 DEF Settings
    <3>2. NvValue(WithEdit(n, k, v), j) = NvValue(n, j)
      BY <2>2, <3>1, EditOthers
    <3>3. Bare(j, NvValue(n, j)) = Bare(j, m[j])
      BY <1>2, <3>1 DEF Same
    <3> QED
      BY <3>1, <3>2, <3>3
  <2> QED
    BY <2>1, <2>2
<1> QED
  BY <1>2 DEF Same

\* A full set is read back.
LEMMA SameSet ==
  ASSUME NEW n \in Array, NEW f, Settings(f), NEW m, Same(n, f, m), Untouched(f, m),
         NEW g, g = WithNVs(Cleaned(f), n)
  PROVE  DOMAIN g = DOMAIN f /\ Saved(g, m) /\ Untouched(g, m) /\ Same(n, g, m)
<1>1. /\ Settings(Cleaned(f)) /\ DOMAIN Cleaned(f) = DOMAIN f
      /\ \A k \in DOMAIN f : Cleaned(f)[k] = Bare(k, f[k])
  BY CleanedIs
<1>2. /\ DOMAIN g = DOMAIN f
      /\ \A k \in DOMAIN f : g[k] = IF k \in Unset THEN Bare(k, f[k]) ELSE NvValue(n, k)
  BY <1>1, SetFileTyped
<1>3. \A k \in DOMAIN f : Bare(k, Bare(k, f[k])) = Bare(k, f[k])
  BY BareTwice DEF Settings
<1>4. Untouched(g, m)
  BY <1>2, <1>3 DEF Untouched
<1>5. Same(n, g, m)
  BY <1>2 DEF Same
<1>6. Saved(g, m)
  BY <1>2, <1>4, <1>5 DEF Saved, Same, Untouched
<1> QED
  BY <1>2, <1>4, <1>5, <1>6

\* The invariant. A set is written from variables that hold what users mean,
\* and what it has written of them is in the array.
NvInv ==
  /\ TypeOK
  /\ DOMAIN meant = DOMAIN file
  /\ Untouched(file, meant)
  /\ at = 0 => /\ nvs_set = 0 /\ Saved(file, meant)
               /\ ~edited => Same(nv, file, meant)
  /\ at # 0 => /\ ~edited /\ nvs_set = at - 1
               /\ Same(out, file, meant)
               /\ \A i \in 0..(at - 2) : nv[i] = out[i]

LEMMA InitInv == Init => NvInv
<1> SUFFICES ASSUME Init PROVE NvInv
  OBVIOUS
<1>1. TypeOK
  BY InitTyped
<1>2. meant = file /\ at = 0 /\ nvs_set = 0
  BY DEF Init
<1>3. Saved(file, meant) /\ Untouched(file, meant)
  BY <1>2 DEF Saved, Untouched
<1>4. Same(nv, file, meant)
  <2>1. Settings(file) /\ Settings(meant)
    BY <1>1, TypeParts
  <2>2. Fill(config, nv) /\ config = Cleaned(file)
    BY DEF Init
  <2> QED
    BY <1>2, <1>3, <2>1, <2>2, SameLoaded
<1> QED
  BY <1>1, <1>2, <1>3, <1>4 DEF NvInv

LEMMA ToolInv ==
  ASSUME Whole, Applied, NvInv, NEW k \in Keys \ Unset, NEW v \in Room(k), ToolStarts(k, v)
  PROVE  NvInv'
<1>1. TypeOK /\ Settings(meant) /\ nv \in Array
  BY TypeParts DEF NvInv
<1>2. TypeOK'
  BY <1>1, ToolTyped
<1>3. /\ at = 0 /\ ~edited /\ at' = 1 /\ out' = WithEdit(nv, k, v)
      /\ meant' = IF k \in DOMAIN meant THEN [meant EXCEPT ![k] = v] ELSE meant
      /\ file' = file /\ nv' = nv /\ nvs_set' = nvs_set
  BY DEF ToolStarts
<1>4. edited' = edited
  BY DEF ToolStarts
<1>5. /\ DOMAIN meant = DOMAIN file /\ Untouched(file, meant)
      /\ nvs_set = 0 /\ Same(nv, file, meant)
  BY <1>3 DEF NvInv
<1>6. /\ DOMAIN meant' = DOMAIN meant
      /\ \A j \in DOMAIN meant \ {k} : meant'[j] = meant[j]
  BY <1>1, <1>3, RoomIs, ToolMeant
<1>7. Same(out', file', meant')
  BY <1>1, <1>3, <1>5, SameEdited
<1>8. Untouched(file', meant')
  BY <1>3, <1>5, <1>6 DEF Untouched
<1>9. nvs_set' = at' - 1 /\ 0..(at' - 2) = {}
  BY <1>3, <1>5
<1>10. ~edited'
  BY <1>3, <1>4
<1> QED
  BY <1>2, <1>3, <1>5, <1>6, <1>7, <1>8, <1>9, <1>10 DEF NvInv

LEMMA NvSetInv ==
  ASSUME NvInv, NvSet
  PROVE  NvInv'
<1>1. TypeOK /\ Settings(file) /\ nv \in Array /\ out \in Array /\ at \in 1..47
  BY TypeParts DEF NvInv, NvSet
<1>2. TypeOK' /\ nv' \in Array
  <2>1. TypeOK'
    BY <1>1, NvSetTyped
  <2> QED
    BY <2>1 DEF TypeOK, Array
<1>3. /\ DOMAIN meant = DOMAIN file /\ Untouched(file, meant)
      /\ ~edited /\ nvs_set = at - 1 /\ Same(out, file, meant)
      /\ \A i \in 0..(at - 2) : nv[i] = out[i]
  BY <1>1 DEF NvInv
<1>4. /\ out' = out /\ meant' = meant
      /\ nvs_set' = at % 47 /\ at' = (at + 1) % 48
  BY <1>1, <1>3, FieldPlaces DEF NvSet
<1>5. ~edited'
  BY <1>3 DEF NvSet
<1>6. \A i \in 0..(at - 1) : nv'[i] = out[i]
  <2>1. nv' = [nv EXCEPT ![at - 1] = out[at - 1]]
    BY DEF NvSet
  <2>2. DOMAIN nv = 0..46
    BY <1>1, FieldPlaces DEF Array
  <2> QED
    BY <1>1, <1>3, <2>1, <2>2
<1>7. CASE at < 47
  <2>1. nvs_set' = at /\ at' = at + 1
    BY <1>1, <1>4, <1>7
  <2>2. file' = file
    BY <1>1, <2>1 DEF NvSet
  <2>3. at' - 2 = at - 1 /\ at' # 0 /\ nvs_set' = at' - 1
    BY <1>1, <2>1
  <2>4. \A i \in 0..(at' - 2) : nv'[i] = out'[i]
    BY <1>4, <1>6, <2>3
  <2> QED
    BY <1>2, <1>3, <1>4, <1>5, <2>2, <2>3, <2>4 DEF NvInv
<1>8. CASE at = 47
  <2>1. nvs_set' = 0 /\ at' = 0
    BY <1>4, <1>8
  <2>2. file' = WithNVs(Cleaned(file), nv')
    BY <2>1 DEF NvSet
  <2>3. nv' = out
    <3>1. \A i \in NvIndex : nv'[i] = out[i]
      BY <1>6, <1>8, FieldPlaces
    <3> QED
      BY <1>1, <1>2, <3>1 DEF Array
  <2>4. DOMAIN file' = DOMAIN file /\ Saved(file', meant) /\ Untouched(file', meant)
        /\ Same(nv', file', meant)
    BY <1>1, <1>2, <1>3, <2>2, <2>3, SameSet
  <2> QED
    BY <1>2, <1>3, <1>4, <2>1, <2>4 DEF NvInv
<1> QED
  BY <1>1, <1>7, <1>8

LEMMA PageInv ==
  ASSUME Applied, NvInv, NEW k \in Keys, NEW v \in Value(k), PageSaves(k, v)
  PROVE  NvInv'
<1>1. TypeOK /\ Settings(file) /\ Settings(meant)
  BY TypeParts DEF NvInv
<1>2. TypeOK'
  BY <1>1, PageTyped
<1>3. /\ at = 0 /\ at' = at /\ nvs_set' = nvs_set
      /\ file' = [Form(file) EXCEPT ![k] = v]
      /\ meant' = [x \in Keys |-> IF x \in DOMAIN meant /\ x # k THEN meant[x] ELSE file'[x]]
  BY DEF PageSaves
<1>4. edited'
  BY DEF PageSaves
<1>5. /\ DOMAIN meant = DOMAIN file /\ Untouched(file, meant)
      /\ nvs_set = 0 /\ Saved(file, meant)
  BY <1>3 DEF NvInv
<1>6. DOMAIN file' = Keys /\ DOMAIN meant' = Keys /\ Carried(file, meant, file', meant')
  BY <1>1, <1>3, <1>5, PageFile
<1>7. ASSUME NEW x \in Keys, x \in DOMAIN file => Bare(x, meant[x]) = Bare(x, file[x])
      PROVE  Bare(x, meant'[x]) = Bare(x, file'[x])
  BY <1>6, <1>7 DEF Carried
<1>8. Untouched(file', meant')
  BY <1>5, <1>6, <1>7 DEF Untouched
<1>9. ASSUME NEW x \in Keys, Expressible(x, meant'[x])
      PROVE  Bare(x, file'[x]) = Bare(x, meant'[x])
  <2>1. CASE x = k \/ x \notin DOMAIN meant
    BY <1>3, <2>1
  <2>2. CASE x # k /\ x \in DOMAIN meant
    <3>1. meant'[x] = meant[x]
      BY <1>3, <2>2
    <3>2. Bare(x, file[x]) = Bare(x, meant[x])
      BY <1>5, <1>9, <2>2, <3>1 DEF Saved
    <3> QED
      BY <1>7, <3>2
  <2> QED
    BY <2>1, <2>2
<1>10. Saved(file', meant')
  BY <1>6, <1>9 DEF Saved
<1> QED
  BY <1>2, <1>3, <1>4, <1>5, <1>6, <1>8, <1>10 DEF NvInv

LEMMA RestartInv ==
  ASSUME Whole, NvInv, Restart
  PROVE  NvInv'
<1>1. TypeOK /\ Settings(file) /\ Settings(meant) /\ at \in 0..47
  BY TypeParts DEF NvInv
<1>2. TypeOK'
  BY <1>1, RestartTyped
<1>3. /\ config' = Cleaned(file) /\ Fill(config', nv') /\ nvs_set' = 0
      /\ file' = file /\ out' = out /\ meant' = meant
  BY DEF Restart
<1>4. ~edited' /\ at' = (IF at # 0 THEN 1 ELSE at)
  BY DEF Restart
<1>5. DOMAIN meant = DOMAIN file /\ Untouched(file, meant)
  BY DEF NvInv
<1>6. CASE at = 0
  <2>1. Saved(file, meant)
    BY <1>6 DEF NvInv
  <2>2. Same(nv', file, meant)
    BY <1>1, <1>3, <1>5, <2>1, SameLoaded
  <2>3. at' = 0
    BY <1>4, <1>6
  <2> QED
    BY <1>2, <1>3, <1>5, <2>1, <2>2, <2>3 DEF NvInv
<1>7. CASE at # 0
  <2>1. Same(out, file, meant)
    BY <1>7 DEF NvInv
  <2>2. at' = 1 /\ at' # 0 /\ nvs_set' = at' - 1 /\ 0..(at' - 2) = {}
    BY <1>3, <1>4, <1>7
  <2> QED
    BY <1>2, <1>3, <1>4, <1>5, <2>1, <2>2 DEF NvInv
<1> QED
  BY <1>6, <1>7 DEF Carried

\* Between sets, canpi.cfg holds what users have entered last, for every
\* setting that the variables can express, if tools end the sets they begin
\* and nothing is changed on the page meanwhile.
THEOREM SetSaved ==
  ASSUME Whole, Applied
  PROVE  Spec => []SetIsSaved
<1>1. NvInv /\ [Next]_vars => NvInv'
  <2> SUFFICES ASSUME NvInv, [Next]_vars PROVE NvInv'
    OBVIOUS
  <2>1. ASSUME NEW e \in ToolEdits, ToolStarts(e[1], e[2]) PROVE NvInv'
    BY <2>1, Entered, ToolInv
  <2>2. ASSUME NEW e \in PageEdits, PageSaves(e[1], e[2]) PROVE NvInv'
    BY <2>2, Entered, PageInv
  <2>3. CASE UNCHANGED vars
    BY <2>3 DEF vars, TypeOK, NvInv
  <2> QED
    BY <2>1, <2>2, <2>3, NvSetInv, RestartInv DEF Next
<1>2. NvInv => SetIsSaved
  <2> SUFFICES ASSUME NvInv, at = 0, NEW k \in DOMAIN file, Expressible(k, meant[k])
               PROVE  Cleaned(file)[k] = Cleaned(meant)[k]
    BY DEF SetIsSaved
  <2>1. Settings(file) /\ Settings(meant) /\ DOMAIN meant = DOMAIN file /\ Saved(file, meant)
    BY TypeParts DEF NvInv
  <2>2. Cleaned(file)[k] = Bare(k, file[k]) /\ Cleaned(meant)[k] = Bare(k, meant[k])
    BY <2>1, CleanedIs
  <2> QED
    BY <2>1, <2>2 DEF Saved
<1> QED
  BY <1>1, <1>2, InitInv, PTL DEF Spec

=============================================================================
