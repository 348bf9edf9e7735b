------------------------------ MODULE GridLink ------------------------------
(***************************************************************************)
(* The connection of one GridConnect program (tcpClientGridConnect): the   *)
(* texts it sends come out of recv in strings cut anywhere, wait in a      *)
(* queue, and are parsed by another thread; CAN frames go the other way.   *)
(***************************************************************************)
EXTENDS GridConnect, FiniteSets, SequencesExt

CONSTANTS Sendable,  \* frames a program may send
          Showable,  \* frames the daemon may hand to canMessage
          MaxSent    \* bound of the model: frames the program sends

ASSUME LinkAssumption ==
  /\ \A f \in Sendable \cup Showable : f \in CanFrame(Seq(0..255)) /\ Len(f.data) <= 8
  /\ MaxSent \in Nat

VARIABLES
  up,      \* running
  sent,    \* the frames the program has sent
  taken,   \* how many of their texts recv has begun to return
  inbox,   \* in_grid_msgs: strings, sequences of texts and their numbers
  heard,   \* history: what was made of each text, in the order of parsing
  shown    \* the last frame written to the program and its text, or {}

linkVars == <<up, sent, taken, inbox, heard, shown>>

LinkTypeOK ==
  /\ up \in BOOLEAN
  /\ sent \in Seq(Sendable) /\ Len(sent) <= MaxSent
  /\ taken \in 0..Len(sent)
  /\ \A i \in DOMAIN inbox : \A j \in DOMAIN inbox[i] :
       inbox[i][j].n \in 1..taken /\ inbox[i][j].whole \in BOOLEAN
  /\ \A i \in DOMAIN heard :
       /\ heard[i].n \in 1..taken
       /\ heard[i].frames \subseteq CanFrame(Seq(0..255)) /\ Cardinality(heard[i].frames) <= 1
  /\ \A s \in shown : s.frame \in Showable

LinkInit ==
  /\ up = TRUE /\ sent = <<>> /\ taken = 0
  /\ inbox = <<>> /\ heard = <<>> /\ shown = {}

-----------------------------------------------------------------------------
Send(f) ==
  /\ Len(sent) < MaxSent
  /\ sent' = Append(sent, f)
  /\ UNCHANGED <<up, taken, inbox, heard, shown>>

\* The end of a string: text x up to some character. Place 0 is in or before
\* the header, place k + 1 after k digits of the data; half a byte is read as
\* a byte. The rest begins the next string; no letter is found in it.
CutPlaces(x) == 0..(2 * Len(x.data) + 1)
CutAt(x, place) ==
  IF place = 0 THEN [x EXCEPT !.fits = FALSE]
  ELSE LET k == place - 1
           full == SubSeq(x.data, 1, k \div 2) IN
    [x EXCEPT !.data = IF k % 2 = 0 THEN full
                       ELSE Append(full, x.data[k \div 2 + 1] \div 16)]

Piece(n, x) == [n |-> n, text |-> x, whole |-> x = Encode(sent[n])]
Pieces(m) == [k \in 1..m |-> Piece(taken + k, Encode(sent[taken + k]))]

\* run: recv returns some texts, the last one perhaps cut.
Recv(m) ==
  /\ up /\ m \in 1..(Len(sent) - taken)
  /\ taken' = taken + m
  /\ LET last == Encode(sent[taken + m]) IN
       \/ inbox' = Append(inbox, Pieces(m))
       \/ \E place \in CutPlaces(last) :
            inbox' = Append(inbox, Append(Pieces(m - 1), Piece(taken + m, CutAt(last, place))))
  /\ UNCHANGED <<up, sent, heard, shown>>

\* What text k of a string becomes, and what stood before it in the string.
Heard(string, k) ==
  [n |-> string[k].n, whole |-> string[k].whole,
   before |-> UNION {{string[j].text.letter, string[j].text.type} : j \in 1..(k - 1)},
   frames |-> Parse([j \in DOMAIN string |-> string[j].text], k)]

\* run_in_grid_msgs. A frame goes to the bus, to the throttles and to the
\* other GRID clients at once (module CanRouter).
ParseString ==
  /\ up /\ inbox # <<>>
  /\ inbox' = Tail(inbox)
  /\ LET string == Head(inbox) IN
       heard' = heard \o [k \in DOMAIN string |-> Heard(string, k)]
  /\ UNCHANGED <<up, sent, taken, shown>>

\* canMessage.
CanMessage(f) ==
  /\ up
  /\ shown' = {[frame |-> f, text |-> Format(f)]}
  /\ UNCHANGED <<up, sent, taken, inbox, heard>>

\* recv fails or returns nothing, or the server stops. The queue reader ends
\* too, whatever is still in its queue.
Close ==
  /\ up
  /\ up' = FALSE
  /\ UNCHANGED <<sent, taken, inbox, heard, shown>>

LinkNext ==
  \/ \E f \in Sendable : Send(f)
  \/ \E m \in 1..MaxSent : Recv(m)
  \/ ParseString \/ Close
  \/ \E f \in Showable : CanMessage(f)

LinkSpec == LinkInit /\ [][LinkNext]_linkVars

-----------------------------------------------------------------------------
(* Properties.                                                             *)

\* An extended id the header code leaves alone: nothing in the 11 upper bits.
Plain(f) == f.eff => f.id < 2^18

\* A text that recv did not cut becomes the frame the program sent, whatever
\* the other texts of its string are; only a remote frame before it, and an
\* extended one before a standard one, are not forgiven.
TextsBecomeTheirFrames ==
  \A i \in DOMAIN heard :
    LET h == heard[i]
        f == sent[h.n] IN
      h.whole /\ Plain(f) /\ "R" \notin h.before /\ (f.eff \/ "X" \notin h.before)
        => h.frames = {f}

\* A standard frame of the bus is shown to the program as the protocol wants.
ShownAsProtocol ==
  \A s \in shown : ~s.frame.eff => s.text = Encode(s.frame)

=============================================================================
