------------------------------ MODULE FrameBus ------------------------------
(***************************************************************************)
(* What CANPiWi is for: a switch between the CAN bus, the throttles (ED)   *)
(* and the GridConnect programs (GRID). A frame enters once, at its source *)
(* (a thread that sends); each sink it may reach gets it at most once; the *)
(* frames of one source reach each sink in the order the source sent them, *)
(* and a sorted sink gets all frames in the order in which they entered.   *)
(***************************************************************************)
EXTENDS Naturals, Sequences

CONSTANTS Frame,  \* all frames: records with a source src, a rank seq, a kind
          Sink,   \* where frames go
          Sorted, \* sinks that keep the order of all sources
          Reach   \* the triples <<source, kind, sink>> that may happen

VARIABLES posted,  \* the frames that entered
          got      \* [Sink -> what was handed to the sink so far, in order]

vars == <<posted, got>>

Init == posted = {} /\ got = [d \in Sink |-> <<>>]

\* Frames are numbered as they enter.
Post(f) ==
  /\ \A g \in posted : g.seq < f.seq
  /\ posted' = posted \cup {f}
  /\ UNCHANGED got

HandOver(f, d) ==
  /\ f \in posted /\ <<f.src, f.kind, d>> \in Reach
  /\ \A i \in DOMAIN got[d] :
       d \in Sorted \/ got[d][i].src = f.src => got[d][i].seq < f.seq
  /\ got' = [got EXCEPT ![d] = Append(@, f)]
  /\ UNCHANGED posted

Next ==
  \/ \E f \in posted' : f \in Frame /\ Post(f)
  \/ \E f \in posted, d \in Sink : HandOver(f, d)

Spec == Init /\ [][Next]_vars
=============================================================================
