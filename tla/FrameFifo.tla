------------------------------- MODULE FrameFifo -------------------------------
(***************************************************************************)
(* What the ring of the Livox driver (comm/ldq.cpp) is to its users: the   *)
(* frames come out in the order they went in, whole, each once, and one is *)
(* refused only when there is room for no more than one.  No indices, no   *)
(* slots, no memory.  Frames have numbers, which wrap around.              *)
(***************************************************************************)
EXTENDS Integers, Sequences

CONSTANTS
  Capacity, \* frames the ring holds
  Numbers   \* how many numbers there are

VARIABLES
  frames, \* the frames inside
  coming, \* the number of the next frame
  latest  \* the frame that came out last, or -1

vars == << frames, coming, latest >>

Init == frames = << >> /\ coming = 0 /\ latest = -1

Accept ==
  /\ Len(frames) < Capacity
  /\ frames' = Append(frames, coming)
  /\ coming' = (coming + 1) % Numbers
  /\ UNCHANGED latest

Refuse ==
  /\ Len(frames) >= Capacity - 1
  /\ coming' = (coming + 1) % Numbers
  /\ UNCHANGED << frames, latest >>

Take ==
  /\ frames # << >>
  /\ latest' = Head(frames)
  /\ frames' = Tail(frames)
  /\ UNCHANGED coming

Next == Accept \/ Refuse \/ Take

Spec == Init /\ [][Next]_vars
=============================================================================
