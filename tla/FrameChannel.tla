----------------------------- MODULE FrameChannel -----------------------------
(***************************************************************************)
(* What the camera node promises a viewer, whatever threads, buffers and   *)
(* TCP do to keep it: an endless alternation of headers and frames, each   *)
(* byte at its place and none missing, handed over in pieces of any size,  *)
(* until the connection ends.                                              *)
(***************************************************************************)
EXTENDS Integers, Sequences

CONSTANTS ReadyLen, FrameLen

VARIABLES
  part,  \* what the viewer is receiving: "none", "ready" or "frame"
  data   \* the bytes of it so far, each with the part and the place it belongs to

vars == <<part, data>>

Length(p) == IF p = "ready" THEN ReadyLen ELSE FrameLen

Init == part = "none" /\ data = <<>>

Open ==
  /\ part = "none"
  /\ part' = "ready" /\ data' = <<>>

\* One more piece of the current part.
Receive ==
  /\ part # "none"
  /\ \E n \in Len(data) + 1 .. Length(part) :
       data' = [i \in 1 .. n |-> <<part, i>>]
  /\ UNCHANGED part

\* The current part is complete: the other one follows.
Turn ==
  /\ part # "none" /\ Len(data) = Length(part)
  /\ part' = IF part = "ready" THEN "frame" ELSE "ready"
  /\ data' = <<>>

\* The connection ends, wherever it has got to.
Close == part' = "none" /\ data' = <<>>

Next == Open \/ Receive \/ Turn \/ Close

Spec == Init /\ [][Next]_vars
===============================================================================
