----------------------------- MODULE LossyFifo -----------------------------
(***************************************************************************)
(* What a queued magpie stream endpoint promises about its frames.         *)
(*                                                                         *)
(* Frames are numbered in the order they are accepted.  The endpoint may   *)
(* lose frames, but it hands them on in order, never twice, and a frame it *)
(* hands on is one of the Capacity newest accepted so far: a slow consumer *)
(* is served recent data.  StreamReader and StreamWriter both implement    *)
(* this specification.                                                     *)
(***************************************************************************)
EXTENDS Integers

CONSTANT Capacity   \* the bound of the endpoint's queue

VARIABLES
  accepted,         \* number of frames accepted so far
  last              \* the last frame handed on, 0 before the first

vars == <<accepted, last>>

Init ==
  /\ accepted = 0
  /\ last = 0

Accept ==
  /\ accepted' = accepted + 1
  /\ UNCHANGED last

Deliver ==
  \E f \in (last + 1) .. accepted :
     /\ f > accepted - Capacity
     /\ last' = f
     /\ UNCHANGED accepted

Next == Accept \/ Deliver

Spec == Init /\ [][Next]_vars
=============================================================================
