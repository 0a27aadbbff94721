---------------------------- MODULE BoundedQueue ----------------------------
(***************************************************************************)
(* The bounded queue of StreamReader and StreamWriter: a push on a full    *)
(* queue discards the oldest frame.                                        *)
(***************************************************************************)
EXTENDS Integers, Sequences

Pushed(q, f, bound) ==
  IF Len(q) >= bound THEN Append(Tail(q), f) ELSE Append(q, f)

\* q holds the newest of the frames 1 .. a, in order and without a gap.
Newest(q, a) == \A i \in 1 .. Len(q) : q[i] = a - Len(q) + i
=============================================================================
