------------------------------ MODULE ScullStream ------------------------------
(***************************************************************************)
(* What a scull pipe promises: the bytes that are written are read once,   *)
(* in order, however reads and writes are cut and whoever makes them, and  *)
(* never more than Capacity of them wait; opening the pipe, or the last    *)
(* close, throws away those that wait.                                     *)
(***************************************************************************)
EXTENDS Integers, Sequences

CONSTANTS Bytes, Capacity

VARIABLES
  pipe,   \* the bytes that wait to be read
  moved  \* the bytes of the last read or write

svars == <<pipe, moved>>

Init == pipe = <<>> /\ moved = <<>>

Put ==
  \E n \in 1..Capacity - Len(pipe) : \E data \in [1..n -> Bytes] :
    moved' = data /\ pipe' = pipe \o data

Take ==
  \E n \in 1..Len(pipe) :
    /\ moved' = SubSeq(pipe, 1, n)
    /\ pipe' = SubSeq(pipe, n + 1, Len(pipe))

Discard == pipe' = <<>> /\ UNCHANGED moved

Next == Put \/ Take \/ Discard

Spec == Init /\ [][Next]_svars
=============================================================================
