------------------------------- MODULE ScullFile -------------------------------
(***************************************************************************)
(* What a scull memory device promises: it is a file.  A write puts bytes  *)
(* where it is told to, and nothing else changes; what lies between the    *)
(* old end and the new is unspecified, as is what a write that fails was   *)
(* to overwrite: no more than one quantum.                                 *)
(***************************************************************************)
EXTENDS Integers, Sequences

CONSTANTS
  Bytes, Junk, MaxPos,
  MaxWrite  \* how many bytes are written at once

VARIABLE file

Init == file = <<>>

Put ==
  \E pos \in 0..MaxPos : \E n \in 1..MaxWrite : \E data \in [1..n -> Bytes] :
    file' = [i \in 1..(IF pos + n > Len(file) THEN pos + n ELSE Len(file)) |->
               IF i \in pos+1..pos+n THEN data[i - pos]
               ELSE IF i <= Len(file) THEN file[i] ELSE Junk]

Spoil ==
  \E pos \in 0..MaxPos : \E n \in 0..MaxWrite :
    file' = [i \in 1..Len(file) |->
               IF i \in pos+1..pos+n THEN Junk ELSE file[i]]

Truncate == file' = <<>>

Next == Put \/ Spoil \/ Truncate

Spec == Init /\ [][Next]_file
=============================================================================
