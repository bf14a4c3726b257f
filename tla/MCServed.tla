------------------------------ MODULE MCServed --------------------------------
(***************************************************************************)
(* Served on a small instance: p2 has become the first user, p3 is root.   *)
(***************************************************************************)
EXTENDS Served, TLC

CONSTANTS p1, p2, p3, u1, u2, u3

MCUid == (p1 :> u1) @@ (p2 :> u2) @@ (p3 :> u3)
MCEuid == (p1 :> u1) @@ (p2 :> u1) @@ (p3 :> u3)

===============================================================================
