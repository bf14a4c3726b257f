------------------------------ MODULE RioService ------------------------------
(***************************************************************************)
(* What the rocketIO module promises the kernel, without its memory        *)
(* management: the interfaces appear one after the other while the module  *)
(* is being loaded, are opened and closed only while they are registered,  *)
(* hold a receive ring only between an open and the matching release, and  *)
(* are all gone, rings included, once the module is out, whether it was    *)
(* unloaded or its initialisation failed.                                  *)
(***************************************************************************)
EXTENDS Naturals

CONSTANT Ifs  \* the interfaces, numbered from 0 in the order of registration

VARIABLES
  module,  \* "out", "loading", "in" or "leaving"
  link,    \* of each interface: "absent", "down", "changing" or "up"
  rings,   \* the interfaces that hold a receive ring
  memory   \* TRUE while the module holds memory of any kind

svars == <<module, link, rings, memory>>

Init ==
  /\ module = "out"
  /\ link = [i \in Ifs |-> "absent"]
  /\ rings = {}
  /\ memory = FALSE

Load ==
  /\ module = "out" /\ module' = "loading"
  /\ UNCHANGED <<link, rings, memory>>

Loaded ==
  /\ module = "loading" /\ module' = "in"
  /\ UNCHANGED <<link, rings, memory>>

\* rmmod, or a failed initialisation.
Leave ==
  /\ module \in {"loading", "in"} /\ module' = "leaving"
  /\ UNCHANGED <<link, rings, memory>>

\* Nothing of the module survives it.
Gone ==
  /\ module = "leaving" /\ module' = "out"
  /\ \A i \in Ifs : link[i] = "absent"
  /\ rings = {} /\ memory' = FALSE
  /\ UNCHANGED <<link, rings>>

\* Memory is taken while loading and given back while leaving.
TakeMemory ==
  /\ module = "loading" /\ memory' = TRUE
  /\ UNCHANGED <<module, link, rings>>

GiveBack ==
  /\ module = "leaving" /\ memory' = FALSE /\ rings = {}
  /\ \A i \in Ifs : link[i] = "absent"
  /\ UNCHANGED <<module, link, rings>>

\* The last registration completes the loading, unless loopback = 0.
Register(i) ==
  /\ module = "loading"
  /\ link[i] = "absent"
  /\ \A j \in Ifs : j < i => link[j] # "absent"
  /\ link' = [link EXCEPT ![i] = "down"]
  /\ module' \in {"loading", "in"}
  /\ UNCHANGED <<rings, memory>>

\* An interface goes away at once, and its ring with it.
Unregister(i) ==
  /\ module = "leaving"
  /\ link[i] \in {"down", "up"}
  /\ link' = [link EXCEPT ![i] = "absent"]
  /\ rings' = rings \ {i}
  /\ UNCHANGED <<module, memory>>

Begin(i) ==
  /\ link[i] \in {"down", "up"}
  /\ \A j \in Ifs : link[j] # "changing"
  /\ link' = [link EXCEPT ![i] = "changing"]
  /\ UNCHANGED <<module, rings, memory>>

TakeRing(i) ==
  /\ link[i] = "changing" /\ i \notin rings
  /\ rings' = rings \cup {i}
  /\ UNCHANGED <<module, link, memory>>

DropRing(i) ==
  /\ link[i] = "changing" /\ i \in rings
  /\ rings' = rings \ {i}
  /\ UNCHANGED <<module, link, memory>>

End(i) ==
  /\ link[i] = "changing"
  /\ \/ link' = [link EXCEPT ![i] = "up"]
     \/ i \notin rings /\ link' = [link EXCEPT ![i] = "down"]
  /\ UNCHANGED <<module, rings, memory>>

Next ==
  \/ Load \/ Loaded \/ Leave \/ Gone \/ TakeMemory \/ GiveBack
  \/ \E i \in Ifs :
       \/ Register(i) \/ Unregister(i) \/ Begin(i)
       \/ TakeRing(i) \/ DropRing(i) \/ End(i)

Spec == Init /\ [][Next]_svars
=============================================================================
