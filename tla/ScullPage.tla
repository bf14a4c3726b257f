------------------------------- MODULE ScullPage -------------------------------
(***************************************************************************)
(* scullp (scullp/main.c, scullp/mmap.c): a scull device whose quanta are  *)
(* blocks of 2^order pages, which can be mapped, and whose asynchronous    *)
(* reads and writes complete later.  Positions are counted in pages, and   *)
(* what the pages hold is left out.                                        *)
(***************************************************************************)
EXTENDS Integers, Sequences, FiniteSets

CONSTANTS
  Procs,
  Orders, Qsets,  \* what ioctl makes of scullp_order and scullp_qset
  Default,
  MaxPos

VARIABLES
  items,     \* the list: of each item its order and the slots that have a block
  geometry,  \* order and qset of the device
  size,
  defaults,  \* scullp_order and scullp_qset
  vmas,
  maps,      \* of each process, the pages it has mapped, or NoMap
  calls,     \* of each process, the geometry its read or write has read
  pc,
  broken     \* how the memory was corrupted, or "none"

data == <<items, geometry, size>>
vars == <<data, defaults, vmas, maps, calls, pc, broken>>

NoMap == {<<0, 0>>}
First(g) == <<[order |-> g.order, slots |-> {}]>>

Init ==
  /\ items = First(Default) /\ geometry = Default /\ size = 0
  /\ defaults = Default
  /\ vmas = 0 /\ maps = [p \in Procs |-> NoMap]
  /\ calls = [p \in Procs |-> Default]
  /\ pc = [p \in Procs |-> "closed"]
  /\ broken = "none"

Reset ==
  /\ items' = First(Default) /\ geometry' = Default /\ size' = 0
  /\ defaults' = Default
  /\ vmas' = 0 /\ maps' = [p \in Procs |-> NoMap]
  /\ calls' = [p \in Procs |-> Default]
  /\ pc' = [p \in Procs |-> "closed"]

Power2(n) == IF n = 0 THEN 1 ELSE IF n = 1 THEN 2 ELSE 4  \* of small orders
Quantum(g) == Power2(g.order)
Item(g, pos) == pos \div (Quantum(g) * g.qset) + 1
Slot(g, pos) == (pos % (Quantum(g) * g.qset)) \div Quantum(g) + 1
QPos(g, pos) == pos % Quantum(g)

\* scullp_follow zeroes what it adds: the order of the new items is 0.
Follow(n) ==
  [i \in 1..(IF n > Len(items) THEN n ELSE Len(items)) |->
     IF i <= Len(items) THEN items[i] ELSE [order |-> 0, slots |-> {}]]

\* Mutation of Busy: the mappings are not looked at.
NotBusy == FALSE
Busy == vmas > 0

\* scullp_trim; with active mappings it does nothing.
Trim ==
  IF Busy THEN UNCHANGED data
  ELSE items' = First(defaults) /\ geometry' = defaults /\ size' = 0

-----------------------------------------------------------------------------
(* open, release, ioctl.                                                   *)

Open(p) ==
  /\ pc[p] = "closed" /\ pc' = [pc EXCEPT ![p] = "open"]
  /\ Trim \/ UNCHANGED data
  /\ UNCHANGED <<defaults, vmas, maps, calls, broken>>

Release(p) ==
  /\ pc[p] = "open" /\ pc' = [pc EXCEPT ![p] = "closed"]
  /\ UNCHANGED <<data, defaults, vmas, maps, calls, broken>>

Ioctl(p) ==
  /\ pc[p] = "open"
  /\ \/ \E n \in Orders : defaults' = [defaults EXCEPT !.order = n]
     \/ \E n \in Qsets : defaults' = [defaults EXCEPT !.qset = n]
     \/ defaults' = Default
  /\ UNCHANGED <<data, vmas, maps, calls, pc, broken>>

-----------------------------------------------------------------------------
(* read and write: the geometry first, then the semaphore.                 *)

Begin(p, label) ==
  /\ pc[p] = "open" /\ pc' = [pc EXCEPT ![p] = label]
  /\ calls' = [calls EXCEPT ![p] = geometry]
  /\ UNCHANGED <<data, defaults, vmas, maps, broken>>

\* The memory is corrupted: the model stops, and forgets the rest.
Break(how) == broken' = how /\ Reset

\* The call returns; that of an iocb leaves the work that will complete it.
Return(p) ==
  /\ \E next \in {"open", "queued"} : pc' = [pc EXCEPT ![p] = next]
  /\ calls' = [calls EXCEPT ![p] = Default]
  /\ UNCHANGED <<geometry, defaults, vmas, maps, broken>>

\* As the geometry is not the device's any more, or there is no memory for
\* an item, which is not tested.
Corrupt(p) ==
  /\ pc[p] \in {"reading", "writing"}
  /\ \/ calls[p] # geometry /\ Break("mixed")
     \/ \E pos \in 0..MaxPos-1 :
          /\ pc[p] = "writing" \/ pos <= size
          /\ calls[p] = geometry /\ Item(geometry, pos) > Len(items)
          /\ Break("null_item")

Read(p) ==
  /\ pc[p] = "reading" /\ calls[p] = geometry
  /\ items' \in {items} \cup {Follow(Item(geometry, pos)) : pos \in 0..size}
  /\ Return(p) /\ UNCHANGED size

\* Mutation of BlockOrder: a page, whatever the order of the item.
BlockOrderZero(item) == 0
BlockOrder(item) == item.order

\* n pages are written, up to the end of the quantum; or there is no memory
\* for the block, or the copy fails.
Write(p) ==
  /\ pc[p] = "writing" /\ calls[p] = geometry
  /\ \E pos \in 0..MaxPos-1 :
       LET i == Item(geometry, pos)
           s == Slot(geometry, pos)
           list == Follow(i)
       IN  \/ items' = list /\ UNCHANGED size /\ Return(p)
           \/ \E n \in 0..Quantum(geometry) - QPos(geometry, pos) :
                /\ pos + n <= MaxPos
                /\ QPos(geometry, pos) + n <= Power2(BlockOrder(list[i]))
                /\ items' = [list EXCEPT ![i].slots = @ \cup {s}]
                /\ size' = IF n > 0 /\ pos + n > size THEN pos + n ELSE size
                /\ Return(p)

\* The block is smaller than the quantum that is written to it.
Overrun(p) ==
  /\ pc[p] = "writing" /\ calls[p] = geometry
  /\ \E pos \in 0..MaxPos-1 :
       LET i == Item(geometry, pos)
       IN  /\ Quantum(geometry) > Power2(BlockOrder(Follow(i)[i]))
           /\ Break(IF i = 1 THEN "overrun_in_the_first_item" ELSE "overrun")

Interrupted(p) ==
  /\ pc[p] \in {"reading", "writing"}
  /\ pc' = [pc EXCEPT ![p] = "open"] /\ calls' = [calls EXCEPT ![p] = Default]
  /\ UNCHANGED <<data, defaults, vmas, maps, broken>>

Complete(p) == pc' = [pc EXCEPT ![p] = "open"]

DeferredOp(p) ==
  /\ pc[p] = "queued" /\ Complete(p)
  /\ UNCHANGED <<data, defaults, vmas, maps, calls, broken>>

-----------------------------------------------------------------------------
(* mmap.                                                                   *)

VmaOpened == vmas' = vmas + 1

\* Mutation of VmaClosed: the mapping goes uncounted.
VmaClosedNot == UNCHANGED vmas
VmaClosed == vmas' = vmas - 1

\* Only the present order is looked at; the mapping outlives the file.
Mmap(p) ==
  /\ pc[p] = "open" /\ maps[p] = NoMap /\ geometry.order = 0
  /\ maps' = [maps EXCEPT ![p] = {}] /\ VmaOpened
  /\ UNCHANGED <<data, defaults, calls, pc, broken>>

\* A fork, or a mapping that is split.
VmaOpen(p, q) ==
  /\ maps[p] # NoMap /\ maps[q] = NoMap
  /\ maps' = [maps EXCEPT ![q] = maps[p]] /\ VmaOpened
  /\ UNCHANGED <<data, defaults, calls, pc, broken>>

VmaClose(p) ==
  /\ maps[p] # NoMap
  /\ maps' = [maps EXCEPT ![p] = NoMap] /\ VmaClosed
  /\ UNCHANGED <<data, defaults, calls, pc, broken>>

\* The page at an offset, if it is before the end and not in a hole: the
\* item and the slot are found with the qset of the device.
Nopage(p) ==
  /\ maps[p] # NoMap
  /\ \E offset \in 0..size-1 :
       LET i == offset \div geometry.qset + 1
           s == (offset % geometry.qset) + 1
       IN  /\ i <= Len(items) /\ s \in items[i].slots
           /\ maps' = [maps EXCEPT ![p] = @ \cup {<<i, s>>}]
  /\ UNCHANGED <<data, defaults, vmas, calls, pc, broken>>

-----------------------------------------------------------------------------
\* The module's use count keeps rmmod out while a file or a mapping is left;
\* a new load starts over.
Reload ==
  /\ \A p \in Procs : pc[p] = "closed" /\ maps[p] = NoMap
  /\ Reset /\ UNCHANGED broken

Stop == broken # "none" /\ UNCHANGED vars

Next ==
  \/ /\ broken = "none"
     /\ \/ Reload
        \/ \E p \in Procs :
             \/ Open(p) \/ Release(p) \/ Ioctl(p)
             \/ Begin(p, "reading") \/ Begin(p, "writing") \/ Interrupted(p)
             \/ Corrupt(p) \/ Read(p) \/ Write(p) \/ Overrun(p) \/ DeferredOp(p)
             \/ Mmap(p) \/ VmaClose(p) \/ Nopage(p)
             \/ \E q \in Procs : VmaOpen(p, q)
  \/ Stop

Spec == Init /\ [][Next]_vars

-----------------------------------------------------------------------------
(* Properties.                                                             *)

(* A page that a process has mapped is still the device's, whoever opens   *)
(* the device for writing only, forks, unmaps or unloads meanwhile: it was *)
(* not freed, and belongs to no block of several pages.                    *)
MappedPagesLive ==
  \A p \in Procs : maps[p] # NoMap =>
    /\ vmas > 0 /\ (maps[p] # {} => geometry.order = 0)
    /\ \A m \in maps[p] : m[1] <= Len(items) /\ m[2] \in items[m[1]].slots

(* The device can be trimmed again when the last mapping has gone.         *)
VmasCounted == vmas = Cardinality({p \in Procs : maps[p] # NoMap})

(* A write runs over the end of a block only past the first item, whose    *)
(* order alone is scullp_order: the items of scullp_follow have order 0.   *)
OverrunsPastFirstItem == broken # "overrun_in_the_first_item"

(* The blocks of scullp, those that are mapped and those that are written. *)
PagesSafe == MappedPagesLive /\ VmasCounted /\ OverrunsPastFirstItem

-----------------------------------------------------------------------------
(* The inductive invariant.                                                *)

TypeInv ==
  /\ items \in Seq([order : Nat, slots : SUBSET Nat]) /\ size \in Nat
  /\ geometry \in [order : Nat, qset : Nat \ {0}]
  /\ defaults \in [order : Nat, qset : Nat \ {0}]
  /\ DOMAIN maps = Procs

\* The first item has the order that the device was trimmed with, and
\* whatever is mapped keeps that order at 0.
OrdersInv ==
  /\ Len(items) > 0 /\ items[1].order = geometry.order
  /\ \A p \in Procs : maps[p] # NoMap =>
       geometry.order = 0 /\ maps[p] \subseteq (Nat \ {0}) \X Nat

IInv == TypeInv /\ OrdersInv /\ PagesSafe
=============================================================================
