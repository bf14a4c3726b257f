------------------------------- MODULE ScullData -------------------------------
(***************************************************************************)
(* How the scull devices keep their bytes (scull/main.c and its variants): *)
(* a list of items, each with an array of qset pointers to quanta of       *)
(* quantum bytes.  An item without an array is <<>>, and so is a pointer   *)
(* that is NULL in an array.                                               *)
(***************************************************************************)
EXTENDS Integers, Sequences

CONSTANT Junk  \* a byte nobody has written, or a copy that failed

\* An empty device with geometry g, a record of quantum and qset.
Empty(g) == [data |-> <<>>, quantum |-> g.quantum, qset |-> g.qset, size |-> 0]
Geometry(dev) == [quantum |-> dev.quantum, qset |-> dev.qset]

\* Where position pos is: the item, the pointer and the byte, from one.
Item(g, pos) == pos \div (g.quantum * g.qset) + 1
Slot(g, pos) == (pos % (g.quantum * g.qset)) \div g.quantum + 1
Offset(g, pos) == (pos % g.quantum) + 1
LeftInQuantum(g, pos) == g.quantum - (pos % g.quantum)

\* The list with at least n items.
Follow(items, n) ==
  [i \in 1..(IF n > Len(items) THEN n ELSE Len(items)) |->
     IF i <= Len(items) THEN items[i] ELSE <<>>]

WithArray(items, i, g) ==
  IF items[i] # <<>> THEN items
  ELSE [items EXCEPT ![i] = [s \in 1..g.qset |-> <<>>]]

WithQuantum(items, i, s, g) ==
  IF items[i][s] # <<>> THEN items
  ELSE [items EXCEPT ![i][s] = [o \in 1..g.quantum |-> Junk]]

\* Everything a write at pos allocates, and what is there when the memory
\* runs out before.
Allocated(items, g, pos) ==
  LET i == Item(g, pos)
  IN  WithQuantum(WithArray(Follow(items, i), i, g), i, Slot(g, pos), g)
PartlyAllocated(items, g, pos) ==
  LET i == Item(g, pos)
  IN  ({Follow(items, n) : n \in Len(items)..i}
         \cup {WithArray(Follow(items, i), i, g)}) \ {Allocated(items, g, pos)}

Store(items, g, pos, bytes) ==
  LET o == Offset(g, pos)
  IN  [items EXCEPT ![Item(g, pos)][Slot(g, pos)] =
        [x \in 1..g.quantum |->
           IF x \in o..o+Len(bytes)-1 THEN bytes[x - o + 1] ELSE @[x]]]

Written(dev, pos, bytes, items) ==
  [dev EXCEPT !.data = items,
              !.size = IF @ < pos + Len(bytes) THEN pos + Len(bytes) ELSE @]

\* What the list holds at a position: Junk where nothing is allocated.
ByteAt(items, g, pos) ==
  LET i == Item(g, pos) IN
  IF i > Len(items) \/ items[i] = <<>> THEN Junk
  ELSE LET quantum == items[i][Slot(g, pos)]
       IN  IF quantum = <<>> THEN Junk ELSE quantum[Offset(g, pos)]

\* The device as a file.
AsFile(dev) ==
  [i \in 1..dev.size |-> ByteAt(dev.data, Geometry(dev), i - 1)]

\* The arrays have qset entries and the quanta quantum bytes.
WellLaid(dev) ==
  \A i \in 1..Len(dev.data) : dev.data[i] # <<>> =>
    /\ Len(dev.data[i]) = dev.qset
    /\ \A s \in 1..dev.qset : Len(dev.data[i][s]) \in {0, dev.quantum}
=============================================================================
