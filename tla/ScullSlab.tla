-------------------------------- MODULE ScullSlab --------------------------------
(***************************************************************************)
(* scullc (scullc/main.c): a scull device whose quanta are objects of a    *)
(* cache, which is made once, when the module is loaded, for objects of    *)
(* scullc_quantum bytes; ioctl changes scullc_quantum at any time.  What   *)
(* the objects hold is left out.                                           *)
(***************************************************************************)
EXTENDS Integers, Sequences, FiniteSets

CONSTANTS
  Procs,
  Quanta, Qsets,  \* what the parameters and ioctl make of the two defaults
  Default,        \* SCULLC_QUANTUM and SCULLC_QSET
  MaxPos          \* bound: positions

VARIABLES
  phase,    \* "unloaded", "devices" while scullc_init goes on, "live"
  cdev,     \* the device can be opened
  cache,    \* size of the cache's objects, or NoCache
  defaults, \* scullc_quantum and scullc_qset
  dev,      \* quantum, qset and size of the device
  arrays,   \* of each item of the list the slots of its array, or 0
  objects,  \* the objects allocated: item and slot
  pc, calls,
  raised,   \* ioctl has made the quantum larger than the cache's objects
  broken    \* how the memory was corrupted, or "none"

device == <<dev, arrays, objects>>
load == <<phase, cdev, cache>>
vars == <<load, device, defaults, pc, calls, raised, broken>>

NoCache == 0
NoCall == [quantum |-> 0, qset |-> 0]
Geometries == [quantum : Quanta, qset : Qsets]
Blank(g) == [quantum |-> g.quantum, qset |-> g.qset, size |-> 0]
Geometry == [quantum |-> dev.quantum, qset |-> dev.qset]

Init ==
  /\ phase = "unloaded" /\ cdev = FALSE /\ cache = NoCache
  /\ defaults \in Geometries
  /\ dev = Blank(defaults) /\ arrays = <<0>> /\ objects = {}
  /\ pc = [p \in Procs |-> "closed"] /\ calls = [p \in Procs |-> NoCall]
  /\ raised = FALSE /\ broken = "none"

Item(g, pos) == pos \div (g.quantum * g.qset) + 1
Slot(g, pos) == (pos % (g.quantum * g.qset)) \div g.quantum + 1
QPos(g, pos) == pos % g.quantum

Follow(n) == [i \in 1..(IF n > Len(arrays) THEN n ELSE Len(arrays)) |->
                IF i <= Len(arrays) THEN arrays[i] ELSE 0]

\* Mutation of Freed: the objects of the first item only.
FreedFirst == {o \in objects : o[1] = 1}
Freed == {o \in objects : o[2] <= dev.qset}

\* scullc_trim: nothing increments dev->vmas.
Trim ==
  /\ dev' = Blank(defaults) /\ arrays' = <<0>>
  /\ objects' = objects \ Freed

-----------------------------------------------------------------------------
(* Loading: the device is live before the cache is there.                  *)

ScullcInit ==
  /\ phase = "unloaded"
  /\ \/ UNCHANGED <<phase, cdev, dev, arrays>>  \* no numbers, or no memory
     \/ /\ phase' = "devices" /\ cdev' \in BOOLEAN
        /\ dev' = Blank(defaults) /\ arrays' = <<0>>
  /\ UNCHANGED <<cache, objects, defaults, pc, calls, raised, broken>>

\* Mutation of ObjectSize: the other default.
ObjectSizeQset == defaults.qset
ObjectSize == defaults.quantum

\* Mutation of NoMemory: the result of kmem_cache_create is not tested.
NoMemoryIgnored == phase' = "live" /\ UNCHANGED <<cdev, device, cache>>
NoMemory == phase' = "unloaded" /\ cdev' = FALSE /\ Trim /\ UNCHANGED cache

CreateCache ==
  /\ phase = "devices"
  /\ \/ phase' = "live" /\ cache' = ObjectSize /\ UNCHANGED <<cdev, device>>
     \/ NoMemory
  /\ UNCHANGED <<defaults, pc, calls, raised, broken>>

\* rmmod, then another load with any parameters.
Cleanup ==
  /\ phase = "live" /\ \A p \in Procs : pc[p] = "closed"
  /\ phase' = "unloaded" /\ cdev' = FALSE /\ cache' = NoCache
  /\ Trim
  /\ defaults' \in Geometries /\ raised' = FALSE
  /\ UNCHANGED <<pc, calls, broken>>

-----------------------------------------------------------------------------
(* The operations of a file.                                               *)

Goto(p, from, to) == pc[p] = from /\ pc' = [pc EXCEPT ![p] = to]

Open(p) ==
  /\ cdev /\ Goto(p, "closed", "open")
  /\ Trim \/ UNCHANGED device
  /\ UNCHANGED <<load, defaults, calls, raised, broken>>

Release(p) ==
  /\ Goto(p, "open", "closed")
  /\ UNCHANGED <<load, device, defaults, calls, raised, broken>>

Ioctl(p) ==
  /\ pc[p] = "open"
  /\ \/ \E n \in Quanta : defaults' = [defaults EXCEPT !.quantum = n]
     \/ \E n \in Qsets : defaults' = [defaults EXCEPT !.qset = n]
     \/ defaults' = Default
  /\ raised' = (raised \/ defaults'.quantum > cache)
  /\ UNCHANGED <<load, device, pc, calls, broken>>

Begin(p) ==
  /\ \E label \in {"reading", "writing"} : Goto(p, "open", label)
  /\ calls' = [calls EXCEPT ![p] = Geometry]
  /\ UNCHANGED <<load, device, defaults, raised, broken>>

\* The call returns, or leaves its iocb to be completed; or it was
\* interrupted in down.
Return(p) ==
  /\ \E from \in {"reading", "writing"}, to \in {"open", "queued"} : Goto(p, from, to)
  /\ calls' = [calls EXCEPT ![p] = NoCall]
  /\ UNCHANGED <<load, defaults, raised>>

DeferredOp(p) ==
  /\ Goto(p, "queued", "open")
  /\ UNCHANGED <<load, device, defaults, calls, raised, broken>>

Interrupted(p) == Return(p) /\ UNCHANGED <<device, broken>>

Read(p) ==
  /\ phase # "unloaded" /\ pc[p] = "reading" /\ calls[p] = Geometry
  /\ \E pos \in 0..dev.size : arrays' = Follow(Item(Geometry, pos))
  /\ Return(p) /\ UNCHANGED <<dev, objects, broken>>

\* The memory is corrupted: the model stops, and forgets the rest.
Break(how) ==
  /\ broken' = how
  /\ dev' = Blank(defaults) /\ arrays' = <<0>> /\ objects' = {}
  /\ pc' = [p \in Procs |-> "closed"] /\ calls' = [p \in Procs |-> NoCall]
  /\ UNCHANGED <<load, defaults, raised>>

\* What is wrong with a write of n bytes at pos.
Wrong(pos, n) ==
  LET new == <<Item(Geometry, pos), Slot(Geometry, pos)>> \notin objects
  IN  IF new /\ cache = NoCache THEN "no_cache"
      ELSE IF new /\ defaults.quantum > cache THEN "memset_beyond_the_object"
      ELSE IF QPos(Geometry, pos) + n > cache THEN "copy_beyond_the_object"
      ELSE "none"

Write(p) ==
  /\ phase # "unloaded" /\ pc[p] = "writing" /\ calls[p] = Geometry
  /\ \E pos \in 0..MaxPos-1 :
       LET i == Item(Geometry, pos)
           list == Follow(i)
           slots == [list EXCEPT ![i] = IF @ = 0 THEN dev.qset ELSE @]
       IN  \/ arrays' \in {list, slots} /\ UNCHANGED <<dev, objects, broken>> /\ Return(p)  \* no memory
           \/ \E n \in 0..dev.quantum - QPos(Geometry, pos) :
                /\ pos + n <= MaxPos
                /\ \/ Wrong(pos, n) # "none" /\ Break(Wrong(pos, n))
                   \/ /\ Wrong(pos, n) = "none" /\ UNCHANGED broken
                      /\ arrays' = slots
                      /\ objects' = objects \cup {<<i, Slot(Geometry, pos)>>}
                      /\ dev' = [dev EXCEPT !.size = IF n > 0 /\ pos + n > @ THEN pos + n ELSE @]
                      /\ Return(p)

\* The load has failed with the file open; or the geometry was read before
\* the semaphore was taken; or there was no memory for an item, which is not
\* tested.
Corrupt(p) ==
  /\ pc[p] \in {"reading", "writing"}
  /\ \/ phase = "unloaded" /\ Break("freed_device")
     \/ calls[p] # Geometry /\ Break("mixed")
     \/ Break("null_item")

Stop == broken # "none" /\ UNCHANGED vars

Next ==
  \/ /\ broken = "none"
     /\ \/ ScullcInit \/ CreateCache \/ Cleanup
        \/ \E p \in Procs :
             \/ Open(p) \/ Release(p) \/ Ioctl(p)
             \/ Begin(p) \/ Interrupted(p) \/ Read(p) \/ Write(p)
             \/ DeferredOp(p) \/ Corrupt(p)
  \/ Stop

Spec == Init /\ [][Next]_vars

-----------------------------------------------------------------------------
(* Properties.                                                             *)

(* The objects are large enough as long as ioctl has not raised the        *)
(* quantum above that of the load, whatever was trimmed and written in     *)
(* between; when it has, memset and copy run over the end of an object.    *)
ObjectsLargeEnough ==
  broken \in {"memset_beyond_the_object", "copy_beyond_the_object"} => raised

(* The cache is destroyed when all its objects have been freed, although   *)
(* the number of slots per item has changed many times.                    *)
CacheIsEmpty == cache = NoCache /\ broken = "none" => objects = {}

(* A write finds no cache only while the module is still being loaded: its *)
(* devices are live a little before it.                                    *)
NoCacheWhileLoading == broken = "no_cache" => phase = "devices"

(* What the cache of scullc keeps to, from the load to the unload.         *)
SlabSafe == ObjectsLargeEnough /\ CacheIsEmpty /\ NoCacheWhileLoading

-----------------------------------------------------------------------------
(* The inductive invariant.                                                *)

TypeInv ==
  /\ phase \in {"unloaded", "devices", "live"} /\ cache \in Nat
  /\ defaults \in [quantum : Nat \ {0}, qset : Nat \ {0}]
  /\ dev \in [quantum : Nat \ {0}, qset : Nat \ {0}, size : Nat]

\* Trim reaches every object, and there are none without the cache.
TrimReaches ==
  /\ \A o \in objects : o[2] <= dev.qset
  /\ phase = "live" <=> cache # NoCache
  /\ cache = NoCache => objects = {}

\* Until ioctl raises the quantum, both that of the device and that of the
\* next trim fit the cache that there is, or that is to be made.
Fits ==
  ~raised =>
    /\ phase = "devices" => dev.quantum = defaults.quantum
    /\ phase = "live" => dev.quantum <= cache /\ defaults.quantum <= cache

IInv == TypeInv /\ TrimReaches /\ Fits /\ ObjectsLargeEnough /\ NoCacheWhileLoading
=============================================================================
