------------------------------- MODULE ScullMem -------------------------------
(***************************************************************************)
(* One bare scull device (scull/main.c).  read and write copy the geometry *)
(* of the device before they take its semaphore: that is a step.  All they *)
(* do with the semaphore down is another, since nobody else looks at the   *)
(* data then, and the geometry and the size are changed by scull_trim      *)
(* without sleeping.  A file that is open is a process that made it so.    *)
(***************************************************************************)
EXTENDS ScullData

CONSTANTS
  Procs, Bytes,
  Quanta, Qsets,  \* the values ioctl is given
  Default,        \* SCULL_QUANTUM and SCULL_QSET
  MaxPos          \* bound on the positions that are sought and written

VARIABLES
  dev,
  defaults,  \* scull_quantum and scull_qset
  pc,
  call,      \* of a read or a write: *f_pos, and the copies of the geometry
  mixed      \* a call has used a geometry that is not the device's, or is 0

vars == <<dev, defaults, pc, call, mixed>>

NoCall == [pos |-> 0, geometry |-> Default]

Init ==
  /\ dev = Empty(Default) /\ defaults = Default
  /\ pc = [p \in Procs |-> "closed"]
  /\ call = [p \in Procs |-> NoCall]
  /\ mixed = FALSE

GoTo(p, label) == pc' = [pc EXCEPT ![p] = label]

\* Mutation of Trim: the data goes, the size does not.
TrimKeepsSize == dev' = [Empty(defaults) EXCEPT !.size = dev.size]
Trim == dev' = Empty(defaults)

Open(p) ==
  /\ pc[p] = "closed"
  /\ Trim \/ UNCHANGED dev  \* write-only, or not
  /\ GoTo(p, "open")
  /\ UNCHANGED <<defaults, call, mixed>>

Close(p) ==
  /\ pc[p] = "open"
  /\ GoTo(p, "closed")
  /\ UNCHANGED <<dev, defaults, call, mixed>>

\* The commands that set one of the two, or both to the default.
Ioctl(p) ==
  /\ pc[p] = "open"
  /\ \/ \E n \in Quanta : defaults' = [defaults EXCEPT !.quantum = n]
     \/ \E n \in Qsets : defaults' = [defaults EXCEPT !.qset = n]
     \/ defaults' = Default
  /\ UNCHANGED <<dev, pc, call, mixed>>

\* scull_llseek takes a file anywhere but before its start.
Positions == 0..MaxPos-1

\* Mutation of Current: the defaults are taken for the geometry in use.
CurrentDefaults == defaults
Current == Geometry(dev)

Begin(p, label) ==
  /\ pc[p] = "open"
  /\ GoTo(p, label)
  /\ \E pos \in Positions :
       call' = [call EXCEPT ![p] = [pos |-> pos, geometry |-> Current]]
  /\ UNCHANGED <<dev, defaults, mixed>>

BeginRead(p) == Begin(p, "reading")
BeginWrite(p) == Begin(p, "writing")

Return(p) == GoTo(p, "open") /\ call' = [call EXCEPT ![p] = NoCall]

\* A signal, before the semaphore is down.
Interrupted(p) ==
  /\ pc[p] \in {"reading", "writing"}
  /\ Return(p)
  /\ UNCHANGED <<dev, defaults, mixed>>

InUse(g) == g = Geometry(dev) /\ 0 \notin {g.quantum, g.qset}

\* What follows depends on what the memory holds: the model stops there.
Mix(p) ==
  /\ \/ pc[p] = "writing"
     \/ pc[p] = "reading" /\ call[p].pos < dev.size
  /\ ~InUse(call[p].geometry)
  /\ mixed' = TRUE
  /\ UNCHANGED <<dev, defaults, pc, call>>

\* Past the end there is nothing to read.  Before it, scull_follow makes the
\* items that are missing, as far as memory goes.
Read(p) ==
  /\ pc[p] = "reading" /\ Return(p)
  /\ \/ call[p].pos >= dev.size /\ UNCHANGED dev
     \/ /\ call[p].pos < dev.size /\ InUse(call[p].geometry)
        /\ \E n \in 0..Item(Current, call[p].pos) :
             dev' = [dev EXCEPT !.data = Follow(@, n)]
  /\ UNCHANGED <<defaults, mixed>>

\* How much is written at once: what is left of the quantum.
Count(pos) ==
  IF LeftInQuantum(Current, pos) < MaxPos - pos
  THEN LeftInQuantum(Current, pos) ELSE MaxPos - pos

Write(p) ==
  /\ pc[p] = "writing" /\ InUse(call[p].geometry) /\ Return(p)
  /\ LET pos == call[p].pos
         items == Allocated(dev.data, Current, pos)
     IN  \E n \in 1..Count(pos) : \E bytes \in [1..n -> Bytes] :
           dev' = Written(dev, pos, bytes, Store(items, Current, pos, bytes))
  /\ UNCHANGED <<defaults, mixed>>

\* No memory, or copy_from_user fails, which spoils what it was to fill.
WriteFails(p) ==
  /\ pc[p] = "writing" /\ InUse(call[p].geometry) /\ Return(p)
  /\ LET pos == call[p].pos
         items == Allocated(dev.data, Current, pos)
     IN  dev' \in {[dev EXCEPT !.data = left] :
                     left \in PartlyAllocated(dev.data, Current, pos)
                       \cup {Store(items, Current, pos, [x \in 1..n |-> Junk]) :
                               n \in 1..Count(pos)}}
  /\ UNCHANGED <<defaults, mixed>>

Stop == mixed /\ UNCHANGED vars

Next ==
  \/ /\ ~mixed
     /\ \E p \in Procs :
          \/ Open(p) \/ Close(p) \/ Ioctl(p) \/ BeginRead(p) \/ BeginWrite(p)
          \/ Interrupted(p) \/ Mix(p) \/ Read(p) \/ Write(p) \/ WriteFails(p)
  \/ Stop

Spec == Init /\ [][Next]_vars

-----------------------------------------------------------------------------
(* Properties.                                                             *)

Geometries == [quantum : Quanta, qset : Qsets]

(* Types, and the layout of what is allocated: "the current quantum size"  *)
(* and "the current array size" of scull.h are those of every quantum and  *)
(* array of the device, so that scull_trim frees what write allocated.     *)
TypeOK ==
  /\ Geometry(dev) \in Geometries /\ dev.size \in 0..MaxPos
  /\ WellLaid(dev)
  /\ defaults \in Geometries
  /\ call \in [Procs -> [pos : 0..MaxPos, geometry : Geometries]]
  /\ pc \in [Procs -> {"closed", "open", "reading", "writing"}]
  /\ mixed \in BOOLEAN

(* The device is a file, whatever its geometry, and whatever becomes of    *)
(* scull_quantum and scull_qset while it is used, until a call has used a  *)
(* geometry read before another's open has trimmed the device; and its     *)
(* memory is laid out for the geometry it has.                             *)
File == INSTANCE ScullFile
          WITH file <- AsFile(dev),
               MaxWrite <- CHOOSE q \in Quanta : \A r \in Quanta : r <= q
ImplementsFile == File!Spec /\ []TypeOK

-----------------------------------------------------------------------------
(* The inductive invariant: the device keeps the layout of its geometry,   *)
(* and nothing has been left past its end, where the file has holes next.  *)

Quantums(g) == {<<>>} \cup [1..g.quantum -> Bytes \cup {Junk}]
Arrays(g) == {<<>>} \cup [1..g.qset -> Quantums(g)]

Devices(g) ==
  [data : Seq(Arrays(g)), quantum : Quanta, qset : Qsets, size : 0..MaxPos]

DevInv == dev \in Devices(Geometry(dev))
HoleInv ==
  \A pos \in dev.size..MaxPos-1 :
    ByteAt(dev.data, Geometry(dev), pos) = Junk

\* Who reads or writes has a position to do it at.
CallInv ==
  \A p \in Procs :
    pc[p] \in {"reading", "writing"} => call[p].pos \in Positions

IInv == TypeOK /\ DevInv /\ HoleInv /\ CallInv
=============================================================================
