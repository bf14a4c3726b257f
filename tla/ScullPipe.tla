------------------------------- MODULE ScullPipe -------------------------------
(***************************************************************************)
(* The pipe device of scull (examples_ldd/scull/pipe.c): a circular buffer *)
(* under a semaphore, blocking reads and writes, and the two wait queues.  *)
(*                                                                         *)
(* Each process opens the device for reading or for writing.  What it does *)
(* with the semaphore down is one step, which ends with the up: nobody     *)
(* else looks at the buffer then, except the two tests of a process that   *)
(* is about to sleep, which it makes again later.  The semaphore, the wait *)
(* queue, the test and the sleep are separate steps.                       *)
(***************************************************************************)
EXTENDS Integers, Sequences, FiniteSets

CONSTANTS
  Readers, Writers,  \* the processes, from the mode they open the device in
  Bytes,
  Size,              \* scull_p_buffer
  NULL

Procs == Readers \cup Writers
Slots == 0..Size-1
Junk == "junk"  \* in a byte of the buffer that was not written

(* A process that opens the device has one mode, and the buffer holds at   *)
(* least a byte.                                                           *)
ASSUME ProcessAssumption ==
  Readers \cap Writers = {} /\ NULL \notin Procs /\ IsFiniteSet(Procs)
ASSUME SizeAssumption == Size \in Nat \ {0, 1}

VARIABLES
  sem,                 \* who has it down, or NULL
  allocated,           \* buffer # NULL
  contents, rp, wp,    \* the buffer, and the offsets of rp and wp in it
  nreaders, nwriters,
  queue,               \* who is in inq (the readers) and in outq (the writers)
  pc,                  \* where each process is
  moved                \* the bytes of the last read or write

ring == <<contents, rp, wp>>
counts == <<nreaders, nwriters>>
vars == <<sem, allocated, ring, counts, queue, pc, moved>>

Sections == {"opening", "moving", "releasing"}     \* with the semaphore down
Waiting == {"wait", "queued", "asleep", "lock"}    \* in a read or a write

Empty == [i \in Slots |-> Junk]

Init ==
  /\ sem = NULL /\ allocated = FALSE
  /\ contents = Empty /\ rp = 0 /\ wp = 0
  /\ nreaders = 0 /\ nwriters = 0
  /\ queue = {}
  /\ pc = [p \in Procs |-> "closed"]
  /\ moved = <<>>

GoTo(p, label) == pc' = [pc EXCEPT ![p] = label]

\* Mutation of SpaceFree: the byte that tells full from empty is used.
SpaceFreeAll == IF rp = wp THEN Size ELSE (rp + Size - wp) % Size
SpaceFree == IF rp = wp THEN Size - 1 ELSE ((rp + Size - wp) % Size) - 1

\* How much is read, or accepted, at once: up to the end of the buffer.
Readable == IF wp > rp THEN wp - rp ELSE Size - rp
Writable ==
  LET contiguous == IF wp >= rp THEN Size - wp ELSE rp - wp - 1
  IN  IF SpaceFree < contiguous THEN SpaceFree ELSE contiguous

CanMove(p) == IF p \in Readers THEN rp # wp ELSE SpaceFree # 0

\* Mutation of Advance: the end of the buffer is left one byte late.
AdvanceLate(i, n) == IF i + n > Size THEN 0 ELSE i + n
Advance(i, n) == IF i + n = Size THEN 0 ELSE i + n

-----------------------------------------------------------------------------
(* down, and a call that begins or goes on with it.                        *)

Down(p, label) ==
  /\ sem = NULL /\ sem' = p
  /\ GoTo(p, label)
  /\ UNCHANGED <<allocated, ring, counts, queue, moved>>

OpenDown(p) == pc[p] = "closed" /\ Down(p, "opening")
MoveDown(p) == pc[p] = "idle" /\ Down(p, "moving")
ReleaseDown(p) == pc[p] = "idle" /\ Down(p, "releasing")

\* After the wait.
LockAgain(p) == pc[p] = "lock" /\ Down(p, "moving")

-----------------------------------------------------------------------------
(* scull_p_open and scull_p_release, with the semaphore down.              *)

\* Both pointers go back to the start, even if others use the pipe.  What
\* the buffer held can be read no more, and is forgotten.
Open(p) ==
  /\ pc[p] = "opening" /\ sem' = NULL
  /\ \/ /\ ~allocated  \* and there is no memory
        /\ GoTo(p, "closed")
        /\ UNCHANGED <<allocated, ring, counts>>
     \/ /\ allocated' = TRUE
        /\ rp' = 0 /\ wp' = 0 /\ contents' = Empty
        /\ nreaders' = nreaders + (IF p \in Readers THEN 1 ELSE 0)
        /\ nwriters' = nwriters + (IF p \in Writers THEN 1 ELSE 0)
        /\ GoTo(p, "idle")
  /\ UNCHANGED <<queue, moved>>

\* Mutation of NobodyLeft: the writers are not looked at.
NoReaderLeft == nreaders' = 0
NobodyLeft == nreaders' + nwriters' = 0

Release(p) ==
  /\ pc[p] = "releasing" /\ sem' = NULL
  /\ nreaders' = nreaders - (IF p \in Readers THEN 1 ELSE 0)
  /\ nwriters' = nwriters - (IF p \in Writers THEN 1 ELSE 0)
  /\ allocated' = (allocated /\ ~NobodyLeft)
  /\ GoTo(p, "closed")
  /\ UNCHANGED <<ring, queue, moved>>

-----------------------------------------------------------------------------
(* scull_p_read and scull_p_write, with the semaphore down.                *)

Take(n) ==
  /\ moved' = SubSeq([i \in 1..Readable |-> contents[rp + i - 1]], 1, n)
  /\ rp' = Advance(rp, n)
  /\ UNCHANGED <<contents, wp>>

Put(n) ==
  /\ moved' \in [1..n -> Bytes]
  /\ contents' = [i \in Slots |->
       IF i \in wp..wp+n-1 THEN moved'[i - wp + 1] ELSE contents[i]]
  /\ wp' = Advance(wp, n)
  /\ UNCHANGED rp

Move(p) ==
  /\ pc[p] = "moving" /\ CanMove(p)
  /\ sem' = NULL
  /\ IF p \in Readers THEN \E n \in 1..Readable : Take(n)
                      ELSE \E n \in 1..Writable : Put(n)
  /\ GoTo(p, "wake")
  /\ UNCHANGED <<allocated, counts, queue>>

\* copy_to_user or copy_from_user fails.
Fault(p) ==
  /\ pc[p] = "moving" /\ CanMove(p)
  /\ sem' = NULL
  /\ GoTo(p, "idle")
  /\ UNCHANGED <<allocated, ring, counts, queue, moved>>

\* Mutation of WakeOther: the process wakes its own side.
WakeOwn(p) == queue' = queue \ (IF p \in Readers THEN Readers ELSE Writers)
WakeOther(p) == queue' = queue \ (IF p \in Readers THEN Writers ELSE Readers)

Wake(p) ==
  /\ pc[p] = "wake"
  /\ WakeOther(p)
  /\ GoTo(p, "idle")
  /\ UNCHANGED <<sem, allocated, ring, counts, moved>>

-----------------------------------------------------------------------------
(* Waiting: wait_event_interruptible of a reader, scull_getwritespace of a *)
(* writer.                                                                 *)

\* The semaphore is given up first; with O_NONBLOCK the call returns.
GiveUp(p) ==
  /\ pc[p] = "moving" /\ ~CanMove(p)
  /\ sem' = NULL
  /\ GoTo(p, "wait") \/ GoTo(p, "idle")
  /\ UNCHANGED <<allocated, ring, counts, queue, moved>>

\* prepare_to_wait.
Prepare(p) ==
  /\ pc[p] = "wait"
  /\ queue' = queue \cup {p}
  /\ GoTo(p, "queued")
  /\ UNCHANGED <<sem, allocated, ring, counts, moved>>

\* Mutation of TestAgain: the process sleeps on the test it made before.
SleepUntested(p) ==
  /\ pc[p] = "queued"
  /\ GoTo(p, "asleep")
  /\ UNCHANGED <<sem, allocated, ring, counts, queue, moved>>

\* The test after it, without the semaphore, and finish_wait or schedule.
TestAgain(p) ==
  /\ pc[p] = "queued"
  /\ \/ CanMove(p) /\ queue' = queue \ {p} /\ GoTo(p, "lock")
     \/ ~CanMove(p) /\ GoTo(p, "asleep") /\ UNCHANGED queue
  /\ UNCHANGED <<sem, allocated, ring, counts, moved>>

\* Woken up: a reader tests again, a writer goes for the semaphore.
Awake(p) ==
  /\ pc[p] = "asleep" /\ p \notin queue
  /\ GoTo(p, IF p \in Readers THEN "wait" ELSE "lock")
  /\ UNCHANGED <<sem, allocated, ring, counts, queue, moved>>

\* A signal ends the wait.
Interrupted(p) ==
  /\ pc[p] \in {"queued", "asleep", "lock"}
  /\ queue' = queue \ {p}
  /\ GoTo(p, "idle")
  /\ UNCHANGED <<sem, allocated, ring, counts, moved>>

-----------------------------------------------------------------------------
Body(p) ==
  \/ Open(p) \/ Release(p) \/ Move(p) \/ Fault(p) \/ Wake(p)
  \/ GiveUp(p) \/ Prepare(p) \/ TestAgain(p) \/ Awake(p)

Next ==
  \E p \in Procs :
    \/ OpenDown(p) \/ MoveDown(p) \/ ReleaseDown(p) \/ LockAgain(p)
    \/ Body(p) \/ Interrupted(p)

Spec == Init /\ [][Next]_vars

(* A call that has begun goes on; the semaphore serves those who wait for  *)
(* it in turn.  Nobody has to call, and a signal need not come.            *)
Fairness == \A p \in Procs : WF_vars(Body(p)) /\ SF_vars(LockAgain(p))
FairSpec == Spec /\ Fairness

-----------------------------------------------------------------------------
(* Properties.                                                             *)

TypeOK ==
  /\ sem \in Procs \cup {NULL} /\ allocated \in BOOLEAN
  /\ contents \in [Slots -> Bytes \cup {Junk}]
  /\ rp \in Slots /\ wp \in Slots
  /\ nreaders \in Nat /\ nwriters \in Nat
  /\ queue \subseteq Procs
  /\ pc \in [Procs -> {"closed", "idle", "wake"} \cup Sections \cup Waiting]
  /\ moved \in Seq(Bytes)

(* A process that has the device open finds the buffer there, and the last *)
(* one to close it frees it, whichever order they come in.                 *)
BufferWhileOpen ==
  allocated <=> \E p \in Procs : pc[p] \notin {"closed", "opening"}

(* No wake-up is lost: whoever sleeps although it could go on is about to  *)
(* be woken by the other side.  One case is left, which the code does not  *)
(* cover: an open has emptied the pipe under a writer, it wakes nobody,    *)
(* and nothing has been read since, so that rp is where the open put it.   *)
NobodyStranded ==
  \A p \in Procs : pc[p] = "asleep" /\ p \in queue /\ CanMove(p) =>
    \/ \E q \in Procs : pc[q] = "wake" /\ (q \in Readers <=> p \notin Readers)
    \/ p \in Writers /\ rp = 0

(* The pipe, at every moment: offsets in range, the buffer there for those *)
(* who have it open, and no sleeper forgotten.                             *)
PipeSafe == TypeOK /\ BufferWhileOpen /\ NobodyStranded

(* A reader that waits while there is something to read goes on, or others *)
(* have read it all (or thrown it away).                                   *)
ReadersServed ==
  \A p \in Readers :
    pc[p] \in Waiting /\ rp # wp ~> pc[p] \notin Waiting \/ rp = wp

(* The pipe is a ScullStream: no byte is lost, made up, doubled or put out *)
(* of order when the pointers wrap or several processes read and write.    *)
Used == (wp + Size - rp) % Size
Stream == INSTANCE ScullStream WITH
  Capacity <- Size - 1,
  pipe <- [i \in 1..Used |-> contents[(rp + i - 1) % Size]]
ImplementsStream == Stream!Spec

-----------------------------------------------------------------------------
(* The inductive invariant.                                                *)

\* Those of ps that have the device open.
Opened(ps) == {p \in ps : pc[p] \notin {"closed", "opening"}}

\* The semaphore is down for the one process that is in a section.
SemInv == \A p \in Procs : pc[p] \in Sections <=> sem = p

\* The counts are exact, and the last one to close frees the buffer.
CountInv ==
  /\ nreaders = Cardinality(Opened(Readers))
  /\ nwriters = Cardinality(Opened(Writers))
  /\ allocated <=> nreaders + nwriters # 0

\* What lies between rp and wp has been written.
Written(i) == IF rp <= wp THEN rp <= i /\ i < wp ELSE rp <= i \/ i < wp
WindowInv == \A i \in Slots : Written(i) => contents[i] \in Bytes

IInv == TypeOK /\ SemInv /\ CountInv /\ WindowInv /\ NobodyStranded
=============================================================================
