------------------------------- MODULE ShortPrint -------------------------------
(***************************************************************************)
(* The printer driver (shortprint/shortprint.c): writers fill a circular   *)
(* buffer, and a work function sends it a byte at a time; the interrupt    *)
(* of the printer, or the timer when that one is missed, queues the work.  *)
(*                                                                         *)
(* One processor: the interrupt and the timer preempt the processes and    *)
(* the work, which preempt each other.  A section under shortp_out_lock,   *)
(* which disables the interrupts, is one step.  The device can be opened   *)
(* from register_chrdev on, in the middle of the load.  What needs a thing *)
(* that is not there yet, could not be allocated, or is gone, stops the    *)
(* machine (fault).  The times that the work leaves for the readers go to  *)
(* a ring like that of ShortRing.                                          *)
(***************************************************************************)
EXTENDS Integers, Sequences

CONSTANTS
  Writers,   \* each writes its own name
  Size,      \* PAGE_SIZE; SP_MIN_SPACE is half of it
  MaxCount   \* bound: bytes of a write

VARIABLES
  phase,       \* of the module, below
  lacks,       \* what could not be allocated
  fault,       \* something was used that is not there
  data, head, tail,  \* shortp_out_buffer
  active,      \* shortp_output_active
  timer,       \* shortp_timer is pending
  queued,      \* shortp_work is pending
  work,        \* where shortp_do_work is: "idle", "wait", or "read side"
  cut,         \* a signal ended the wait of the last close for the output
  sem,         \* shortp_out_sem is free
  pc, left,    \* of each writer: where it is, and what it has to write
  last,        \* the bytes last put into the buffer, or sent
  early        \* the work has sent a byte while the output was not active

buffer == <<data, head, tail, last>>
output == <<active, timer, queued, work, early, cut>>
writing == <<sem, pc, left>>
module == <<phase, lacks, fault>>
vars == <<module, buffer, output, writing>>

NoByte == "none"

\* How far the load has come: the device is registered, the pages and the
\* semaphore are there, the timer, the work queue; or the cleanup: after a
\* failed request_irq or with the line given back the timer is to be looked
\* at, then the work is awaited, then the pages are to be freed.
Loading == {"device", "pages", "timer", "queue"}
Leaving == {"failed", "free", "flush", "freeing", "gone"}
Phases == Loading \cup {"live"} \cup Leaving

Blank == [i \in 0..(Size - 1) |-> NoByte]

Init ==
  /\ phase = "gone" /\ lacks = {} /\ fault = FALSE /\ sem = TRUE
  /\ data = Blank /\ head = 0 /\ tail = 0 /\ last = <<>>
  /\ active = FALSE /\ timer = FALSE /\ queued = FALSE /\ work = "idle"
  /\ early = FALSE /\ cut = FALSE
  /\ pc = [w \in Writers |-> "closed"] /\ left = [w \in Writers |-> 0]

-----------------------------------------------------------------------------
(* Loading.                                                                *)

Reach(from, to) == phase = from /\ phase' = to

\* A new image of the module; request_region and register_chrdev leave nothing
\* when they fail.  Bound: one that left its timer or an open file behind
\* is not loaded again; a second image would not stop either.
ShortpInit ==
  /\ Reach("gone", "device") /\ ~timer /\ \A w \in Writers : pc[w] = "closed"
  /\ data' = Blank /\ head' = 0 /\ tail' = 0 /\ lacks' = {}
  /\ active' = FALSE /\ early' = FALSE /\ cut' = FALSE
  /\ UNCHANGED <<fault, last, timer, queued, work, writing>>

\* __get_free_pages may fail, and its result is not looked at.
InitPages ==
  /\ Reach("device", "pages")
  /\ lacks' \in SUBSET {"in_page", "out_page"}
  /\ head' = 0 /\ tail' = 0 /\ sem' = TRUE
  /\ UNCHANGED <<fault, data, last, output, pc, left>>

InitOutput ==
  /\ Reach("pages", "timer")
  /\ active' = FALSE
  /\ UNCHANGED <<lacks, fault, buffer, timer, queued, work, early, cut, writing>>

\* Nor is that of create_singlethread_workqueue.
InitQueue ==
  /\ Reach("timer", "queue")
  /\ lacks' \in {lacks, lacks \cup {"workqueue"}}
  /\ UNCHANGED <<fault, buffer, output, writing>>

\* The result of request_irq: shortp_cleanup is called if it fails.
InitIrq ==
  /\ phase = "queue" /\ phase' \in {"live", "failed"}
  /\ UNCHANGED <<lacks, fault, buffer, output, writing>>

CleanupStep(from, to) ==
  /\ Reach(from, to)
  /\ UNCHANGED <<lacks, fault, buffer, active, queued, work, early, cut, writing>>

\* rmmod waits for the last close; nobody can open then.
CleanupIrq ==
  /\ \A w \in Writers : pc[w] = "closed"
  /\ CleanupStep("live", "free") /\ UNCHANGED timer

\* The timer is stopped if the output is active.  After a failed load the
\* device can be opened up to unregister_chrdev, and written to later; what
\* writers do between that and the test of the timer they may do before.
CleanupTimer ==
  /\ \E from \in {"free", "failed"} : CleanupStep(from, "flush")
  /\ timer' = (timer /\ ~active)

\* Mutation of Flushed: the work queue is not flushed.
FlushedAtOnce == TRUE
Flushed == ~queued /\ work = "idle"

CleanupFlush ==
  /\ "workqueue" \notin lacks /\ Flushed
  /\ CleanupStep("flush", "freeing") /\ UNCHANGED timer

\* After a failed load the kernel frees the module, whoever has it open.
CleanupPages == CleanupStep("freeing", "gone") /\ UNCHANGED timer

-----------------------------------------------------------------------------
(* shortp_write.                                                           *)

Goto(w, from, to) ==
  phase # "gone" /\ pc[w] = from /\ pc' = [pc EXCEPT ![w] = to]

Open(w) ==
  /\ phase \in Loading \cup {"live", "failed"} /\ Goto(w, "closed", "open")
  /\ cut' = FALSE
  /\ UNCHANGED <<module, buffer, active, timer, queued, work, early, sem, left>>

Release(w) ==
  /\ Goto(w, "open", "release")
  /\ UNCHANGED <<module, buffer, output, sem, left>>

\* Mutation of OutputEnded: close does not wait.
OutputEndedOrNot == TRUE
OutputEnded == ~active

\* The wait for the output to end may be interrupted.
Released(w) ==
  /\ Goto(w, "release", "closed")
  /\ \/ OutputEnded /\ UNCHANGED cut
     \/ cut' = (\A v \in Writers \ {w} : pc[v] = "closed")  \* a signal
  /\ UNCHANGED <<module, buffer, active, timer, queued, work, early, sem, left>>

Down(w) ==
  /\ phase # "device" /\ sem /\ sem' = FALSE
  /\ Goto(w, "open", "space")
  /\ \E count \in 1..MaxCount : left' = [left EXCEPT ![w] = count]
  /\ UNCHANGED <<module, buffer, output>>

\* The space up to the end of the buffer or to the byte before the tail.
\* Mutation of OutSpace: a tail at the start of the buffer is no matter.
OutSpaceToTheEnd == IF head >= tail THEN Size - head ELSE tail - head - 1
OutSpace ==
  IF head >= tail THEN IF tail = 0 THEN Size - head - 1 ELSE Size - head
  ELSE tail - head - 1

\* Mutation of IncrOutBp: the end of the page is compared as one past it.
IncrOutBpLate(i, n) == IF i + n > Size THEN i + n - Size ELSE i + n
IncrOutBp(i, n) == IF i + n >= Size THEN i + n - Size ELSE i + n

Leave(w, from) ==
  /\ Goto(w, from, "open") /\ sem' = TRUE /\ left' = [left EXCEPT ![w] = 0]
  /\ UNCHANGED <<module, buffer, output>>

\* The end of the write, -EFAULT, and a signal.
Up(w) ==
  \/ left[w] = 0 /\ Leave(w, "space")
  \/ left[w] > 0 /\ OutSpace > 0 /\ Leave(w, "space")
  \/ Leave(w, "asleep")

Sleep(w) ==
  /\ left[w] > 0 /\ OutSpace <= 0
  /\ Goto(w, "space", "asleep")
  /\ UNCHANGED <<module, buffer, output, sem, left>>

Move(w) ==
  /\ left[w] > 0 /\ OutSpace > 0 /\ "out_page" \notin lacks
  /\ Goto(w, "space", "start")
  /\ LET n == IF OutSpace > left[w] THEN left[w] ELSE OutSpace
     IN  /\ data' = [i \in 0..(Size - 1) |-> IF i \in head..(head + n - 1) THEN w ELSE data[i]]
         /\ head' = IncrOutBp(head, n)
         /\ left' = [left EXCEPT ![w] = @ - n]
         /\ last' = [i \in 1..n |-> w]
  /\ UNCHANGED <<module, tail, output, sem>>

\* The timer is initialised, and the work queue there and not destroyed.
CanQueue ==
  /\ phase \notin {"device", "pages", "timer", "freeing", "gone"}
  /\ "workqueue" \notin lacks

StartOutput(w) ==
  /\ active \/ CanQueue
  /\ Goto(w, "start", "space")
  /\ active' = TRUE /\ timer' = (timer \/ ~active) /\ queued' = (queued \/ ~active)
  /\ early' = FALSE
  /\ UNCHANGED <<module, buffer, work, cut, sem, left>>

-----------------------------------------------------------------------------
(* The work, the interrupt and the timer.                                  *)

WorkStart ==
  /\ queued /\ work = "idle"
  /\ queued' = FALSE /\ work' = "wait"
  /\ UNCHANGED <<module, buffer, active, timer, early, cut, writing>>

\* wake_up_interruptible(&shortp_out_queue), if there is room enough.
\* Mutation of Roomy: the bytes that wait are counted, and not the room.
RoomyUsed(t) == (Size + head - t) % Size > Size \div 2
Roomy(t) == (Size + t - head) % Size > Size \div 2
WakeWriters(t) ==
  pc' = [w \in Writers |-> IF pc[w] = "asleep" /\ Roomy(t) THEN "space" ELSE pc[w]]

\* Mutation of Finish: the timer is left to find the output inactive.
FinishQuietly == active' = FALSE /\ UNCHANGED timer
Finish == active' = FALSE /\ timer' = FALSE

\* Mutation of Done: the byte at the tail is taken for one that was sent.
DoneEarly == head = IncrOutBp(tail, 1)
Done == head = tail

\* The printer is ready.
DoWork ==
  /\ work = "wait" /\ work' = "read_side"
  /\ \/ /\ Done /\ Finish /\ early' = FALSE /\ cut' = FALSE
        /\ WakeWriters(tail) /\ UNCHANGED buffer
     \/ /\ ~Done  \* shortp_do_write
        /\ timer' = TRUE /\ tail' = IncrOutBp(tail, 1) /\ last' = <<data[tail]>>
        /\ early' = ~active
        /\ WakeWriters(tail') /\ UNCHANGED <<data, head, active, cut>>
  /\ UNCHANGED <<module, queued, sem, left>>

ReadSide ==
  /\ work = "read_side" /\ work' = "idle" /\ "in_page" \notin lacks
  /\ UNCHANGED <<module, buffer, active, timer, queued, early, cut, writing>>

Interrupt ==
  /\ phase = "live" /\ active
  /\ queued' = TRUE
  /\ UNCHANGED <<module, buffer, active, timer, work, early, cut, writing>>

\* Mutation of Missed: the timer is not set again, and the work not queued.
MissedIgnored == timer' = FALSE /\ UNCHANGED queued
Missed == timer' = FALSE /\ queued' = TRUE

\* The printer is off line, or still busy: the timer is set again.
Busy == timer' = TRUE /\ UNCHANGED queued

\* One that comes when the module is gone is a fault (TimerFaults).
Timeout ==
  /\ timer /\ phase # "gone"
  /\ \/ ~active /\ timer' = FALSE /\ UNCHANGED queued
     \/ active /\ Busy
     \/ active /\ CanQueue /\ Missed
  /\ UNCHANGED <<module, buffer, active, work, early, cut, writing>>

Write(w) == Down(w) \/ Up(w) \/ Sleep(w) \/ Move(w) \/ StartOutput(w)
Work == WorkStart \/ DoWork \/ ReadSide

-----------------------------------------------------------------------------
(* The steps that stop the machine.                                        *)

\* A writer's: shortp_out_sem is not set up, there is no page to write to, the
\* timer or the work queue is not there, or the code itself.
WriterFaults(w) ==
  \/ phase = "device" /\ pc[w] = "open"
  \/ "out_page" \in lacks /\ pc[w] = "space" /\ left[w] > 0 /\ OutSpace > 0
  \/ pc[w] = "start" /\ ~active /\ ~CanQueue
  \/ phase = "gone" /\ pc[w] # "closed"

WorkFaults == work = "read_side" /\ "in_page" \in lacks

\* The timer queues work on the queue that is destroyed, or is in the memory
\* that was the module's.
TimerFaults == timer /\ (phase = "gone" \/ (phase = "freeing" /\ active))

FlushFaults == phase = "flush" /\ "workqueue" \in lacks

Fault ==
  /\ WorkFaults \/ TimerFaults \/ FlushFaults \/ \E w \in Writers : WriterFaults(w)
  /\ fault' = TRUE
  /\ UNCHANGED <<phase, lacks, buffer, output, writing>>

Stop == fault /\ UNCHANGED vars

Load == ShortpInit \/ InitPages \/ InitOutput \/ InitQueue \/ InitIrq
Cleanup == CleanupIrq \/ CleanupTimer \/ CleanupFlush \/ CleanupPages
Step ==
  \/ Load \/ Cleanup
  \/ \E w \in Writers : Open(w) \/ Release(w) \/ Released(w) \/ Write(w)
  \/ Work \/ Interrupt \/ Timeout \/ Fault

Next == (~fault /\ Step) \/ Stop

Spec == Init /\ [][Next]_vars

(* The work goes on: the printer does not stay off line.  An active        *)
(* output's timer in the end finds the printer idle.  No interrupt needs   *)
(* to come.  A writer that is not asleep goes on.                          *)
Fairness ==
  /\ WF_vars(~fault /\ (Work \/ (WorkFaults /\ Fault)))
  /\ SF_vars(/\ ~fault /\ timer /\ active /\ CanQueue /\ Missed
             /\ UNCHANGED <<module, buffer, active, work, early, cut, writing>>)
  /\ WF_vars(~fault /\ \E w \in Writers : StartOutput(w))

-----------------------------------------------------------------------------
(* Properties.                                                             *)

Waiting ==
  [i \in 1..((Size + head - tail) % Size) |-> data[(tail + i - 1) % Size]]

(* The head and the tail stay within the page, and no byte is sent that no *)
(* writer has put there.                                                   *)
TypeOK ==
  /\ phase \in Phases /\ lacks \subseteq {"in_page", "out_page", "workqueue"}
  /\ head \in 0..(Size - 1) /\ tail \in 0..(Size - 1)
  /\ data \in [0..(Size - 1) -> Writers \cup {NoByte}]
  /\ left \in [Writers -> 0..MaxCount]

(* The printer is sent the bytes of the writers, each once and in order,   *)
(* and the buffer never overflows ("we don't want to drop data").          *)
Stream == INSTANCE ScullStream
            WITH Bytes <- Writers, Capacity <- Size - 1, pipe <- Waiting, moved <- last
ImplementsStream == Stream!Init /\ [][Stream!Next]_(Stream!svars)

(* Until the cleanup begins something drives an active output on, whatever *)
(* interrupts are missed: the timer is pending, or the work is, or runs.   *)
ActiveIsDriven == active /\ phase \notin Leaving => timer \/ queued \/ work # "idle"

(* What is in the buffer is being sent, or the writer that put it there    *)
(* has still to start the output.                                          *)
WaitingIsSent == head # tail => active \/ \E w \in Writers : pc[w] = "start"

(* "When output is active, the timer is too", and only then; but a second  *)
(* run of the work, which an interrupt queued during the first, may find   *)
(* the bytes of a writer before this has started the output, and sets the  *)
(* timer that the writer then adds.                                        *)
TimerOnlyWhileActive == timer /\ ~active => early

(* When the work queue is destroyed no work is left to run.                *)
NoWorkLeft == phase \in {"freeing", "gone"} => ~queued /\ work = "idle"

(* "Don't leave any timers floating around": the one that the work, or the *)
(* timer itself, sets again after shortp_cleanup has stopped it outlives   *)
(* the module; but only if a signal cut the last close short, so that the  *)
(* output goes on, or a failed load is cleaned up under an open file.      *)
StillOpen == \E w \in Writers : pc[w] # "closed"
TimerLeft == phase = "gone" /\ timer => cut \/ StillOpen

(* The machine is stopped only in the load before the work queue is there, *)
(* for want of memory, and after a cleanup that a signal or a failed load  *)
(* let run with the output active or a file open: never by a write, the    *)
(* work, an interrupt or the timer while a module with its memory is in    *)
(* use, nor after closes that waited for the output.                       *)
FaultsExplained ==
  fault => \/ phase \in {"device", "pages", "timer"}
           \/ lacks # {}
           \/ phase \in Leaving /\ (cut \/ StillOpen)

(* A writer that waits for room gets it, though every interrupt be missed: *)
(* the byte that brings the room to half the page wakes it, and the last   *)
(* one would not; unless the machine stops, or the load has failed.  It    *)
(* holds the semaphore, so that no other writer waits for room meanwhile.  *)
WriterWaits == \E w \in Writers : pc[w] = "asleep"
WriterServed == WriterWaits ~> ~WriterWaits \/ fault \/ phase \in Leaving

(* The output of shortprint: as long as there is some, the work, the timer *)
(* and the writers drive it on; nothing does once the module is gone but,  *)
(* in the cases that TimerLeft names, the timer; and what is used is there *)
(* but in those that FaultsExplained names.                                *)
PrintSafe ==
  /\ TypeOK /\ ActiveIsDriven /\ WaitingIsSent /\ TimerOnlyWhileActive /\ NoWorkLeft
  /\ TimerLeft /\ FaultsExplained

-----------------------------------------------------------------------------
(* The inductive invariant.                                                *)

Labels == {"closed", "open", "release", "space", "asleep", "start"}

TypeInv ==
  /\ TypeOK /\ pc \in [Writers -> Labels]
  /\ active \in BOOLEAN /\ timer \in BOOLEAN /\ queued \in BOOLEAN /\ early \in BOOLEAN
  /\ cut \in BOOLEAN /\ fault \in BOOLEAN
  /\ work \in {"idle", "wait", "read_side"}

\* The work leaves an active output only after it has set the timer again.
DrivenInv == active /\ phase \notin Leaving => timer \/ queued \/ work = "wait"

\* Output that is active when all files are closed is that of a cut close.
ClosedInv == active => cut \/ StillOpen

\* The writer whose byte was sent early has still to start the output.
EarlyInv == early => \E w \in Writers : pc[w] = "start"

\* No output starts before there is a work queue.
LoadInv == phase \in {"device", "pages", "timer"} => ~active

IInv ==
  /\ TypeInv /\ DrivenInv /\ WaitingIsSent /\ TimerOnlyWhileActive /\ NoWorkLeft
  /\ ClosedInv /\ EarlyInv /\ LoadInv /\ FaultsExplained
=============================================================================
