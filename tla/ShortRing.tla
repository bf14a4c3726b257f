------------------------------- MODULE ShortRing -------------------------------
(***************************************************************************)
(* The interrupt-driven node of short (short/short.c): a page of text that *)
(* the interrupt handler, or its bottom half, fills with one line per      *)
(* interrupt and that readers empty.  Nobody locks anything.               *)
(*                                                                         *)
(* A slot is a line of 16 bytes and a read takes whole lines.  Interrupts  *)
(* preempt everything.  A tasklet is not preempted by the readers and the  *)
(* work queue may be: both are the bottom half below.                      *)
(***************************************************************************)
EXTENDS Integers, FiniteSets

CONSTANTS
  Readers,
  Lines,     \* PAGE_SIZE / 16
  Times,     \* NR_TIMEVAL
  MaxCount   \* bound: interrupts between two runs of the bottom half

VARIABLES
  mode,      \* "direct", "shared", or "half" for a bottom half
  head, tail,          \* the text: short_head and short_tail
  fresh,               \* the lines written and not read since
  tv_head, tv_tail,    \* the times the top half leaves to the bottom half
  untold,              \* the times written and not reported since
  wq_count, scheduled, \* short_wq_count; the bottom half is scheduled
  bh, savecount,       \* where the bottom half is, and its local
  pc, count0,          \* of each reader
  overrun,   \* the text was full, or a time was overwritten
  raced,     \* two readers were past the wait at the same time
  spurious,  \* the bottom half found no time to report, and reported them all
  reread     \* a line was read, or a time reported, twice

text == <<head, fresh>>
times == <<tv_head, tv_tail, untold, wq_count, scheduled, bh, savecount, spurious>>
reading == <<tail, pc, count0, raced>>
vars == <<mode, text, times, reading, overrun, reread>>

Init ==
  /\ mode \in {"direct", "shared", "half"}
  /\ head = 0 /\ tail = 0 /\ fresh = {}
  /\ tv_head = 0 /\ tv_tail = 0 /\ untold = {}
  /\ wq_count = 0 /\ scheduled = FALSE /\ bh = "idle" /\ savecount = 0
  /\ pc = [r \in Readers |-> "out"] /\ count0 = [r \in Readers |-> 0]
  /\ overrun = FALSE /\ raced = FALSE /\ spurious = FALSE /\ reread = FALSE

\* short_incr_bp, on an index of lines.
\* Mutation of IncrBp: the end of the page is compared as one past it.
IncrBpLate(i, delta) == IF i + delta > Lines THEN 0 ELSE i + delta
IncrBp(i, delta) == IF i + delta >= Lines THEN 0 ELSE i + delta
IncrTv(i) == IF i = Times - 1 THEN 0 ELSE i + 1

-----------------------------------------------------------------------------
(* The writers of the text.                                                *)

\* A line at short_head; nobody looks whether it reaches the unread ones, and
\* a page full of them looks empty.
PutLine ==
  /\ head' = IncrBp(head, 1)
  /\ fresh' = fresh \cup {head}
  /\ overrun' = (overrun \/ IncrBp(head, 1) \in fresh \cup {head})

\* wake_up_interruptible: who is not asleep yet will not sleep.
Woken == [r \in Readers |-> IF pc[r] \in {"prepared", "asleep"} THEN "woken" ELSE pc[r]]

Interrupt ==
  /\ mode = "direct"
  /\ PutLine /\ pc' = Woken
  /\ UNCHANGED <<mode, times, tail, count0, raced, reread>>

\* The line is shared: an interrupt of another device changes nothing.
ShInterrupt ==
  /\ mode = "shared"
  /\ \/ PutLine /\ pc' = Woken
     \/ UNCHANGED <<text, overrun, pc>>
  /\ UNCHANGED <<mode, times, tail, count0, raced, reread>>

\* Mutation of Record: the count is stepped, the bottom half not scheduled.
RecordOnly ==
  /\ tv_head' = IncrTv(tv_head) /\ untold' = untold \cup {tv_head}
  /\ overrun' = (overrun \/ tv_head \in untold)
  /\ scheduled' = (scheduled \/ bh = "idle") /\ wq_count' = wq_count + 1
Record ==
  /\ tv_head' = IncrTv(tv_head) /\ untold' = untold \cup {tv_head}
  /\ overrun' = (overrun \/ tv_head \in untold)
  /\ scheduled' = TRUE /\ wq_count' = wq_count + 1

\* short_wq_interrupt and short_tl_interrupt.
TopHalf ==
  /\ mode = "half" /\ wq_count < MaxCount
  /\ Record
  /\ UNCHANGED <<mode, text, tv_tail, bh, savecount, spurious, reading, reread>>

BhSave ==
  /\ bh = "idle" /\ scheduled
  /\ scheduled' = FALSE /\ savecount' = wq_count /\ bh' = "reset"
  /\ UNCHANGED <<mode, text, tv_head, tv_tail, untold, wq_count, spurious, reading, overrun, reread>>

\* An interrupt since BhSave is not counted.
BhReset ==
  /\ bh = "reset" /\ bh' = "report"
  /\ wq_count' = 0 /\ savecount' = 0
  /\ PutLine  \* "bh after ..."
  /\ spurious' = (tv_tail = tv_head)
  /\ UNCHANGED <<mode, tv_head, tv_tail, untold, scheduled, reading, reread>>

\* One turn of the loop, which tests tv_tail only afterwards.
BhReport ==
  /\ bh = "report"
  /\ PutLine
  /\ tv_tail' = IncrTv(tv_tail) /\ untold' = untold \ {tv_tail}
  /\ reread' = (reread \/ (tv_tail \notin untold /\ ~spurious /\ ~overrun))
  /\ bh' = IF IncrTv(tv_tail) = tv_head THEN "wake" ELSE "report"
  /\ UNCHANGED <<mode, tv_head, wq_count, scheduled, savecount, spurious, reading>>

BhWake ==
  /\ bh = "wake" /\ bh' = "idle"
  /\ pc' = Woken /\ spurious' = FALSE
  /\ UNCHANGED <<mode, text, tv_head, tv_tail, untold, wq_count, scheduled, savecount, tail, count0, raced, overrun, reread>>

-----------------------------------------------------------------------------
(* short_i_read.                                                           *)

Goto(r, from, to) == pc[r] = from /\ pc' = [pc EXCEPT ![r] = to]
Others == UNCHANGED <<mode, text, times, overrun>>

\* Mutation of Begin: the reader does not prepare to wait before its test.
BeginLate(r) == Goto(r, "out", IF head = tail THEN "tested" ELSE "count")
Begin(r) == Goto(r, "out", IF head = tail THEN "prepare" ELSE "count")

Wait(r) ==
  /\ \/ Begin(r)
     \/ Goto(r, "prepare", "prepared")
     \/ Goto(r, "prepared", IF head = tail THEN "asleep" ELSE "woken")
     \/ Goto(r, "tested", "asleep")
     \/ Goto(r, "woken", IF head = tail THEN "prepare" ELSE "count")
  /\ Others /\ UNCHANGED <<tail, count0, raced, reread>>

\* A signal is seen after the sleep, and wakes.
Signal(r) ==
  /\ \E from \in {"asleep", "woken"} : Goto(r, from, "out")
  /\ Others /\ UNCHANGED <<tail, count0, raced, reread>>

\* Mutation of Readable: the lines after the wrap are counted, and not reached.
ReadableNoWrap == (Lines + head - tail) % Lines
Readable == IF head < tail THEN Lines - tail ELSE head - tail

PastTheWait(r) == pc[r] \in {"count", "copy"}

CountLines(r) ==
  /\ Goto(r, "count", "copy")
  /\ \E count \in 1..Lines :
       count0' = [count0 EXCEPT ![r] = IF Readable < count THEN Readable ELSE count]
  /\ raced' = (raced \/ \E q \in Readers \ {r} : PastTheWait(q))
  /\ Others /\ UNCHANGED <<tail, reread>>

\* The lines copied are those from short_tail, which is read again.
Copied(r) == {(tail + i) % Lines : i \in 0..(count0[r] - 1)}

Copy(r) ==
  /\ \/ /\ Goto(r, "copy", "out")
        /\ tail' = IncrBp(tail, count0[r]) /\ fresh' = fresh \ Copied(r)
        /\ reread' = (reread \/ (Copied(r) \ fresh # {} /\ ~raced /\ ~overrun))
     \/ Goto(r, "copy", "out") /\ UNCHANGED <<tail, fresh, reread>>  \* -EFAULT
  /\ count0' = [count0 EXCEPT ![r] = 0]
  /\ UNCHANGED <<mode, head, times, raced, overrun>>

Next ==
  \/ Interrupt \/ ShInterrupt \/ TopHalf
  \/ BhSave \/ BhReset \/ BhReport \/ BhWake
  \/ \E r \in Readers : Wait(r) \/ Signal(r) \/ CountLines(r) \/ Copy(r)

Spec == Init /\ [][Next]_vars

-----------------------------------------------------------------------------
(* Properties.                                                             *)

(* The heads and tails stay within their arrays, wherever they wrap.       *)
TypeOK ==
  /\ head \in 0..(Lines - 1) /\ tail \in 0..(Lines - 1) /\ fresh \subseteq 0..(Lines - 1)
  /\ tv_head \in 0..(Times - 1) /\ tv_tail \in 0..(Times - 1)
  /\ wq_count \in 0..MaxCount /\ count0 \in [Readers -> 0..Lines]

(* As long as neither array overflows and no two readers read at a time, a  *)
(* line is read once, and a time is reported once unless the bottom half   *)
(* runs for an interrupt whose time an earlier run has reported: its loop, *)
(* which tests the end after the first turn, then reports the whole array. *)
ToldOnce == ~reread

(* A reader whose line has come does not stay asleep: the test of the ring *)
(* follows prepare_to_wait, and the bottom half wakes after its last line. *)
NoLostWakeup ==
  ~raced /\ ~overrun /\ bh = "idle" =>
    \A r \in Readers : pc[r] = "asleep" => head = tail

(* Every interrupt that is counted or whose time is stored is followed by  *)
(* a run of the bottom half, however the two interleave ("Don't worry      *)
(* about multiple enqueueing").                                            *)
RunToCome ==
  bh = "idle" /\ ~scheduled => wq_count = 0 /\ tv_tail = tv_head

(* The interrupt handlers of short and the readers, with no lock between   *)
(* them: what has come is read, and reported, once.                        *)
RingSafe == TypeOK /\ ToldOnce /\ NoLostWakeup /\ RunToCome

-----------------------------------------------------------------------------
(* The inductive invariant.                                                *)

TypeInv ==
  /\ TypeOK
  /\ bh \in {"idle", "reset", "report", "wake"} /\ spurious \in BOOLEAN
  /\ pc \in [Readers -> {"out", "prepare", "prepared", "asleep", "woken", "count", "copy"}]

\* The places of a ring from one that is written to one that is not; all of
\* them when the two are the same.
Between(from, to, i) == IF from < to THEN from <= i /\ i < to ELSE from <= i \/ i < to

\* The lines to be read are those from the tail to the head, and the one who
\* copies has counted some of them.
TextInv ==
  ~raced /\ ~overrun =>
    /\ \A i \in 0..(Lines - 1) : i \in fresh <=> head # tail /\ Between(tail, head, i)
    /\ \A r \in Readers : pc[r] = "copy" =>
         count0[r] <= Readable /\ \A q \in Readers : pc[q] = "copy" => q = r

\* The times to be reported are among those from the tail to the head; the
\* two are the same while the loop goes on only when all of them are.
TimesInv ==
  /\ ~overrun /\ (IF bh = "report" THEN ~spurious ELSE tv_head # tv_tail) =>
       \A i \in 0..(Times - 1) : Between(tv_tail, tv_head, i) => i \in untold
  /\ ~scheduled =>
       /\ bh \in {"report", "wake"} => wq_count = 0
       /\ bh = "wake" => tv_tail = tv_head

IInv == TypeInv /\ TextInv /\ TimesInv /\ ToldOnce /\ NoLostWakeup /\ RunToCome
=============================================================================
