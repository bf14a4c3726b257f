--------------------------------- MODULE Sbull ---------------------------------
(***************************************************************************)
(* The memory disk of the examples (sbull/sbull.c), one of its devices:    *)
(* its three ways of serving requests, the timer that simulates a change   *)
(* of the media when nobody uses it, and its set-up, which may fail.       *)
(*                                                                         *)
(* The block layer calls open and release of a disk one at a time, and a   *)
(* request function with dev->lock held and the interrupts off; it makes   *)
(* no request beyond the capacity.                                         *)
(***************************************************************************)
EXTENDS Integers, FiniteSets

CONSTANTS
  Users,   \* processes, that write their names
  Sectors  \* number of sectors; a request is for all of them

Modes == {"RM_SIMPLE", "RM_FULL", "RM_NOQUEUE"}
Zero == "zero"

VARIABLES
  phase,         \* "unloaded", "setup", or "live"
  request_mode,
  major,         \* the major number is registered
  memory,        \* dev->data: "none", "allocated", "dangling", or "freed_twice"
  queue, gd,     \* dev->queue and dev->gd are there
  disk,          \* the sectors
  users, media_change, timer,
  opener,        \* who is in sbull_open, or is not Users
  pc, at,        \* of each process; the sector its request is at
  seen,          \* what its read found
  lock,          \* whose request dev->lock is held for
  insane         \* "timer sanity check failed"

module == <<phase, request_mode, major, memory, queue, gd>>
media == <<users, media_change, timer, opener, insane>>
io == <<disk, at, seen, lock>>
vars == <<module, media, io, pc>>

Nobody == "nobody"
Blank == [s \in 0..(Sectors - 1) |-> Zero]

Init ==
  /\ phase = "unloaded" /\ request_mode \in Modes /\ major = FALSE
  /\ memory = "none" /\ queue = FALSE /\ gd = FALSE
  /\ disk = Blank
  /\ users = 0 /\ media_change = FALSE /\ timer = FALSE /\ opener = Nobody /\ insane = FALSE
  /\ pc = [u \in Users |-> "closed"] /\ at = [u \in Users |-> 0]
  /\ seen = [u \in Users |-> {}] /\ lock = Nobody

-----------------------------------------------------------------------------
(* Loading and unloading.                                                  *)

\* When there is no memory for the devices, unregister_blkdev is given a name
\* that is not the registered one, and does nothing.
SbullInit ==
  /\ phase = "unloaded"
  /\ memory' = "none" /\ major' = TRUE
  /\ phase' \in {"unloaded", "setup"}
  /\ UNCHANGED <<request_mode, queue, gd, media, io, pc>>

\* Without memory, queue or gendisk the device is left as it is.
SetupDevice ==
  /\ phase = "setup" /\ phase' = "live"
  /\ disk' = Blank /\ users' = 0 /\ media_change' = FALSE /\ timer' = FALSE
  /\ \/ memory' = "none" /\ queue' = FALSE /\ gd' = FALSE
     \/ memory' = "dangling" /\ queue' \in BOOLEAN /\ gd' = FALSE
     \/ memory' = "allocated" /\ queue' = TRUE /\ gd' = TRUE
  /\ UNCHANGED <<request_mode, major, opener, insane, at, seen, lock, pc>>

\* Mutation of DelTimer: the timer is left pending.
DelTimerNot == UNCHANGED timer
DelTimer == timer' = FALSE

SbullExit ==
  /\ phase = "live" /\ \A u \in Users : pc[u] = "closed"
  /\ DelTimer
  /\ gd' = FALSE /\ queue' = FALSE
  /\ memory' = CASE memory = "none" -> "none"
                 [] memory = "allocated" -> "freed"
                 [] memory = "dangling" -> "freed_twice"
  /\ major' = FALSE /\ phase' = "unloaded"
  /\ UNCHANGED <<request_mode, users, media_change, opener, insane, io, pc>>

-----------------------------------------------------------------------------
(* Opening, closing, and the change of the media.                          *)

Goto(u, from, to) == pc[u] = from /\ pc' = [pc EXCEPT ![u] = to]

OpenTimer(u) ==
  /\ gd /\ opener = Nobody /\ opener' = u
  /\ Goto(u, "closed", "opening")
  /\ DelTimer
  /\ UNCHANGED <<module, users, media_change, insane, io>>

\* sbull_media_changed and sbull_revalidate, which check_disk_change calls.
CheckDiskChange ==
  IF users = 0 /\ media_change
  THEN media_change' = FALSE /\ disk' = Blank
  ELSE UNCHANGED <<media_change, disk>>

Open(u) ==
  /\ opener = u /\ opener' = Nobody
  /\ Goto(u, "opening", "open")
  /\ CheckDiskChange
  /\ users' = users + 1
  /\ UNCHANGED <<module, timer, insane, at, seen, lock>>

\* Mutation of Last: the timer is started by every release.
LastOrNot == TRUE
Last == users = 1

Release(u) ==
  /\ opener = Nobody
  /\ Goto(u, "open", "closed")
  /\ users' = users - 1
  /\ timer' = (timer \/ Last)
  /\ UNCHANGED <<module, media_change, opener, insane, io>>

\* The timer preempts what it finds.
Invalidate ==
  /\ timer /\ timer' = FALSE
  /\ IF users > 0 THEN insane' = TRUE /\ UNCHANGED media_change
     ELSE media_change' = TRUE /\ UNCHANGED insane
  /\ UNCHANGED <<module, users, opener, io, pc>>

-----------------------------------------------------------------------------
(* Requests.                                                               *)

Submit(u) ==
  /\ \E what \in {"read", "write"} : Goto(u, "open", what)
  /\ at' = [at EXCEPT ![u] = 0] /\ seen' = [seen EXCEPT ![u] = {}]
  /\ UNCHANGED <<module, media, disk, lock>>

\* Mutation of Locked: the functions of a queue do without the lock.
NotLocked == FALSE
Locked == request_mode # "RM_NOQUEUE"

\* sbull_request, or sbull_full_request, is given a request; one that is not
\* from a file system has failed before anything is done.
TakeRequest(u) ==
  /\ Locked /\ lock = Nobody /\ lock' = u
  /\ pc[u] \in {"read", "write"}
  /\ UNCHANGED <<module, media, disk, at, seen, pc>>

\* A segment of one sector.
Transfer(u) ==
  /\ pc[u] \in {"read", "write"} /\ at[u] < Sectors
  /\ Locked => lock = u
  /\ disk' = IF pc[u] = "write" THEN [disk EXCEPT ![at[u]] = u] ELSE disk
  /\ seen' = IF pc[u] = "read" THEN [seen EXCEPT ![u] = @ \cup {disk[at[u]]}] ELSE seen
  /\ at' = [at EXCEPT ![u] = @ + 1]
  /\ UNCHANGED <<module, media, lock, pc>>

\* end_request, or bio_endio in sbull_make_request.
End(u) ==
  /\ pc[u] \in {"read", "write"} /\ at[u] = Sectors
  /\ pc' = [pc EXCEPT ![u] = "open"]
  /\ lock' = IF lock = u THEN Nobody ELSE lock
  /\ UNCHANGED <<module, media, disk, at, seen>>

Serve(u) == TakeRequest(u) \/ Transfer(u) \/ End(u)

Next ==
  \/ SbullInit \/ SetupDevice \/ SbullExit \/ Invalidate
  \/ \E u \in Users :
       OpenTimer(u) \/ Open(u) \/ Release(u) \/ Submit(u) \/ Serve(u)

Spec == Init /\ [][Next]_vars

-----------------------------------------------------------------------------
(* Properties.                                                             *)

(* The timer that simulates the change finds nobody using the disk:        *)
(* sbull_open stops it before it counts its user, the last release starts  *)
(* it, and the "timer sanity check" does not fail.                         *)
TimerSanity == ~insane /\ (users > 0 => ~media_change)

(* The functions of a queue, which run under its lock, serve a request as  *)
(* a whole: a read of all of the disk finds the sectors of one write.      *)
(* sbull_make_request is under no lock and may be interrupted by another.  *)
WholeRequests ==
  request_mode # "RM_NOQUEUE" =>
    \A u \in Users : \A a, b \in seen[u] : a = b

(* After the unload no timer is left to run in the module, no disk to be   *)
(* opened, and no data; those of a device whose set-up failed after the    *)
(* allocation are freed there and once more by sbull_exit.                 *)
UnloadedIsGone ==
  phase = "unloaded" =>
    ~timer /\ ~gd /\ ~queue /\ memory \in {"none", "freed", "freed_twice"}

(* The disk sbull, its requests, its timer and its end.                    *)
DiskSafe == TimerSanity /\ WholeRequests /\ UnloadedIsGone

-----------------------------------------------------------------------------
(* The inductive invariant.                                                *)

InUse == {u \in Users : pc[u] \in {"open", "read", "write"}}

TypeInv ==
  /\ phase \in {"unloaded", "setup", "live"} /\ request_mode \in Modes
  /\ queue \in BOOLEAN /\ gd \in BOOLEAN
  /\ timer \in BOOLEAN /\ media_change \in BOOLEAN /\ insane \in BOOLEAN
  /\ users \in Nat
  /\ opener \in Users \cup {Nobody} /\ lock \in Users \cup {Nobody}
  /\ pc \in [Users -> {"closed", "opening", "open", "read", "write"}]
  /\ disk \in [0..(Sectors - 1) -> Users \cup {Zero}]
  /\ at \in [Users -> 0..Sectors] /\ seen \in [Users -> SUBSET (Users \cup {Zero})]

\* The disk is there while somebody uses it, and goes with the module.
PhaseInv ==
  /\ phase # "live" => ~gd /\ ~queue /\ ~timer /\ \A u \in Users : pc[u] = "closed"
  /\ ~gd => \A u \in Users : pc[u] = "closed"
  /\ phase = "unloaded" => memory \in {"none", "freed", "freed_twice"}
  /\ phase = "setup" => memory = "none"
  /\ phase = "live" => memory \in {"none", "allocated", "dangling"}

\* The users are counted, and the timer is pending only when there are none,
\* and none to come.
UsersInv ==
  /\ users = Cardinality(InUse)
  /\ \A u \in Users : pc[u] = "opening" <=> opener = u
  /\ timer => users = 0 /\ opener = Nobody

\* All of the sectors from s on, or up to it, have one content.
SameFrom(s) == \A a, b \in 0..(Sectors - 1) : a >= s /\ b >= s => disk[a] = disk[b]
WrittenTo(s, u) == \A a \in 0..(Sectors - 1) : a < s => disk[a] = u

\* Under the lock, a request is served from its first sector to its last.
RequestInv ==
  request_mode # "RM_NOQUEUE" =>
    /\ lock = Nobody => SameFrom(0)
    /\ \A u \in Users : lock = u =>
         /\ pc[u] \in {"read", "write"}
         /\ pc[u] = "read" => SameFrom(0) /\ \A x \in seen[u] : \A a \in 0..(Sectors - 1) : disk[a] = x
         /\ pc[u] = "write" => WrittenTo(at[u], u) /\ SameFrom(at[u])
    /\ \A u \in Users : pc[u] \in {"read", "write"} /\ lock # u => at[u] = 0 /\ seen[u] = {}

IInv == TypeInv /\ PhaseInv /\ UsersInv /\ TimerSanity /\ RequestInv /\ WholeRequests
=============================================================================
