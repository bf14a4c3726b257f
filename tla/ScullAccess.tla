------------------------------ MODULE ScullAccess ------------------------------
(***************************************************************************)
(* Who may open the access-control devices of scull (scull/access.c).  The *)
(* processes open one of the four and close it; what they read and write   *)
(* is not looked at.  What is done under a spinlock is a step, except that *)
(* kmalloc may sleep there (on one processor the lock keeps nobody out).   *)
(***************************************************************************)
EXTENDS Integers, FiniteSets, Sequences

CONSTANTS
  Procs, Users,
  Uid, Euid,  \* of each process; for the private device, Uid is its terminal
  Capable     \* those with CAP_DAC_OVERRIDE

VARIABLES
  device,        \* the one they open: "single", "uid", "wuid" or "priv"
  available,     \* scull_s_available
  count, owner,  \* scull_u_count and scull_u_owner, or scull_w_*
  queue,         \* who is in scull_w_wait
  clones,        \* the keys in scull_c_list, the last one first
  mine,          \* how many clones there were when the process got its own
  pc

policy == <<available, count, owner, clones, mine>>
vars == <<device, policy, queue, pc>>

Init ==
  /\ device \in {"single", "uid", "wuid", "priv"}
  /\ available = 1 /\ count = 0 /\ owner \in Users
  /\ queue = {} /\ clones = <<>> /\ mine = [p \in Procs |-> 0]
  /\ pc = [p \in Procs |-> "closed"]

GoTo(p, label) == pc' = [pc EXCEPT ![p] = label]

\* A device that is open for writing only is to be trimmed.
Opened(p) == GoTo(p, "trim") \/ GoTo(p, "open")

-----------------------------------------------------------------------------
(* scullsingle.                                                            *)

SingleOpen(p) ==
  /\ device = "single" /\ pc[p] = "closed"
  /\ available' = available - 1
  /\ IF available' = 0 THEN Opened(p) ELSE GoTo(p, "busy")
  /\ UNCHANGED <<device, count, owner, clones, mine, queue>>

\* Mutation of SingleBusy: what was taken is not given back.
SingleBusyKeeps(p) ==
  /\ pc[p] = "busy" /\ GoTo(p, "closed")
  /\ UNCHANGED <<device, policy, queue>>
SingleBusy(p) ==
  /\ pc[p] = "busy" /\ GoTo(p, "closed")
  /\ available' = available + 1
  /\ UNCHANGED <<device, count, owner, clones, mine, queue>>

-----------------------------------------------------------------------------
(* sculluid and scullwuid.                                                 *)

Allowed(p) == count = 0 \/ owner \in {Uid[p], Euid[p]} \/ p \in Capable

\* Mutation of Grab: whoever opens becomes the owner.
GrabAlways(p) == owner' = Uid[p]
Grab(p) == owner' = IF count = 0 THEN Uid[p] ELSE owner

Enter(p) ==
  /\ Allowed(p) /\ Opened(p)
  /\ Grab(p) /\ count' = count + 1
  /\ UNCHANGED <<device, available, clones, mine, queue>>

\* A process that may not open the uid device gets EBUSY: nothing happens.
UidOpen(p) == device = "uid" /\ pc[p] = "closed" /\ Enter(p)

WuidOpen(p) == device = "wuid" /\ pc[p] = "closed" /\ Enter(p)
WuidOpenAgain(p) == pc[p] = "retry" /\ Enter(p)

\* With O_NONBLOCK it gets EAGAIN instead.
WuidWait(p) ==
  /\ device = "wuid" /\ pc[p] \in {"closed", "retry"} /\ ~Allowed(p)
  /\ GoTo(p, "wait") \/ GoTo(p, "closed")
  /\ UNCHANGED <<device, policy, queue>>

\* wait_event_interruptible: into the queue first, then the test.
Prepare(p) ==
  /\ pc[p] = "wait" /\ GoTo(p, "queued")
  /\ queue' = queue \cup {p}
  /\ UNCHANGED <<device, policy>>
Test(p) ==
  /\ pc[p] = "queued"
  /\ \/ Allowed(p) /\ queue' = queue \ {p} /\ GoTo(p, "retry")
     \/ ~Allowed(p) /\ GoTo(p, "asleep") /\ UNCHANGED queue
  /\ UNCHANGED <<device, policy>>
Awake(p) ==
  /\ pc[p] = "asleep" /\ p \notin queue /\ GoTo(p, "wait")
  /\ UNCHANGED <<device, policy, queue>>
Interrupted(p) ==
  /\ pc[p] \in {"queued", "asleep"} /\ GoTo(p, "closed")
  /\ queue' = queue \ {p}
  /\ UNCHANGED <<device, policy>>

-----------------------------------------------------------------------------
(* scullpriv.                                                              *)

Lookup(p) ==
  /\ device = "priv" /\ pc[p] = "closed"
  /\ \/ /\ \A i \in DOMAIN clones : clones[i] # Uid[p]
        /\ GoTo(p, "alloc") /\ UNCHANGED mine
     \/ \E i \in DOMAIN clones :
          /\ clones[i] = Uid[p] /\ \A j \in 1..i-1 : clones[j] # Uid[p]
          /\ mine' = [mine EXCEPT ![p] = Len(clones) - i + 1]
          /\ Opened(p)
  /\ UNCHANGED <<device, available, count, owner, clones, queue>>

\* Mutation of AddClone: at the tail, where list_add_tail puts it.
AddCloneLast(p) == clones' = Append(clones, Uid[p])
AddClone(p) == clones' = <<Uid[p]>> \o clones

Clone(p) ==
  /\ pc[p] = "alloc"
  /\ \/ GoTo(p, "closed") /\ UNCHANGED <<clones, mine>>  \* no memory
     \/ /\ AddClone(p) /\ Opened(p)
        /\ mine' = [mine EXCEPT ![p] = Len(clones) + 1]
  /\ UNCHANGED <<device, available, count, owner, queue>>

-----------------------------------------------------------------------------
(* What they have in common.                                               *)

\* scull_trim, for which no open of access.c takes the semaphore.
Trim(p) ==
  /\ pc[p] = "trim" /\ GoTo(p, "open")
  /\ UNCHANGED <<device, policy, queue>>

Leaves(p) == GoTo(p, IF device = "wuid" /\ count' = 0 THEN "wake" ELSE "closed")

Release(p) ==
  /\ pc[p] = "open"
  /\ available' = available + (IF device = "single" THEN 1 ELSE 0)
  /\ count' = count - (IF device \in {"uid", "wuid"} THEN 1 ELSE 0)
  /\ Leaves(p)
  /\ mine' = [mine EXCEPT ![p] = 0]
  /\ UNCHANGED <<device, owner, clones, queue>>

\* Mutation of WakeUp: one of the sleepers is woken, as if they were exclusive.
WakeOne == queue' \in {queue \ {q} : q \in IF queue = {} THEN Procs ELSE queue}
WakeUp == queue' = {}

Wake(p) ==
  /\ pc[p] = "wake" /\ GoTo(p, "closed")
  /\ WakeUp
  /\ UNCHANGED <<device, policy>>

Body(p) ==
  \/ SingleBusy(p) \/ WuidOpenAgain(p) \/ Prepare(p) \/ Test(p) \/ Awake(p)
  \/ Clone(p) \/ Trim(p) \/ Wake(p)

Next ==
  \E p \in Procs :
    \/ SingleOpen(p) \/ UidOpen(p) \/ WuidOpen(p) \/ WuidWait(p) \/ Lookup(p)
    \/ Release(p) \/ Interrupted(p) \/ Body(p)

Spec == Init /\ [][Next]_vars

(* A process that has begun a call goes on with it; nobody has to open,    *)
(* close or signal.                                                        *)
Fairness == \A p \in Procs : WF_vars(Body(p))

-----------------------------------------------------------------------------
(* Properties.                                                             *)

Holders == {p \in Procs : pc[p] \in {"trim", "open"}}

(* At most one process has scullsingle open, however opens and closes      *)
(* cross; the others that are told it is busy leave it as it was, so that  *)
(* it can be opened again once it is closed.                               *)
SingleOpener ==
  device = "single" =>
    /\ Cardinality(Holders) <= 1
    /\ available = 1 - Cardinality(Holders \cup {p \in Procs : pc[p] = "busy"})

(* Of the users without CAP_DAC_OVERRIDE, only the one who grabbed the     *)
(* device, or who became him, has it open, even when root has opened it in *)
(* between or the one who grabbed it has left.                             *)
OneUser ==
  device \in {"uid", "wuid"} =>
    /\ count = Cardinality(Holders)
    /\ \A p \in Holders \ Capable : owner \in {Uid[p], Euid[p]}

(* A private device is the one of the terminal, and it stays in the list   *)
(* as others are put before it.                                            *)
OwnClone ==
  device = "priv" =>
    \A p \in Holders : mine[p] > 0 /\ clones[Len(clones) - mine[p] + 1] = Uid[p]

(* A process that sleeps in the open of scullwuid although nobody has the  *)
(* device any more is woken.                                               *)
WaiterWakes ==
  \A p \in Procs :
    pc[p] = "asleep" /\ count = 0 ~> pc[p] # "asleep" \/ count > 0

(* Only those have an access-control device open who may.                  *)
AccessSafe == SingleOpener /\ OneUser /\ OwnClone

-----------------------------------------------------------------------------
(* The inductive invariant.                                                *)

TypeInv ==
  /\ device \in {"single", "uid", "wuid", "priv"}
  /\ available \in Int /\ count \in Int
  /\ clones \in Seq({Uid[p] : p \in Procs}) /\ mine \in [Procs -> Nat]

\* What a process can be doing, with each of the devices.
Labels ==
  {"closed", "trim", "open"} \cup
    (IF device = "single" THEN {"busy"} ELSE {}) \cup
    (IF device = "wuid" THEN {"wait", "queued", "retry", "asleep", "wake"} ELSE {}) \cup
    (IF device = "priv" THEN {"alloc"} ELSE {})

InTheList ==
  device = "priv" => \A p \in Holders : mine[p] <= Len(clones)

IInv == TypeInv /\ pc \in [Procs -> Labels] /\ InTheList /\ AccessSafe
=============================================================================
