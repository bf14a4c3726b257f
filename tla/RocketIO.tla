------------------------------- MODULE RocketIO -------------------------------
(***************************************************************************)
(* The rocketIO network module (projet/module/rocketIO.c): loading and     *)
(* unloading, registration of the interfaces rio0 and rio1, and the        *)
(* ndo_open / ndo_stop handlers, with the memory each of them takes and    *)
(* gives back.                                                             *)
(*                                                                         *)
(* Two processes run this code.  The loader is insmod or rmmod: its steps  *)
(* are the calls of rocketIO_init_module and rocketIO_cleanup, separated   *)
(* wherever another process can run.  The configurator is ifconfig: the    *)
(* kernel runs ndo_open and ndo_stop under the RTNL mutex, which           *)
(* register_netdev and unregister_netdev take too, so one program counter  *)
(* (ifpc) stands for however many ifconfig processes there are.            *)
(*                                                                         *)
(* Every kmalloc may fail.  A freed block may be handed out again, and the *)
(* pointers the code does not reset keep designating it.                   *)
(***************************************************************************)
EXTENDS Naturals

CONSTANTS
  Blocks,    \* the memory blocks of the kernel allocator
  NULL,      \* the null pointer
  loopback   \* rocketIO.h: 1 when SIMULE is defined (two interfaces), else 0

ASSUME NullAssumption == NULL \notin Blocks
ASSUME LoopbackAssumption == loopback \in {0, 1}

Nums == {0, 1}                \* the "num" of IN_register_netdev
Pointers == Blocks \cup {NULL}
Kinds == {"free", "addr", "netdev", "ring"}

VARIABLES
  pc,                 \* where the loader is
  num,                \* the loader's loop index
  dev,                \* the local variable dev of IN_register_netdev
  hw_addr,            \* hw_addr0, hw_addr1
  rio_dev,            \* rio_dev0, rio_dev1
  dev_is_registered,  \* dev_is_registered[2]
  netdev,             \* kernel: the net_device registered as rio<n>, or NULL
  up,                 \* kernel: IFF_UP of rio<n>
  queue_on,           \* kernel: the transmit queue of rio<n> is started
  ifpc, ifnum,        \* the operation under the RTNL, and on which interface
  rx_ring, tx_bufs,   \* the pointers of struct rio_priv, per interface
  dev_addr,           \* the interface's own MAC address
  heap,               \* what each block is in use for
  fault               \* "none", or how the kernel was corrupted

modvars == <<dev, hw_addr, rio_dev, dev_is_registered>>
netvars == <<netdev, up, queue_on>>
privvars == <<rx_ring, tx_bufs, dev_addr>>
vars == <<pc, num, modvars, netvars, ifpc, ifnum, privvars, heap, fault>>

InitSteps == {"init_addr", "alloc_netdev", "register_netdev", "set_base_addr"}
CleanupSteps == {"unregister_netdev", "free_netdev", "kfree_addr"}
OpenSteps == {"alloc_ring", "copy_addr", "start_queue"}
ReleaseSteps == {"kfree_ring", "stop_queue"}

-----------------------------------------------------------------------------
(* The allocator, and what the code does with a pointer.                   *)

Kmalloc(b, kind) == heap[b] = "free" /\ heap' = [heap EXCEPT ![b] = kind]

Designates(p, kind) == p \in Blocks /\ heap[p] = kind

\* kfree or free_netdev of p, which should designate a block of this kind.
Kfree(p, kind) ==
  \/ /\ Designates(p, kind)
     /\ heap' = [heap EXCEPT ![p] = "free"]
     /\ UNCHANGED fault
  \/ /\ ~Designates(p, kind)
     /\ fault' = "bad_free"
     /\ UNCHANGED heap

RtnlFree == ifpc = "idle"
Running == fault = "none"

Init ==
  /\ pc = "out" /\ num = 0 /\ dev = NULL
  /\ hw_addr = [n \in Nums |-> NULL]
  /\ rio_dev = [n \in Nums |-> NULL]
  /\ dev_is_registered = [n \in Nums |-> 0]
  /\ netdev = [n \in Nums |-> NULL]
  /\ up = [n \in Nums |-> FALSE]
  /\ queue_on = [n \in Nums |-> FALSE]
  /\ ifpc = "idle" /\ ifnum = 0
  /\ rx_ring = [n \in Nums |-> NULL]
  /\ tx_bufs = [n \in Nums |-> NULL]
  /\ dev_addr = [n \in Nums |-> "zero"]
  /\ heap = [b \in Blocks |-> "free"]
  /\ fault = "none"

-----------------------------------------------------------------------------
(* The loader: rocketIO_init_module, then rocketIO_cleanup.                *)

GoTo(label, n) == pc' = label /\ num' = n

StartCleanup == GoTo("unregister_netdev", 0)

Insmod ==
  /\ Running /\ pc = "out"
  /\ GoTo("init_addr", 0)
  /\ UNCHANGED <<modvars, netvars, ifpc, ifnum, privvars, heap, fault>>

\* Mutations of InitAddrFailed: without the cleanup; starting all over again.
InitAddrNoCleanup == GoTo("out", 0)
InitAddrRetries == GoTo("init_addr", 0)
InitAddrFailed == StartCleanup

\* IN_init_addr: one kmalloc per address.
InitAddr ==
  /\ Running /\ pc = "init_addr"
  /\ \/ \E b \in Blocks :
          /\ Kmalloc(b, "addr")
          /\ hw_addr' = [hw_addr EXCEPT ![num] = b]
          /\ IF num = 0 THEN GoTo("init_addr", 1) ELSE GoTo("alloc_netdev", 0)
     \/ /\ InitAddrFailed
        /\ UNCHANGED <<hw_addr, heap>>
  /\ UNCHANGED <<dev, rio_dev, dev_is_registered, netvars, ifpc, ifnum,
                 privvars, fault>>

\* Mutation of StoreDev: the test of num is the wrong way round.
StoreDevSwapped(p) == rio_dev' = [rio_dev EXCEPT ![1 - num] = p]
StoreDev(p) == rio_dev' = [rio_dev EXCEPT ![num] = p]

\* alloc_netdev, whose setup callback IN_rocketIO_init zeroes struct rio_priv;
\* the result, NULL included, is stored in rio_dev<num>.
AllocNetdev ==
  /\ Running /\ pc = "alloc_netdev"
  /\ \/ \E b \in Blocks :
          /\ Kmalloc(b, "netdev")
          /\ dev' = b
          /\ StoreDev(b)
          /\ rx_ring' = [rx_ring EXCEPT ![num] = NULL]
          /\ tx_bufs' = [tx_bufs EXCEPT ![num] = NULL]
          /\ dev_addr' = [dev_addr EXCEPT ![num] = "zero"]
     \/ /\ dev' = NULL
        /\ StoreDev(NULL)
        /\ UNCHANGED <<heap, privvars>>
  /\ GoTo("register_netdev", num)
  /\ UNCHANGED <<hw_addr, dev_is_registered, netvars, ifpc, ifnum, fault>>

\* Mutation of NextNetdev: one interface too many.
NextNetdevOffByOne ==
  IF num <= loopback THEN GoTo("alloc_netdev", num + 1) ELSE GoTo("in", 0)

NextNetdev ==
  CASE num < loopback -> GoTo("alloc_netdev", num + 1)
    [] num = loopback /\ loopback = 0 -> GoTo("set_base_addr", 0)
    [] OTHER -> GoTo("in", 0)

\* Mutation of RecordSuccess: it is not recorded.
RecordNothing == UNCHANGED dev_is_registered
RecordSuccess == dev_is_registered' = [dev_is_registered EXCEPT ![num] = 1]

\* register_netdev(dev) takes the RTNL and dereferences dev: with a null dev
\* the kernel oopses there, and nobody else gets the RTNL any more.  From the
\* success of register_netdev on, ifconfig can open the interface.
RegisterNetdev ==
  /\ Running /\ pc = "register_netdev" /\ RtnlFree
  /\ \/ /\ dev = NULL
        /\ fault' = "null_deref"
        /\ UNCHANGED <<pc, num, dev_is_registered, netdev>>
     \/ /\ dev # NULL
        /\ netdev' = [netdev EXCEPT ![num] = dev]
        /\ RecordSuccess
        /\ NextNetdev
        /\ UNCHANGED fault
     \/ /\ dev # NULL
        /\ dev_is_registered' = [dev_is_registered EXCEPT ![num] = 0]
        /\ StartCleanup
        /\ UNCHANGED <<netdev, fault>>
  /\ UNCHANGED <<dev, hw_addr, rio_dev, up, queue_on, ifpc, ifnum, privvars,
                 heap>>

\* loopback = 0: rio_dev0->base_addr = RIO_BASE_ADDR_0.
SetBaseAddr ==
  /\ Running /\ pc = "set_base_addr"
  /\ fault' = IF Designates(rio_dev[0], "netdev") THEN fault ELSE "stale_use"
  /\ GoTo("in", 0)
  /\ UNCHANGED <<modvars, netvars, ifpc, ifnum, privvars, heap>>

Rmmod ==
  /\ Running /\ pc = "in"
  /\ StartCleanup
  /\ UNCHANGED <<modvars, netvars, ifpc, ifnum, privvars, heap, fault>>

\* Mutation of FreeRing: the ring is not freed.
KeepRing(n) == UNCHANGED <<heap, fault>>
FreeRing(n) ==
  IF rx_ring[n] # NULL THEN Kfree(rx_ring[n], "ring")
  ELSE UNCHANGED <<heap, fault>>

\* The kernel's unregister_netdev: an interface that is up is closed first,
\* with the module's ndo_stop, all of it under the RTNL.
Unregister(n) ==
  /\ RtnlFree
  /\ \/ /\ netdev[n] # rio_dev[n]
        /\ fault' = "bad_unregister"
        /\ UNCHANGED <<netvars, heap>>
     \/ /\ netdev[n] = rio_dev[n]
        /\ netdev' = [netdev EXCEPT ![n] = NULL]
        /\ up' = [up EXCEPT ![n] = FALSE]
        /\ queue_on' = [queue_on EXCEPT ![n] = FALSE]
        /\ IF up[n] THEN FreeRing(n) ELSE UNCHANGED <<heap, fault>>

\* Mutation of AfterNetdev: rio_dev0 is tested both times.
AfterNetdevAgain == GoTo("unregister_netdev", 0)
AfterNetdev ==
  IF num = 0 THEN GoTo("unregister_netdev", 1) ELSE GoTo("kfree_addr", 0)

\* Mutations of MustUnregister: dev_is_registered is not consulted.
AlwaysUnregister == TRUE
NeverUnregister == FALSE
MustUnregister == dev_is_registered[num] = 1

CleanupUnregister ==
  /\ Running /\ pc = "unregister_netdev"
  /\ \/ /\ rio_dev[num] = NULL
        /\ AfterNetdev
        /\ UNCHANGED <<netvars, heap, fault>>
     \/ /\ rio_dev[num] # NULL /\ ~MustUnregister
        /\ GoTo("free_netdev", num)
        /\ UNCHANGED <<netvars, heap, fault>>
     \/ /\ rio_dev[num] # NULL /\ MustUnregister
        /\ Unregister(num)
        /\ GoTo("free_netdev", num)
  /\ UNCHANGED <<modvars, ifpc, ifnum, privvars>>

CleanupFreeNetdev ==
  /\ Running /\ pc = "free_netdev"
  /\ Kfree(rio_dev[num], "netdev")
  /\ AfterNetdev
  /\ UNCHANGED <<modvars, netvars, ifpc, ifnum, privvars>>

\* kfree of hw_addr0 then hw_addr1; the module's variables go with the module.
CleanupAddr ==
  /\ Running /\ pc = "kfree_addr"
  /\ IF hw_addr[num] # NULL
       THEN Kfree(hw_addr[num], "addr")
       ELSE UNCHANGED <<heap, fault>>
  /\ \/ /\ num = 0
        /\ GoTo("kfree_addr", 1)
        /\ UNCHANGED modvars
     \/ /\ num = 1
        /\ GoTo("out", 0)
        /\ dev' = NULL
        /\ hw_addr' = [n \in Nums |-> NULL]
        /\ rio_dev' = [n \in Nums |-> NULL]
        /\ dev_is_registered' = [n \in Nums |-> 0]
  /\ UNCHANGED <<netvars, ifpc, ifnum, privvars>>

Loader ==
  \/ InitAddr \/ AllocNetdev \/ RegisterNetdev \/ SetBaseAddr
  \/ CleanupUnregister \/ CleanupFreeNetdev \/ CleanupAddr

-----------------------------------------------------------------------------
(* The configurator: op_rio_open and op_rio_release.                       *)

\* dev_open and dev_close act on a registered interface, and do nothing when
\* it already is in the requested state.
IfconfigUp(n) ==
  /\ Running /\ RtnlFree
  /\ netdev[n] # NULL /\ ~up[n]
  /\ ifpc' = "alloc_ring" /\ ifnum' = n
  /\ UNCHANGED <<pc, num, modvars, netvars, privvars, heap, fault>>

IfconfigDown(n) ==
  /\ Running /\ RtnlFree
  /\ netdev[n] # NULL /\ up[n]
  /\ ifpc' = "kfree_ring" /\ ifnum' = n
  /\ UNCHANGED <<pc, num, modvars, netvars, privvars, heap, fault>>

\* Mutation of PlaceTxBufs: tx_bufs keeps its value.
KeepTxBufs(b) == UNCHANGED tx_bufs
PlaceTxBufs(b) == tx_bufs' = [tx_bufs EXCEPT ![ifnum] = b]

\* IN_alloc_ring and IN_init_ring.  The allocation is retried with smaller
\* sizes; when all of them fail tx_bufs is not assigned, and op_rio_open does
\* not look at the -ENOMEM that IN_alloc_ring returns.
OpenAllocRing ==
  /\ Running /\ ifpc = "alloc_ring"
  /\ \/ \E b \in Blocks :
          /\ Kmalloc(b, "ring")
          /\ rx_ring' = [rx_ring EXCEPT ![ifnum] = b]
          /\ PlaceTxBufs(b)
     \/ /\ rx_ring' = [rx_ring EXCEPT ![ifnum] = NULL]
        /\ UNCHANGED <<tx_bufs, heap>>
  /\ ifpc' = "copy_addr"
  /\ UNCHANGED <<pc, num, modvars, netvars, ifnum, dev_addr, fault>>

MacOf(n) == IF n = 0 THEN "ROCK0" ELSE "ROCK1"

\* if (dev == rio_dev0) memcpy hw_addr0, else memcpy hw_addr1.
OpenCopyAddr ==
  /\ Running /\ ifpc = "copy_addr"
  /\ LET n == IF netdev[ifnum] = rio_dev[0] THEN 0 ELSE 1
     IN  /\ dev_addr' = [dev_addr EXCEPT ![ifnum] = MacOf(n)]
         /\ fault' = IF Designates(hw_addr[n], "addr")
                       THEN fault ELSE "stale_use"
  /\ ifpc' = "start_queue"
  /\ UNCHANGED <<pc, num, modvars, netvars, ifnum, rx_ring, tx_bufs, heap>>

OpenStartQueue ==
  /\ Running /\ ifpc = "start_queue"
  /\ queue_on' = [queue_on EXCEPT ![ifnum] = TRUE]
  /\ up' = [up EXCEPT ![ifnum] = TRUE]
  /\ ifpc' = "idle"
  /\ UNCHANGED <<pc, num, modvars, netdev, ifnum, privvars, heap, fault>>

\* rx_ring is freed and not reset.
ReleaseFreeRing ==
  /\ Running /\ ifpc = "kfree_ring"
  /\ FreeRing(ifnum)
  /\ ifpc' = "stop_queue"
  /\ UNCHANGED <<pc, num, modvars, netvars, ifnum, privvars>>

ReleaseStopQueue ==
  /\ Running /\ ifpc = "stop_queue"
  /\ queue_on' = [queue_on EXCEPT ![ifnum] = FALSE]
  /\ up' = [up EXCEPT ![ifnum] = FALSE]
  /\ ifpc' = "idle"
  /\ UNCHANGED <<pc, num, modvars, netdev, ifnum, privvars, heap, fault>>

NdoHandler ==
  \/ OpenAllocRing \/ OpenCopyAddr \/ OpenStartQueue
  \/ ReleaseFreeRing \/ ReleaseStopQueue

Next ==
  \/ Insmod \/ Rmmod \/ Loader \/ NdoHandler
  \/ \E n \in Nums : IfconfigUp(n) \/ IfconfigDown(n)

Spec == Init /\ [][Next]_vars

(* A kernel call that has begun runs to its end.  The RTNL is a mutex that *)
(* queues its waiters in order, so the loader, which waits for it in       *)
(* register_netdev and unregister_netdev, is not overtaken for ever by new *)
(* ifconfig calls: that is the strong fairness.                            *)
Fairness == SF_vars(Loader) /\ WF_vars(NdoHandler)
FairSpec == Spec /\ Fairness

-----------------------------------------------------------------------------
(* Properties.                                                             *)

TypeOK ==
  /\ pc \in {"out", "in"} \cup InitSteps \cup CleanupSteps
  /\ num \in Nums /\ dev \in Pointers
  /\ hw_addr \in [Nums -> Pointers] /\ rio_dev \in [Nums -> Pointers]
  /\ dev_is_registered \in [Nums -> {0, 1}]
  /\ netdev \in [Nums -> Pointers]
  /\ up \in [Nums -> BOOLEAN] /\ queue_on \in [Nums -> BOOLEAN]
  /\ ifpc \in {"idle"} \cup OpenSteps \cup ReleaseSteps /\ ifnum \in Nums
  /\ rx_ring \in [Nums -> Pointers] /\ tx_bufs \in [Nums -> Pointers]
  /\ dev_addr \in [Nums -> {"zero", "ROCK0", "ROCK1"}]
  /\ heap \in [Blocks -> Kinds]
  /\ fault \in {"none", "null_deref", "bad_free", "stale_use",
                "bad_unregister"}

(* No block is freed twice or freed as something it is not, no freed block *)
(* is read, and only a registered interface is unregistered, whatever the  *)
(* allocations that fail and the ifconfig calls that come in between.      *)
NoMemoryFault == fault \in {"none", "null_deref"}

(* When the module is out, after rmmod or after an initialisation that     *)
(* failed at any of its calls, everything it allocated has been freed.     *)
NoLeak == pc = "out" => \A b \in Blocks : heap[b] = "free"

\* ndo_open has allocated rio<n>'s ring and ndo_stop has not freed it yet.
Opened(n) ==
  \/ up[n] /\ ~(ifnum = n /\ ifpc = "stop_queue")
  \/ ifnum = n /\ ifpc \in {"copy_addr", "start_queue"}

(* Every receive ring in memory belongs to an interface that is open, and  *)
(* no two interfaces share one: opening and closing in any order neither   *)
(* leaks a ring nor leaves two owners.                                     *)
RingAccounting ==
  \A b \in Blocks : heap[b] = "ring" =>
    \E n \in Nums :
      /\ Opened(n) /\ rx_ring[n] = b
      /\ \A m \in Nums \ {n} : Opened(m) => rx_ring[m] # b

(* An open interface that did get a ring has its transmit buffers in that  *)
(* ring's block, and the block is still allocated.                         *)
TxBufsInRing ==
  \A n \in Nums : Opened(n) /\ rx_ring[n] # NULL =>
    tx_bufs[n] = rx_ring[n] /\ Designates(rx_ring[n], "ring")

(* Whatever ifconfig can still reach is alive: a registered interface has  *)
(* its net_device and both MAC address buffers, which op_rio_open reads.   *)
RegisteredIsLive ==
  \A n \in Nums : netdev[n] # NULL =>
    /\ Designates(netdev[n], "netdev")
    /\ \A m \in Nums : Designates(hw_addr[m], "addr")

(* An interface that is up carries its own MAC address, even when it was   *)
(* opened before the other one existed or after the other one was freed.   *)
MacMatches == \A n \in Nums : up[n] => dev_addr[n] = MacOf(n)

(* op_rio_open gives the interface the buffers its comment announces: an   *)
(* interface that is up has a receive ring.                                *)
UpHasRing == \A n \in Nums : up[n] => rx_ring[n] # NULL

(* insmod returns, and a cleanup always completes.                         *)
LoadEnds == pc \in InitSteps ~> (pc \in {"in", "out"} \/ ~Running)
UnloadEnds == pc \in CleanupSteps ~> pc = "out"

-----------------------------------------------------------------------------
(* The inductive invariant: what each pointer designates at each point of  *)
(* the loader and of the configurator.                                     *)

\* The pointers whose block has not been freed yet (none is ever reset).
AddrLive(n) == hw_addr[n] # NULL /\ ~(pc = "kfree_addr" /\ num > n)

DevFreed(n) ==
  \/ pc = "kfree_addr"
  \/ pc \in {"unregister_netdev", "free_netdev"} /\ num > n
DevLive(n) == rio_dev[n] # NULL /\ ~DevFreed(n)

RingLive(n) == Opened(n) /\ rx_ring[n] # NULL

Registered(n) ==
  /\ dev_is_registered[n] = 1
  /\ ~DevFreed(n) /\ ~(pc = "free_netdev" /\ num = n)

\* A live pointer designates a block of its kind, and no other live pointer
\* designates the same one.
LiveInv ==
  /\ \A n \in Nums : AddrLive(n) => Designates(hw_addr[n], "addr")
  /\ \A n \in Nums : DevLive(n) => Designates(rio_dev[n], "netdev")
  /\ \A n \in Nums : RingLive(n) => Designates(rx_ring[n], "ring")
  /\ hw_addr[0] = hw_addr[1] => hw_addr[1] = NULL
  /\ rio_dev[0] = rio_dev[1] => rio_dev[1] = NULL
  /\ RingLive(0) /\ RingLive(1) => rx_ring[0] # rx_ring[1]

\* Every block in use has a live pointer.
HeapInv ==
  \A b \in Blocks :
    /\ heap[b] = "addr" => \E n \in Nums : AddrLive(n) /\ hw_addr[n] = b
    /\ heap[b] = "netdev" => \E n \in Nums : DevLive(n) /\ rio_dev[n] = b
    /\ heap[b] = "ring" => \E n \in Nums : RingLive(n) /\ rx_ring[n] = b

\* How far the loader has come.
LoadInv ==
  /\ pc = "out" => \A n \in Nums : hw_addr[n] = NULL /\ rio_dev[n] = NULL
  /\ pc = "init_addr" => \A n \in Nums :
       /\ hw_addr[n] = NULL <=> n >= num
       /\ rio_dev[n] = NULL
  /\ pc = "alloc_netdev" => \A n \in Nums : n >= num => rio_dev[n] = NULL
  /\ pc = "register_netdev" =>
       /\ dev = rio_dev[num] /\ dev_is_registered[num] = 0
       /\ \A n \in Nums : n > num => rio_dev[n] = NULL
  /\ pc \in {"alloc_netdev", "register_netdev", "set_base_addr"} =>
       \A n \in Nums : hw_addr[n] # NULL
  /\ pc \in {"alloc_netdev", "register_netdev"} =>
       num <= loopback /\ \A n \in Nums : n < num => dev_is_registered[n] = 1
  /\ pc = "set_base_addr" => rio_dev[0] # NULL
  /\ pc = "free_netdev" => rio_dev[num] # NULL
  /\ \A n \in Nums : rio_dev[n] # NULL =>
       n <= loopback /\ \A m \in Nums : hw_addr[m] # NULL
  /\ \A n \in Nums : dev_is_registered[n] = 1 => rio_dev[n] # NULL

\* The kernel's view of the interfaces agrees with the module's.
NetInv ==
  /\ \A n \in Nums : netdev[n] = IF Registered(n) THEN rio_dev[n] ELSE NULL
  /\ \A n \in Nums : up[n] => Registered(n)
  /\ ifpc # "idle" => Registered(ifnum)
  /\ ifpc \in OpenSteps => ~up[ifnum]
  /\ ifpc \in ReleaseSteps => up[ifnum]
  /\ ifpc = "start_queue" => dev_addr[ifnum] = MacOf(ifnum)

IInv ==
  /\ TypeOK /\ LiveInv /\ HeapInv /\ LoadInv /\ NetInv
  /\ NoMemoryFault /\ TxBufsInRing /\ MacMatches

-----------------------------------------------------------------------------
(* The module implements RioService.                                       *)

serviceModule ==
  CASE pc \in InitSteps -> "loading"
    [] pc \in CleanupSteps -> "leaving"
    [] OTHER -> pc

serviceLink ==
  [n \in 0..loopback |->
     IF netdev[n] = NULL THEN "absent"
     ELSE IF ifpc # "idle" /\ ifnum = n THEN "changing"
     ELSE IF up[n] THEN "up" ELSE "down"]

serviceRings == {n \in 0..loopback : Opened(n) /\ rx_ring[n] # NULL}

serviceMemory == \E b \in Blocks : heap[b] # "free"

Service == INSTANCE RioService WITH
  Ifs <- 0..loopback, module <- serviceModule, link <- serviceLink,
  rings <- serviceRings, memory <- serviceMemory

(* Every step of the module is a step its contract allows.                 *)
ImplementsService == Service!Spec
=============================================================================
