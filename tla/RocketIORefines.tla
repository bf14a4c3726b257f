---------------------------- MODULE RocketIORefines ----------------------------
(***************************************************************************)
(* The module implements its contract RioService, for any set of memory    *)
(* blocks and both builds: every step of RocketIO, from a state of the     *)
(* inductive invariant, is a step of the contract or leaves what the       *)
(* contract sees unchanged.                                                *)
(***************************************************************************)
EXTENDS RocketIOProofs

(* The interfaces that the driver registers are among those it numbers.    *)
LEMMA IfsAreNums == 0..loopback \subseteq Nums
BY LoopbackAssumption DEF Nums

(* What follows from the inductive invariant about an interface that the   *)
(* kernel knows: it is one of the contract's, and its net_device is there. *)
LEMMA KnownInterface ==
  ASSUME IInv, NEW n \in Nums, Registered(n)
  PROVE  /\ n \in 0..loopback
         /\ netdev[n] # NULL
         /\ serviceMemory
<1>1. rio_dev[n] # NULL /\ n <= loopback
  BY DEF IInv, LoadInv, Registered
<1>2. Designates(rio_dev[n], "netdev")
  BY <1>1 DEF IInv, LiveInv, DevLive, Registered
<1>3. serviceMemory
  BY <1>2 DEF serviceMemory, Designates
<1> QED
  BY <1>1, <1>3, LoopbackAssumption DEF IInv, NetInv, Nums

(* An interface the kernel does not know is closed.                        *)
LEMMA UnknownInterface ==
  ASSUME IInv, NEW n \in Nums, ~Registered(n)
  PROVE  netdev[n] = NULL /\ ~up[n] /\ ~Opened(n)
BY DEF IInv, NetInv, Opened, OpenSteps

(* insmod begins a loading.                                                *)
LEMMA InsmodRefines == ASSUME IInv, Insmod PROVE Service!Load
BY DEF Insmod, GoTo, Service!Load, serviceModule, serviceLink, serviceRings,
       serviceMemory, Opened, InitSteps, CleanupSteps, modvars, netvars, privvars

(* A MAC address buffer is memory; without it the loading is abandoned.    *)
LEMMA InitAddrRefines ==
  ASSUME IInv, InitAddr PROVE Service!TakeMemory \/ Service!Leave
<1> USE DEF InitAddr, GoTo, serviceModule, InitSteps, CleanupSteps
<1>1. UNCHANGED <<serviceLink, serviceRings>>
  BY DEF serviceLink, serviceRings, Opened, netvars, privvars
<1>2. CASE InitAddrFailed /\ UNCHANGED <<hw_addr, heap>>
  BY <1>1, <1>2 DEF Service!Leave, InitAddrFailed, StartCleanup, serviceMemory
<1>3. ASSUME NEW b \in Blocks, Kmalloc(b, "addr"),
             IF num = 0 THEN GoTo("init_addr", 1) ELSE GoTo("alloc_netdev", 0)
      PROVE  Service!TakeMemory
  <2>1. serviceMemory'
    BY <1>3 DEF Kmalloc, serviceMemory, IInv, TypeOK
  <2> QED
    BY <1>1, <1>3, <2>1 DEF Service!TakeMemory
<1> QED
  BY <1>2, <1>3

(* So is a net_device; the interface it is for was closed.                 *)
LEMMA AllocNetdevRefines ==
  ASSUME IInv, AllocNetdev PROVE Service!TakeMemory \/ UNCHANGED Service!svars
<1> USE DEF AllocNetdev, GoTo, serviceModule, InitSteps, CleanupSteps
<1>1. num \in Nums /\ ~Registered(num)
  BY NullAssumption DEF IInv, TypeOK, LoadInv, Registered, Nums
<1>2. \A n \in Nums : Opened(n)' = Opened(n)
  BY DEF Opened, netvars
<1>3. ~Opened(num)
  BY <1>1, UnknownInterface
<1>4. \A n \in Nums \ {num} : rx_ring'[n] = rx_ring[n]
  BY DEF IInv, TypeOK, privvars
<1>5. UNCHANGED <<serviceModule, serviceLink, serviceRings>>
  <2>1. serviceRings' = serviceRings
    BY <1>1, <1>2, <1>3, <1>4, IfsAreNums DEF serviceRings
  <2> QED
    BY <2>1 DEF serviceLink, netvars
<1>6. CASE heap' = heap
  BY <1>5, <1>6 DEF Service!svars, serviceMemory
<1>7. ASSUME NEW b \in Blocks, Kmalloc(b, "netdev") PROVE serviceMemory'
  BY <1>7 DEF Kmalloc, serviceMemory, IInv, TypeOK
<1> QED
  BY <1>5, <1>6, <1>7 DEF Service!TakeMemory

(* The interfaces are registered in order, each of them down.  A failed    *)
(* registration abandons the loading, and an oops changes nothing.         *)
LEMMA RegisterNetdevRefines ==
  ASSUME IInv, RegisterNetdev
  PROVE  \/ \E i \in 0..loopback : Service!Register(i)
         \/ Service!Leave
         \/ UNCHANGED Service!svars
<1> USE DEF RegisterNetdev, GoTo, serviceModule, InitSteps, CleanupSteps
<1>1. UNCHANGED <<serviceRings, serviceMemory>>
  BY DEF serviceRings, serviceMemory, Opened, privvars
<1>2. num \in Nums /\ num \in 0..loopback /\ ~Registered(num)
  BY LoopbackAssumption DEF IInv, TypeOK, LoadInv, Registered, Nums
<1>3. CASE fault' = "null_deref" /\ UNCHANGED <<pc, num, netdev>>
  BY <1>1, <1>3 DEF Service!svars, serviceLink
<1>4. CASE StartCleanup /\ UNCHANGED netdev
  BY <1>1, <1>4 DEF Service!Leave, StartCleanup, serviceLink
<1>5. CASE dev # NULL /\ netdev' = [netdev EXCEPT ![num] = dev] /\ NextNetdev
  <2>1. serviceModule = "loading" /\ serviceModule' \in {"loading", "in"}
    BY <1>5 DEF NextNetdev
  <2>2. serviceLink[num] = "absent"
    BY <1>2, UnknownInterface DEF serviceLink
  <2>3. \A j \in 0..loopback : j < num => serviceLink[j] # "absent"
    <3> SUFFICES ASSUME NEW j \in 0..loopback, j < num
                 PROVE  serviceLink[j] # "absent"
      OBVIOUS
    <3>1. j \in Nums /\ dev_is_registered[j] = 1
      BY LoopbackAssumption DEF IInv, LoadInv, Nums
    <3>2. Registered(j)
      BY <3>1 DEF Registered, DevFreed
    <3> QED
      BY <3>1, <3>2, KnownInterface DEF serviceLink
  <2>4. serviceLink' = [serviceLink EXCEPT ![num] = "down"]
    <3>1. ~up[num] /\ ifpc = "idle"
      BY <1>2, UnknownInterface DEF RtnlFree
    <3>2. netdev'[num] # NULL /\ \A n \in Nums \ {num} : netdev'[n] = netdev[n]
      BY <1>2, <1>5 DEF IInv, TypeOK
    <3> QED
      BY <1>2, <3>1, <3>2, IfsAreNums DEF serviceLink
  <2> QED
    BY <1>1, <1>2, <2>1, <2>2, <2>3, <2>4 DEF Service!Register
<1> QED
  BY <1>3, <1>4, <1>5

(* The simple build ends its loading with the base address.                *)
LEMMA SetBaseAddrRefines == ASSUME IInv, SetBaseAddr PROVE Service!Loaded
BY DEF SetBaseAddr, GoTo, Service!Loaded, serviceModule, serviceLink,
       serviceRings, serviceMemory, Opened, InitSteps, CleanupSteps, modvars,
       netvars, privvars

(* rmmod leaves.                                                           *)
LEMMA RmmodRefines == ASSUME IInv, Rmmod PROVE Service!Leave
BY DEF Rmmod, StartCleanup, GoTo, Service!Leave, serviceModule, serviceLink,
       serviceRings, serviceMemory, Opened, InitSteps, CleanupSteps, modvars,
       netvars, privvars

(* An interface that was registered goes away at once, open or not; what   *)
(* is left of it is its net_device, which is memory.                       *)
LEMMA CleanupUnregisterRefines ==
  ASSUME IInv, IInv', CleanupUnregister
  PROVE  \/ \E i \in 0..loopback : Service!Unregister(i)
         \/ UNCHANGED Service!svars
<1>1. serviceModule = "leaving" /\ serviceModule' = "leaving"
  BY DEF CleanupUnregister, GoTo, AfterNetdev, serviceModule, InitSteps,
         CleanupSteps
<1>2. CASE UNCHANGED <<netvars, heap>>
  BY <1>1, <1>2 DEF CleanupUnregister, Service!svars, serviceLink,
     serviceRings, serviceMemory, Opened, netvars, privvars
<1>3. CASE rio_dev[num] # NULL /\ MustUnregister /\ Unregister(num)
           /\ netdev[num] = rio_dev[num]
  <2> USE <1>3
  <2>1. num \in Nums /\ Registered(num)
    BY DEF CleanupUnregister, MustUnregister, Registered, DevFreed, IInv,
           TypeOK, Nums
  <2>2. num \in 0..loopback /\ netdev[num] # NULL
    BY <2>1, KnownInterface
  <2>3. /\ RtnlFree /\ ifpc' = ifpc /\ rx_ring' = rx_ring
        /\ \/ netdev' = [netdev EXCEPT ![num] = NULL]
              /\ up' = [up EXCEPT ![num] = FALSE]
           \/ UNCHANGED netvars /\ UNCHANGED heap
    BY DEF CleanupUnregister, Unregister, privvars, netvars
  <2>4. serviceMemory /\ serviceMemory'
    <3>1. pc' = "free_netdev" /\ num' = num /\ rio_dev' = rio_dev
      BY DEF CleanupUnregister, MustUnregister, GoTo, modvars
    <3>2. DevLive(num)'
      BY <2>1, <3>1 DEF DevLive, DevFreed, Nums
    <3>3. Designates(rio_dev[num], "netdev")'
      BY <2>1, <3>1, <3>2 DEF IInv, LiveInv, Nums
    <3> QED
      BY <2>1, <3>3, KnownInterface DEF serviceMemory, Designates
  <2>5. CASE UNCHANGED netvars /\ UNCHANGED heap
    BY <1>2, <2>5
  <2>6. CASE netdev' = [netdev EXCEPT ![num] = NULL]
             /\ up' = [up EXCEPT ![num] = FALSE]
    <3>1. /\ netdev'[num] = NULL /\ ~up'[num]
          /\ \A n \in Nums \ {num} : netdev'[n] = netdev[n] /\ up'[n] = up[n]
      BY <2>1, <2>6 DEF IInv, TypeOK
    <3>2. serviceLink[num] \in {"down", "up"}
      BY <2>2, <2>3 DEF serviceLink, RtnlFree
    <3>3. serviceLink' = [serviceLink EXCEPT ![num] = "absent"]
      BY <2>2, <2>3, <3>1, IfsAreNums DEF serviceLink, RtnlFree
    <3>4. serviceRings' = serviceRings \ {num}
      BY <2>2, <2>3, <3>1, IfsAreNums DEF serviceRings, Opened, RtnlFree, OpenSteps
    <3> QED
      BY <1>1, <2>2, <2>4, <3>2, <3>3, <3>4 DEF Service!Unregister
  <2> QED
    BY <2>3, <2>5, <2>6
<1> QED
  BY <1>2, <1>3 DEF CleanupUnregister, Unregister, netvars

(* The MAC address buffers are still there when a net_device is freed.     *)
LEMMA CleanupFreeNetdevRefines ==
  ASSUME IInv, IInv', CleanupFreeNetdev PROVE UNCHANGED Service!svars
<1>1. UNCHANGED <<serviceModule, serviceLink, serviceRings>>
  BY DEF CleanupFreeNetdev, AfterNetdev, GoTo, serviceModule, serviceLink,
     serviceRings, Opened, InitSteps, CleanupSteps, netvars, privvars
<1>2. Designates(hw_addr[0], "addr") /\ Designates(hw_addr[0], "addr")'
  BY DEF CleanupFreeNetdev, AfterNetdev, GoTo, IInv, TypeOK, LoadInv, LiveInv,
     AddrLive, modvars, Nums
<1>3. serviceMemory /\ serviceMemory'
  BY <1>2 DEF serviceMemory, Designates
<1> QED
  BY <1>1, <1>3 DEF Service!svars

(* The last of the memory is given back, and then the module is gone.      *)
LEMMA CleanupAddrRefines ==
  ASSUME IInv, NoLeak', CleanupAddr
  PROVE  Service!GiveBack \/ Service!Gone \/ UNCHANGED Service!svars
<1>1. \A n \in Nums : ~Registered(n)
  BY DEF CleanupAddr, Registered, DevFreed
<1>2. \A i \in 0..loopback : serviceLink[i] = "absent"
  BY <1>1, UnknownInterface, IfsAreNums DEF serviceLink
<1>3. serviceRings = {}
  BY <1>1, UnknownInterface, IfsAreNums DEF serviceRings
<1>4. UNCHANGED <<serviceLink, serviceRings>>
  BY DEF CleanupAddr, serviceLink, serviceRings, Opened, netvars, privvars
<1>5. serviceModule = "leaving"
  BY DEF CleanupAddr, serviceModule, InitSteps, CleanupSteps
<1>6. CASE num = 1
  <2>1. pc' = "out"
    BY <1>6 DEF CleanupAddr, GoTo
  <2>2. serviceModule' = "out"
    BY <2>1 DEF serviceModule, InitSteps, CleanupSteps
  <2>3. ~serviceMemory'
    BY <2>1 DEF NoLeak, serviceMemory
  <2>4. serviceMemory' = FALSE
    BY <2>3 DEF serviceMemory
  <2> QED
    BY <1>2, <1>3, <1>4, <1>5, <2>2, <2>4 DEF Service!Gone
<1>7. CASE num = 0
  <2>1. serviceModule' = "leaving"
    BY <1>7 DEF CleanupAddr, GoTo, serviceModule, InitSteps, CleanupSteps
  <2>2. serviceMemory' => serviceMemory
    BY DEF CleanupAddr, Kfree, serviceMemory, IInv, TypeOK
  <2>3. serviceMemory' = serviceMemory \/ serviceMemory' = FALSE
    BY <2>2 DEF serviceMemory
  <2> QED
    BY <1>2, <1>3, <1>4, <1>5, <2>1, <2>3 DEF Service!GiveBack, Service!svars
<1> QED
  BY <1>6, <1>7 DEF IInv, TypeOK, Nums

(* ifconfig begins a change, of one interface at a time (the RTNL).        *)
LEMMA IfconfigRefines ==
  ASSUME IInv, NEW n \in Nums, IfconfigUp(n) \/ IfconfigDown(n)
  PROVE  \E i \in 0..loopback : Service!Begin(i)
<1>1. /\ RtnlFree /\ netdev[n] # NULL /\ ifpc' # "idle" /\ ifnum' = n
      /\ UNCHANGED <<pc, netdev, up, heap, rx_ring>>
  BY DEF IfconfigUp, IfconfigDown, netvars, privvars
<1>2. Registered(n)
  BY <1>1 DEF IInv, NetInv
<1>3. n \in 0..loopback
  BY <1>2, KnownInterface
<1>4. \A i \in 0..loopback : serviceLink[i] # "changing"
  BY <1>1 DEF serviceLink, RtnlFree
<1>5. serviceLink[n] \in {"down", "up"}
  BY <1>1, <1>3 DEF serviceLink, RtnlFree
<1>6. serviceLink' = [serviceLink EXCEPT ![n] = "changing"]
  BY <1>1, <1>3 DEF serviceLink, RtnlFree
<1>7. \A m \in Nums : Opened(m)' = Opened(m)
  BY <1>1 DEF IfconfigUp, IfconfigDown, Opened, RtnlFree
<1>8. serviceRings' = serviceRings
  BY <1>1, <1>7, IfsAreNums DEF serviceRings
<1>9. UNCHANGED <<serviceModule, serviceMemory>>
  BY <1>1 DEF serviceModule, serviceMemory
<1> QED
  BY <1>3, <1>4, <1>5, <1>6, <1>8, <1>9 DEF Service!Begin

(* While a handler of ifconfig runs, its interface is being changed, and   *)
(* only its last step ends the change.                                     *)
LEMMA HandlerChanges ==
  ASSUME IInv, ifpc # "idle"
  PROVE  /\ ifnum \in 0..loopback /\ ifnum \in Nums
         /\ serviceLink[ifnum] = "changing"
         /\ serviceMemory
<1>1. ifnum \in Nums /\ Registered(ifnum)
  BY DEF IInv, TypeOK, NetInv
<1> QED
  BY <1>1, KnownInterface DEF serviceLink

(* A ring is taken for an interface that had none, or there is none left.  *)
LEMMA OpenAllocRingRefines ==
  ASSUME IInv, IInv', OpenAllocRing
  PROVE  \/ \E i \in 0..loopback : Service!TakeRing(i)
         \/ UNCHANGED Service!svars
<1>1. ifpc = "alloc_ring" /\ ifpc' = "copy_addr" /\ ifnum' = ifnum
  BY DEF OpenAllocRing
<1>2. /\ ifnum \in 0..loopback /\ ifnum \in Nums
      /\ serviceLink[ifnum] = "changing"
      /\ serviceMemory /\ serviceMemory'
  <2>1. netdev[ifnum] # NULL /\ netdev' = netdev /\ ifnum \in Nums
    BY <1>1, KnownInterface DEF OpenAllocRing, netvars, IInv, NetInv, TypeOK
  <2>2. Registered(ifnum)'
    BY <1>1 DEF IInv, NetInv
  <2>3. serviceMemory'
    BY <1>1, HandlerChanges DEF OpenAllocRing, Kmalloc, serviceMemory, IInv, TypeOK
  <2> QED
    BY <1>1, <2>3, HandlerChanges
<1>3. UNCHANGED <<serviceModule, serviceLink>>
  BY <1>1 DEF OpenAllocRing, serviceModule, serviceLink, netvars
<1>4. ~Opened(ifnum) /\ Opened(ifnum)'
  BY <1>1 DEF IInv, NetInv, Opened, OpenSteps
<1>5. \A n \in Nums \ {ifnum} :
        Opened(n)' = Opened(n) /\ rx_ring'[n] = rx_ring[n]
  BY <1>1, <1>2 DEF OpenAllocRing, Opened, netvars, IInv, TypeOK
<1>6. serviceRings' = serviceRings
        \cup (IF rx_ring'[ifnum] = NULL THEN {} ELSE {ifnum})
  BY <1>1, <1>2, <1>4, <1>5, IfsAreNums DEF serviceRings
<1>7. ifnum \notin serviceRings
  BY <1>4 DEF serviceRings
<1>8. serviceMemory' = serviceMemory
  BY <1>2 DEF serviceMemory
<1> QED
  BY <1>2, <1>3, <1>6, <1>7, <1>8 DEF Service!TakeRing, Service!svars

(* The contract does not see the MAC address.                              *)
LEMMA OpenCopyAddrRefines ==
  ASSUME IInv, OpenCopyAddr PROVE UNCHANGED Service!svars
BY DEF OpenCopyAddr, Service!svars, serviceModule, serviceLink, serviceRings,
       serviceMemory, Opened, netvars

(* The end of an open.                                                     *)
LEMMA OpenStartQueueRefines ==
  ASSUME IInv, OpenStartQueue
  PROVE  \E i \in 0..loopback : Service!End(i)
<1>1. /\ ifpc = "start_queue" /\ ifpc' = "idle" /\ ifnum' = ifnum
      /\ up' = [up EXCEPT ![ifnum] = TRUE]
      /\ UNCHANGED <<pc, netdev, heap, rx_ring>>
  BY DEF OpenStartQueue, privvars
<1>2. /\ ifnum \in 0..loopback /\ ifnum \in Nums
      /\ serviceLink[ifnum] = "changing" /\ netdev[ifnum] # NULL
  BY <1>1, HandlerChanges, KnownInterface DEF IInv, NetInv
<1>3. up'[ifnum] /\ \A n \in Nums \ {ifnum} : up'[n] = up[n]
  BY <1>1, <1>2 DEF IInv, TypeOK
<1>4. serviceLink' = [serviceLink EXCEPT ![ifnum] = "up"]
  BY <1>1, <1>2, <1>3, IfsAreNums DEF serviceLink
<1>5. \A n \in Nums : Opened(n)' <=> Opened(n)
  BY <1>1, <1>2, <1>3 DEF Opened
<1>6. UNCHANGED <<serviceModule, serviceRings, serviceMemory>>
  BY <1>1, <1>5, IfsAreNums
  DEF serviceModule, serviceRings, serviceMemory
<1> QED
  BY <1>2, <1>4, <1>6 DEF Service!End

(* The ring, if there is one, is dropped before the interface is down.     *)
LEMMA ReleaseFreeRingRefines ==
  ASSUME IInv, IInv', ReleaseFreeRing
  PROVE  \/ \E i \in 0..loopback : Service!DropRing(i)
         \/ UNCHANGED Service!svars
<1>1. /\ ifpc = "kfree_ring" /\ ifpc' = "stop_queue" /\ ifnum' = ifnum
      /\ UNCHANGED <<pc, num, netdev, up, rx_ring, rio_dev, dev_is_registered>>
  BY DEF ReleaseFreeRing, netvars, privvars, modvars
<1>2. /\ ifnum \in 0..loopback /\ ifnum \in Nums
      /\ serviceLink[ifnum] = "changing" /\ serviceMemory
  BY <1>1, HandlerChanges
<1>3. serviceMemory'
  <2>1. Registered(ifnum) /\ Registered(ifnum)'
    BY <1>1 DEF IInv, NetInv
  <2>2. Designates(rio_dev[ifnum], "netdev")'
    BY <1>1, <1>2, <2>1 DEF IInv, LiveInv, LoadInv, DevLive, Registered, DevFreed
  <2> QED
    BY <2>2 DEF serviceMemory, Designates
<1>4. Opened(ifnum) /\ ~Opened(ifnum)'
  BY <1>1 DEF IInv, NetInv, Opened, ReleaseSteps
<1>5. \A n \in Nums \ {ifnum} : Opened(n)' = Opened(n)
  BY <1>1 DEF Opened
<1>6. serviceRings' = serviceRings \ {ifnum}
  BY <1>1, <1>2, <1>4, <1>5, IfsAreNums DEF serviceRings
<1>7. UNCHANGED <<serviceModule, serviceLink>>
  BY <1>1 DEF serviceModule, serviceLink
<1>8. serviceMemory' = serviceMemory
  BY <1>2, <1>3 DEF serviceMemory
<1>9. CASE ifnum \in serviceRings
  BY <1>2, <1>6, <1>7, <1>8, <1>9 DEF Service!DropRing
<1>10. CASE ifnum \notin serviceRings
  BY <1>6, <1>7, <1>8, <1>10 DEF Service!svars
<1> QED
  BY <1>9, <1>10

(* The end of a release.                                                   *)
LEMMA ReleaseStopQueueRefines ==
  ASSUME IInv, ReleaseStopQueue
  PROVE  \E i \in 0..loopback : Service!End(i)
<1>1. /\ ifpc = "stop_queue" /\ ifpc' = "idle" /\ ifnum' = ifnum
      /\ up' = [up EXCEPT ![ifnum] = FALSE]
      /\ UNCHANGED <<pc, netdev, heap, rx_ring>>
  BY DEF ReleaseStopQueue, privvars
<1>2. /\ ifnum \in 0..loopback /\ ifnum \in Nums
      /\ serviceLink[ifnum] = "changing" /\ netdev[ifnum] # NULL
  BY <1>1, HandlerChanges, KnownInterface DEF IInv, NetInv
<1>3. ~up'[ifnum] /\ \A n \in Nums \ {ifnum} : up'[n] = up[n]
  BY <1>1, <1>2 DEF IInv, TypeOK
<1>4. serviceLink' = [serviceLink EXCEPT ![ifnum] = "down"]
  BY <1>1, <1>2, <1>3, IfsAreNums DEF serviceLink
<1>5. ~Opened(ifnum)
  BY <1>1 DEF Opened
<1>6. \A n \in Nums : Opened(n)' <=> Opened(n)
  BY <1>1, <1>2, <1>3 DEF Opened
<1>7. UNCHANGED <<serviceModule, serviceRings, serviceMemory>>
  BY <1>1, <1>6, IfsAreNums
  DEF serviceModule, serviceRings, serviceMemory
<1>8. ifnum \notin serviceRings
  BY <1>5 DEF serviceRings
<1> QED
  BY <1>2, <1>4, <1>7, <1>8 DEF Service!End

(* The module implements its contract: whatever the allocations that fail  *)
(* and however ifconfig interleaves with insmod and rmmod, the network     *)
(* layer sees a behaviour of RioService.                                   *)
THEOREM Refinement == Spec => ImplementsService
<1>1. Init => Service!Init
  <2> SUFFICES ASSUME Init PROVE Service!Init
    OBVIOUS
  <2>1. serviceModule = "out"
    BY DEF Init, serviceModule, InitSteps, CleanupSteps
  <2>2. serviceLink = [i \in 0..loopback |-> "absent"]
    BY IfsAreNums DEF Init, serviceLink
  <2>3. serviceRings = {}
    BY IfsAreNums DEF Init, serviceRings, Opened
  <2>4. serviceMemory = FALSE
    BY DEF Init, serviceMemory
  <2> QED
    BY <2>1, <2>2, <2>3, <2>4 DEF Service!Init
<1>2. IInv /\ IInv' /\ NoLeak' /\ [Next]_vars => [Service!Next]_(Service!svars)
  <2> SUFFICES ASSUME IInv, IInv', NoLeak', [Next]_vars
               PROVE  Service!Next \/ UNCHANGED Service!svars
    OBVIOUS
  <2>1. CASE Insmod \/ Rmmod
    BY <2>1, InsmodRefines, RmmodRefines DEF Service!Next
  <2>2. CASE Loader
    BY <2>2, InitAddrRefines, AllocNetdevRefines, RegisterNetdevRefines,
       SetBaseAddrRefines, CleanupUnregisterRefines, CleanupFreeNetdevRefines,
       CleanupAddrRefines DEF Loader, Service!Next
  <2>3. CASE NdoHandler
    BY <2>3, OpenAllocRingRefines, OpenCopyAddrRefines, OpenStartQueueRefines,
       ReleaseFreeRingRefines, ReleaseStopQueueRefines
    DEF NdoHandler, Service!Next
  <2>4. CASE \E n \in Nums : IfconfigUp(n) \/ IfconfigDown(n)
    BY <2>4, IfconfigRefines DEF Service!Next
  <2>5. CASE UNCHANGED vars
    BY <2>5 DEF vars, modvars, netvars, privvars, Service!svars, serviceModule,
       serviceLink, serviceRings, serviceMemory, Opened
  <2> QED
    BY <2>1, <2>2, <2>3, <2>4, <2>5 DEF Next
<1> QED
  BY <1>1, <1>2, InductiveInvariant, LeakFreedom, PTL
  DEF Spec, ImplementsService, Service!Spec
=============================================================================
