---------------------------- MODULE RocketIOProofs ----------------------------
(***************************************************************************)
(* The inductive invariant IInv of RocketIO, and the safety properties     *)
(* that follow from it.  One lemma per action, one step per conjunct.      *)
(***************************************************************************)
EXTENDS RocketIO, TLAPS

(* Closing an interface, or stopping its queue, keeps the flags Boolean.   *)
LEMMA ClearFlag ==
  ASSUME NEW f \in [Nums -> BOOLEAN], NEW m \in Nums
  PROVE  [f EXCEPT ![m] = FALSE] \in [Nums -> BOOLEAN]
  OBVIOUS

(* insmod starts from a module that is out: nothing is live, and the flags *)
(* of an earlier load are reset.                                           *)
LEMMA InsmodKeeps == ASSUME IInv, Insmod PROVE IInv'
<1> USE NullAssumption, LoopbackAssumption
<1> USE DEF IInv, TypeOK, Nums, Pointers, Insmod, Running, GoTo, modvars,
            netvars, privvars
<1>1. TypeOK'
  BY DEF InitSteps
<1>2. LiveInv'
  BY DEF LiveInv, LoadInv, NetInv, AddrLive, DevLive, RingLive, Opened,
         Registered
<1>3. HeapInv'
  BY DEF HeapInv, AddrLive, DevLive, RingLive, Opened, DevFreed
<1>4. LoadInv'
  BY DEF LoadInv
<1>5. NetInv'
  BY DEF NetInv, Registered, DevFreed
<1>6. NoMemoryFault'
  BY DEF NoMemoryFault
<1>7. TxBufsInRing'
  BY DEF TxBufsInRing, LoadInv, NetInv, Opened, Registered
<1>8. MacMatches'
  BY DEF MacMatches
<1> QED
  BY <1>1, <1>2, <1>3, <1>4, <1>5, <1>6, <1>7, <1>8

(* kmalloc hands out a block that is free, so that no live pointer         *)
(* designates it yet.                                                      *)
LEMMA InitAddrKeeps == ASSUME IInv, InitAddr PROVE IInv'
<1> USE NullAssumption, LoopbackAssumption
<1> USE DEF IInv, TypeOK, Nums, Pointers, InitAddr, InitAddrFailed, Running,
            GoTo, Kmalloc, StartCleanup, modvars, netvars, privvars
<1>1. TypeOK'
  BY DEF InitSteps, CleanupSteps, Kinds
<1>2. LiveInv'
  BY DEF LiveInv, AddrLive, DevLive, RingLive, Opened, Designates, DevFreed
<1>3. HeapInv'
  BY DEF HeapInv, LoadInv, AddrLive, RingLive, Opened
<1>4. LoadInv'
  BY DEF LoadInv
<1>5. NetInv'
  BY DEF NetInv, Registered, DevFreed
<1>6. NoMemoryFault'
  BY DEF NoMemoryFault
<1>7. TxBufsInRing'
  BY DEF TxBufsInRing, LoadInv, NetInv, Opened, Registered
<1>8. MacMatches'
  BY DEF MacMatches
<1> QED
  BY <1>1, <1>2, <1>3, <1>4, <1>5, <1>6, <1>7, <1>8

(* The rio_dev of the new net_device was not live before.                  *)
LEMMA AllocNetdevKeeps == ASSUME IInv, AllocNetdev PROVE IInv'
<1> USE NullAssumption, LoopbackAssumption
<1> USE DEF IInv, TypeOK, Nums, Pointers, AllocNetdev, StoreDev, Running,
            GoTo, Kmalloc, modvars, netvars, privvars
<1>1. TypeOK'
  BY DEF InitSteps, Kinds
<1>2. LiveInv'
  BY DEF LiveInv, AddrLive, DevLive, RingLive, Opened, Designates, DevFreed
<1>3. HeapInv'
  BY DEF HeapInv, LoadInv, NetInv, AddrLive, DevLive, RingLive, Opened,
         Registered, DevFreed
<1>4. LoadInv'
  BY DEF LoadInv
<1>5. NetInv'
  BY DEF LoadInv, NetInv, Registered, DevFreed
<1>6. NoMemoryFault'
  BY DEF NoMemoryFault
<1>7. TxBufsInRing'
  BY DEF TxBufsInRing, Opened, Designates
<1>8. MacMatches'
  BY DEF MacMatches, LoadInv, NetInv, Registered
<1> QED
  BY <1>1, <1>2, <1>3, <1>4, <1>5, <1>6, <1>7, <1>8

(* The interface becomes known to the kernel together with the record of   *)
(* it in dev_is_registered.                                                *)
LEMMA RegisterNetdevKeeps == ASSUME IInv, RegisterNetdev PROVE IInv'
<1> USE NullAssumption, LoopbackAssumption
<1> USE DEF IInv, TypeOK, Nums, Pointers, RegisterNetdev, RecordSuccess,
            Running, GoTo, NextNetdev, StartCleanup, RtnlFree, modvars,
            netvars, privvars
<1>1. TypeOK'
  BY DEF InitSteps, CleanupSteps
<1>2. LiveInv'
  BY DEF LiveInv, AddrLive, DevLive, RingLive, Opened, Designates, DevFreed
<1>3. HeapInv'
  BY DEF HeapInv, AddrLive, DevLive, RingLive, Opened, DevFreed
<1>4. LoadInv'
  BY DEF LoadInv
<1>5. NetInv'
  BY DEF LoadInv, NetInv, Registered, DevFreed
<1>6. NoMemoryFault'
  BY DEF NoMemoryFault
<1>7. TxBufsInRing'
  BY DEF TxBufsInRing, Opened, Designates
<1>8. MacMatches'
  BY DEF MacMatches
<1> QED
  BY <1>1, <1>2, <1>3, <1>4, <1>5, <1>6, <1>7, <1>8

(* The rio_dev whose base_addr is written is live.                         *)
LEMMA SetBaseAddrKeeps == ASSUME IInv, SetBaseAddr PROVE IInv'
<1> USE NullAssumption, LoopbackAssumption
<1> USE DEF IInv, TypeOK, Nums, Pointers, SetBaseAddr, Running, GoTo, modvars,
            netvars, privvars
<1>1. TypeOK'
  OBVIOUS
<1>2. LiveInv'
  BY DEF LiveInv, AddrLive, DevLive, RingLive, Opened, Designates, DevFreed
<1>3. HeapInv'
  BY DEF HeapInv, AddrLive, DevLive, RingLive, Opened, DevFreed
<1>4. LoadInv'
  BY DEF LoadInv
<1>5. NetInv'
  BY DEF NetInv, Registered, DevFreed
<1>6. NoMemoryFault'
  BY DEF NoMemoryFault, LiveInv, LoadInv, DevLive, DevFreed
<1>7. TxBufsInRing'
  BY DEF TxBufsInRing, Opened, Designates
<1>8. MacMatches'
  BY DEF MacMatches
<1> QED
  BY <1>1, <1>2, <1>3, <1>4, <1>5, <1>6, <1>7, <1>8

(* A loaded module has all that the cleanup will free.                     *)
LEMMA RmmodKeeps == ASSUME IInv, Rmmod PROVE IInv'
<1> USE NullAssumption, LoopbackAssumption
<1> USE DEF IInv, TypeOK, Nums, Pointers, Rmmod, Running, GoTo, StartCleanup,
            modvars, netvars, privvars
<1>1. TypeOK'
  BY DEF CleanupSteps
<1>2. LiveInv'
  BY DEF LiveInv, AddrLive, DevLive, RingLive, Opened, Designates, DevFreed
<1>3. HeapInv'
  BY DEF HeapInv, AddrLive, DevLive, RingLive, Opened, DevFreed
<1>4. LoadInv'
  BY DEF LoadInv
<1>5. NetInv'
  BY DEF NetInv, Registered, DevFreed
<1>6. NoMemoryFault'
  BY DEF NoMemoryFault
<1>7. TxBufsInRing'
  BY DEF TxBufsInRing, Opened, Designates
<1>8. MacMatches'
  BY DEF MacMatches
<1> QED
  BY <1>1, <1>2, <1>3, <1>4, <1>5, <1>6, <1>7, <1>8

(* unregister_netdev frees the ring of an interface that is up, and nobody *)
(* opens the interface after that.                                         *)
LEMMA CleanupUnregisterKeeps == ASSUME IInv, CleanupUnregister PROVE IInv'
<1> USE NullAssumption, LoopbackAssumption
<1> USE DEF IInv, TypeOK, Nums, Pointers, CleanupUnregister, MustUnregister,
            Running, GoTo, Unregister, FreeRing, AfterNetdev,
            Kfree, RtnlFree, modvars, netvars, privvars
<1>1. TypeOK'
  <2>1. CASE rio_dev[num] = NULL
    BY <2>1 DEF CleanupSteps
  <2>2. CASE rio_dev[num] # NULL /\ dev_is_registered[num] = 0
    BY <2>2 DEF CleanupSteps
  <2>3. CASE rio_dev[num] # NULL /\ dev_is_registered[num] = 1
    <3>1. pc' = "free_netdev" /\ num' = num
      BY <2>3
    <3>2. /\ heap' \in [Blocks -> Kinds]
          /\ fault' \in {"none", "bad_free", "bad_unregister"}
      BY <2>3 DEF Kinds
    <3>3. netdev' \in [Nums -> Pointers]
      BY <2>3
    <3>4. /\ up' = up \/ up' = [up EXCEPT ![num] = FALSE]
          /\ queue_on' = queue_on \/ queue_on' = [queue_on EXCEPT ![num] = FALSE]
      BY <2>3
    <3>5. up' \in [Nums -> BOOLEAN] /\ queue_on' \in [Nums -> BOOLEAN]
      <4>1. /\ [up EXCEPT ![num] = FALSE] \in [Nums -> BOOLEAN]
            /\ [queue_on EXCEPT ![num] = FALSE] \in [Nums -> BOOLEAN]
        BY ClearFlag
      <4> QED
        BY <3>4, <4>1
    <3> QED
      BY <3>1, <3>2, <3>3, <3>4, <3>5 DEF CleanupSteps
  <2> QED
    BY <2>1, <2>2, <2>3
<1>2. LiveInv'
  BY DEF LiveInv, AddrLive, DevLive, RingLive, Opened, Designates, DevFreed
<1>3. HeapInv'
  BY DEF LiveInv, HeapInv, AddrLive, DevLive, RingLive, Opened, DevFreed
<1>4. LoadInv'
  BY DEF LoadInv
<1>5. NetInv'
  BY DEF LoadInv, NetInv, Registered, DevFreed, ReleaseSteps
<1>6. NoMemoryFault'
  BY DEF NoMemoryFault, LiveInv, NetInv, RingLive, Opened, Registered,
         DevFreed
<1>7. TxBufsInRing'
  BY DEF TxBufsInRing, LiveInv, Opened, Designates, RingLive
<1>8. MacMatches'
  BY DEF MacMatches
<1> QED
  BY <1>1, <1>2, <1>3, <1>4, <1>5, <1>6, <1>7, <1>8

(* The net_device is freed when its interface is closed and unknown.       *)
LEMMA CleanupFreeNetdevKeeps == ASSUME IInv, CleanupFreeNetdev PROVE IInv'
<1> USE NullAssumption, LoopbackAssumption
<1> USE DEF IInv, TypeOK, Nums, Pointers, CleanupFreeNetdev, Running, GoTo,
            AfterNetdev, Kfree, modvars, netvars, privvars
<1>1. TypeOK'
  BY DEF CleanupSteps, Kinds
<1>2. LiveInv'
  BY DEF LiveInv, AddrLive, DevLive, RingLive, Opened, Designates, DevFreed
<1>3. HeapInv'
  BY DEF LiveInv, HeapInv, AddrLive, DevLive, RingLive, Opened, DevFreed
<1>4. LoadInv'
  BY DEF LoadInv
<1>5. NetInv'
  BY DEF NetInv, Registered, DevFreed
<1>6. NoMemoryFault'
  BY DEF NoMemoryFault, LiveInv, LoadInv, DevLive, DevFreed
<1>7. TxBufsInRing'
  BY DEF TxBufsInRing, Opened, Designates
<1>8. MacMatches'
  BY DEF MacMatches
<1> QED
  BY <1>1, <1>2, <1>3, <1>4, <1>5, <1>6, <1>7, <1>8

(* An address buffer is freed once, when no interface reads it any more.   *)
LEMMA CleanupAddrKeeps == ASSUME IInv, CleanupAddr PROVE IInv'
<1> USE NullAssumption, LoopbackAssumption
<1> USE DEF IInv, TypeOK, Nums, Pointers, CleanupAddr, Running, GoTo, Kfree,
            modvars, netvars, privvars
<1>1. TypeOK'
  BY DEF Kinds
<1>2. LiveInv'
  BY DEF LiveInv, AddrLive, DevLive, RingLive, Opened, Designates, DevFreed
<1>3. HeapInv'
  BY DEF LiveInv, HeapInv, AddrLive, DevLive, RingLive, Opened, DevFreed
<1>4. LoadInv'
  BY DEF LoadInv
<1>5. NetInv'
  BY DEF NetInv, Registered, DevFreed
<1>6. NoMemoryFault'
  BY DEF NoMemoryFault, LiveInv, AddrLive
<1>7. TxBufsInRing'
  BY DEF TxBufsInRing, NetInv, Opened, Registered, DevFreed
<1>8. MacMatches'
  BY DEF MacMatches
<1> QED
  BY <1>1, <1>2, <1>3, <1>4, <1>5, <1>6, <1>7, <1>8

(* Only a closed interface that the kernel knows is opened.                *)
LEMMA IfconfigUpKeeps ==
  ASSUME NEW n \in Nums, IInv, IfconfigUp(n) PROVE IInv'
<1> USE NullAssumption, LoopbackAssumption
<1> USE DEF IInv, TypeOK, Nums, Pointers, IfconfigUp, Running, RtnlFree,
            modvars, netvars, privvars
<1>1. TypeOK'
  BY DEF OpenSteps
<1>2. LiveInv'
  BY DEF LiveInv, AddrLive, DevLive, RingLive, Opened, Designates, DevFreed
<1>3. HeapInv'
  BY DEF HeapInv, AddrLive, DevLive, RingLive, Opened, DevFreed
<1>4. LoadInv'
  BY DEF LoadInv
<1>5. NetInv'
  BY DEF NetInv, Registered, DevFreed, ReleaseSteps
<1>6. NoMemoryFault'
  BY DEF NoMemoryFault
<1>7. TxBufsInRing'
  BY DEF TxBufsInRing, Opened, Designates
<1>8. MacMatches'
  BY DEF MacMatches
<1> QED
  BY <1>1, <1>2, <1>3, <1>4, <1>5, <1>6, <1>7, <1>8

(* Only an open interface is closed, and no other change is going on.      *)
LEMMA IfconfigDownKeeps ==
  ASSUME NEW n \in Nums, IInv, IfconfigDown(n) PROVE IInv'
<1> USE NullAssumption, LoopbackAssumption
<1> USE DEF IInv, TypeOK, Nums, Pointers, IfconfigDown, Running, RtnlFree,
            modvars, netvars, privvars
<1>1. TypeOK'
  BY DEF ReleaseSteps
<1>2. LiveInv'
  BY DEF LiveInv, AddrLive, DevLive, RingLive, Opened, Designates, DevFreed
<1>3. HeapInv'
  BY DEF HeapInv, AddrLive, DevLive, RingLive, Opened, DevFreed
<1>4. LoadInv'
  BY DEF LoadInv
<1>5. NetInv'
  BY DEF NetInv, Registered, DevFreed, OpenSteps
<1>6. NoMemoryFault'
  BY DEF NoMemoryFault
<1>7. TxBufsInRing'
  BY DEF TxBufsInRing, Opened, Designates
<1>8. MacMatches'
  BY DEF MacMatches
<1> QED
  BY <1>1, <1>2, <1>3, <1>4, <1>5, <1>6, <1>7, <1>8

(* The ring of an interface that is being opened is not live before.       *)
LEMMA OpenAllocRingKeeps == ASSUME IInv, OpenAllocRing PROVE IInv'
<1> USE NullAssumption, LoopbackAssumption
<1> USE DEF IInv, TypeOK, Nums, Pointers, OpenAllocRing, PlaceTxBufs, Running,
            Kmalloc, modvars, netvars, privvars
<1>1. TypeOK'
  BY DEF OpenSteps, Kinds
<1>2. LiveInv'
  BY DEF LiveInv, AddrLive, DevLive, RingLive, Opened, Designates, DevFreed
<1>3. HeapInv'
  BY DEF HeapInv, NetInv, AddrLive, DevLive, RingLive, Opened, DevFreed,
         ReleaseSteps
<1>4. LoadInv'
  BY DEF LoadInv
<1>5. NetInv'
  BY DEF NetInv, Registered, DevFreed, ReleaseSteps
<1>6. NoMemoryFault'
  BY DEF NoMemoryFault
<1>7. TxBufsInRing'
  BY DEF TxBufsInRing, Opened, Designates
<1>8. MacMatches'
  BY DEF MacMatches
<1> QED
  BY <1>1, <1>2, <1>3, <1>4, <1>5, <1>6, <1>7, <1>8

(* The address that open copies is live, as the cleanup has not come past  *)
(* the interface.                                                          *)
LEMMA OpenCopyAddrKeeps == ASSUME IInv, OpenCopyAddr PROVE IInv'
<1> USE NullAssumption, LoopbackAssumption
<1> USE DEF IInv, TypeOK, Nums, Pointers, OpenCopyAddr, Running, MacOf,
            modvars, netvars, privvars
<1>1. TypeOK'
  BY DEF OpenSteps
<1>2. LiveInv'
  BY DEF LiveInv, AddrLive, DevLive, RingLive, Opened, Designates, DevFreed
<1>3. HeapInv'
  BY DEF HeapInv, AddrLive, DevLive, RingLive, Opened, DevFreed
<1>4. LoadInv'
  BY DEF LoadInv
<1>5. NetInv'
  BY DEF LiveInv, LoadInv, NetInv, Registered, DevFreed, ReleaseSteps
<1>6. NoMemoryFault'
  BY DEF NoMemoryFault, LiveInv, LoadInv, NetInv, AddrLive, Registered,
         DevFreed
<1>7. TxBufsInRing'
  BY DEF TxBufsInRing, Opened, Designates
<1>8. MacMatches'
  BY DEF MacMatches, NetInv, OpenSteps
<1> QED
  BY <1>1, <1>2, <1>3, <1>4, <1>5, <1>6, <1>7, <1>8

(* The interface comes up with the address it was given.                   *)
LEMMA OpenStartQueueKeeps == ASSUME IInv, OpenStartQueue PROVE IInv'
<1> USE NullAssumption, LoopbackAssumption
<1> USE DEF IInv, TypeOK, Nums, Pointers, OpenStartQueue, Running, modvars,
            netvars, privvars
<1>1. TypeOK'
  OBVIOUS
<1>2. LiveInv'
  BY DEF LiveInv, AddrLive, DevLive, RingLive, Opened, Designates, DevFreed
<1>3. HeapInv'
  BY DEF HeapInv, AddrLive, DevLive, RingLive, Opened, DevFreed
<1>4. LoadInv'
  BY DEF LoadInv
<1>5. NetInv'
  BY DEF NetInv, Registered, DevFreed, OpenSteps
<1>6. NoMemoryFault'
  BY DEF NoMemoryFault
<1>7. TxBufsInRing'
  BY DEF TxBufsInRing, Opened, Designates
<1>8. MacMatches'
  <2> SUFFICES ASSUME NEW n \in Nums, up'[n] PROVE dev_addr'[n] = MacOf(n)
    BY DEF MacMatches
  <2>1. CASE n = ifnum
    BY <2>1 DEF NetInv
  <2>2. CASE n # ifnum
    BY <2>2 DEF MacMatches
  <2> QED
    BY <2>1, <2>2
<1> QED
  BY <1>1, <1>2, <1>3, <1>4, <1>5, <1>6, <1>7, <1>8

(* The ring of an interface that is being closed is live, and freed once.  *)
LEMMA ReleaseFreeRingKeeps == ASSUME IInv, ReleaseFreeRing PROVE IInv'
<1> USE NullAssumption, LoopbackAssumption
<1> USE DEF IInv, TypeOK, Nums, Pointers, ReleaseFreeRing, FreeRing, Running,
            Kfree, modvars, netvars, privvars
<1>1. TypeOK'
  BY DEF ReleaseSteps, Kinds
<1>2. LiveInv'
  BY DEF LiveInv, NetInv, AddrLive, DevLive, RingLive, Opened, Designates,
         DevFreed, ReleaseSteps
<1>3. HeapInv'
  BY DEF LiveInv, HeapInv, AddrLive, DevLive, RingLive, Opened, DevFreed
<1>4. LoadInv'
  BY DEF LoadInv
<1>5. NetInv'
  BY DEF NetInv, Registered, DevFreed, OpenSteps
<1>6. NoMemoryFault'
  BY DEF NoMemoryFault, LiveInv, NetInv, RingLive, Opened, ReleaseSteps
<1>7. TxBufsInRing'
  BY DEF TxBufsInRing, LiveInv, NetInv, Opened, Designates, RingLive,
         ReleaseSteps
<1>8. MacMatches'
  BY DEF MacMatches
<1> QED
  BY <1>1, <1>2, <1>3, <1>4, <1>5, <1>6, <1>7, <1>8

(* The last step of release leaves the memory alone.                       *)
LEMMA ReleaseStopQueueKeeps == ASSUME IInv, ReleaseStopQueue PROVE IInv'
<1> USE NullAssumption, LoopbackAssumption
<1> USE DEF IInv, TypeOK, Nums, Pointers, ReleaseStopQueue, Running, modvars,
            netvars, privvars
<1>1. TypeOK'
  OBVIOUS
<1>2. LiveInv'
  BY DEF LiveInv, AddrLive, DevLive, RingLive, Opened, Designates, DevFreed
<1>3. HeapInv'
  BY DEF HeapInv, AddrLive, DevLive, RingLive, Opened, DevFreed
<1>4. LoadInv'
  BY DEF LoadInv
<1>5. NetInv'
  BY DEF NetInv, Registered, DevFreed, ReleaseSteps
<1>6. NoMemoryFault'
  BY DEF NoMemoryFault
<1>7. TxBufsInRing'
  BY DEF TxBufsInRing, Opened, Designates
<1>8. MacMatches'
  BY DEF MacMatches
<1> QED
  BY <1>1, <1>2, <1>3, <1>4, <1>5, <1>6, <1>7, <1>8

(* Whatever the loader and ifconfig do, and whichever calls fail, what is  *)
(* allocated, registered and open agrees with where both have come to.     *)
THEOREM InductiveInvariant == Spec => []IInv
<1>1. Init => IInv
  BY NullAssumption
  DEF Init, IInv, TypeOK, LiveInv, HeapInv, LoadInv, NetInv, NoMemoryFault,
      TxBufsInRing, MacMatches, AddrLive, DevLive, DevFreed, RingLive,
      Registered, Opened, Nums, Pointers, Kinds, OpenSteps, ReleaseSteps
<1>2. IInv /\ [Next]_vars => IInv'
  <2> SUFFICES ASSUME IInv, [Next]_vars PROVE IInv'
    OBVIOUS
  <2>1. CASE Insmod \/ Rmmod
    BY <2>1, InsmodKeeps, RmmodKeeps
  <2>2. CASE Loader
    BY <2>2, InitAddrKeeps, AllocNetdevKeeps, RegisterNetdevKeeps,
       SetBaseAddrKeeps, CleanupUnregisterKeeps, CleanupFreeNetdevKeeps,
       CleanupAddrKeeps DEF Loader
  <2>3. CASE NdoHandler
    BY <2>3, OpenAllocRingKeeps, OpenCopyAddrKeeps, OpenStartQueueKeeps,
       ReleaseFreeRingKeeps, ReleaseStopQueueKeeps DEF NdoHandler
  <2>4. CASE \E n \in Nums : IfconfigUp(n) \/ IfconfigDown(n)
    BY <2>4, IfconfigUpKeeps, IfconfigDownKeeps
  <2>5. CASE UNCHANGED vars
    BY <2>5 DEF vars, modvars, netvars, privvars, IInv, TypeOK, LiveInv,
      HeapInv, LoadInv, NetInv, NoMemoryFault, TxBufsInRing, MacMatches,
      AddrLive, DevLive, DevFreed, RingLive, Registered, Opened, Designates
  <2> QED
    BY <2>1, <2>2, <2>3, <2>4, <2>5 DEF Next
<1> QED
  BY <1>1, <1>2, PTL DEF Spec

(* Every variable keeps its type.                                          *)
THEOREM TypeCorrect == Spec => []TypeOK
<1>1. IInv => TypeOK
  BY DEF IInv
<1> QED
  BY <1>1, InductiveInvariant, PTL

(* No block is freed twice or read after it was freed, and no interface is *)
(* unregistered that the kernel does not know.                             *)
THEOREM MemorySafety == Spec => []NoMemoryFault
<1>1. IInv => NoMemoryFault
  BY DEF IInv
<1> QED
  BY <1>1, InductiveInvariant, PTL

(* At pc = "out" no pointer is live, so that by HeapInv no block is in use. *)
LEMMA NothingLeft == ASSUME IInv PROVE NoLeak
<1> SUFFICES ASSUME pc = "out", NEW b \in Blocks PROVE heap[b] = "free"
  BY DEF NoLeak
<1>1. heap[b] # "addr" /\ heap[b] # "netdev"
  BY DEF IInv, HeapInv, LoadInv, AddrLive, DevLive
<1>2. \A n \in Nums : ~Registered(n)
  BY DEF IInv, TypeOK, LoadInv, Registered
<1>3. \A n \in Nums : ~Opened(n)
  BY <1>2 DEF IInv, TypeOK, NetInv, Opened
<1>4. heap[b] # "ring"
  BY <1>3 DEF IInv, HeapInv, RingLive
<1> QED
  BY <1>1, <1>4 DEF IInv, TypeOK, Kinds

(* Once the module is out, by rmmod or after a failed insmod, it holds no  *)
(* memory.                                                                 *)
THEOREM LeakFreedom == Spec => []NoLeak
<1>1. IInv => NoLeak
  BY NothingLeft
<1> QED
  BY <1>1, InductiveInvariant, PTL

(* Every ring in memory belongs to one interface that is open.             *)
THEOREM RingsAccounted == Spec => []RingAccounting
<1>1. IInv => RingAccounting
  BY DEF IInv, TypeOK, LiveInv, HeapInv, RingAccounting, RingLive, Nums
<1> QED
  BY <1>1, InductiveInvariant, PTL

(* The transmit buffers of an open interface lie in its own ring.          *)
THEOREM BuffersInRing == Spec => []TxBufsInRing
<1>1. IInv => TxBufsInRing
  BY DEF IInv
<1> QED
  BY <1>1, InductiveInvariant, PTL

(* What ifconfig can reach has not been freed.                             *)
THEOREM RegisteredLive == Spec => []RegisteredIsLive
<1>1. IInv => RegisteredIsLive
  BY NullAssumption DEF IInv, TypeOK, LiveInv, LoadInv, NetInv,
                        RegisteredIsLive,
     AddrLive, DevLive, DevFreed, Registered, Nums
<1> QED
  BY <1>1, InductiveInvariant, PTL

(* An interface that is up carries its own MAC address.                    *)
THEOREM OwnMac == Spec => []MacMatches
<1>1. IInv => MacMatches
  BY DEF IInv
<1> QED
  BY <1>1, InductiveInvariant, PTL
===============================================================================
