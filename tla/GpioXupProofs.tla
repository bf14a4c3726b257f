----------------------------- MODULE GpioXupProofs -----------------------------
(***************************************************************************)
(* The inductive invariant of GpioXup holds for any number of openers and  *)
(* any device, and the safety properties follow from it.                   *)
(***************************************************************************)
EXTENDS GpioXup, TLAPS

(* The loader's steps: each takes or gives back what MayHold says.         *)
LEMMA LoaderKeeps == ASSUME IInv, Insmod \/ Rmmod \/ Loader PROVE IInv'
<1> USE DEF TypeOK, ProbeSteps, RemoveSteps, ReadSteps, Resources, Running,
            Take, GiveBack, Teardown
<1> USE DEF IInv
<1>1. CASE Insmod
  BY <1>1
  DEF Insmod, HeldInv, MayHold, FileInv, Attached, QuietAfterReset, NoStaleAccess
<1>2. CASE Rmmod
  BY <1>2
  DEF Rmmod, Removal, InUse, HeldInv, MayHold, FileInv, Attached,
      QuietAfterReset, NoStaleAccess
<1>a. ASSUME pc \in ProbeSteps PROVE \A f \in Files : ~Attached(f)
  BY <1>a DEF FileInv, HeldInv
<1>3. CASE ProbeAlloc
  <2>1. FileInv' /\ UNCHANGED <<gie, ier, fpc, failed, fault>>
    BY <1>3, <1>a DEF ProbeAlloc, FileInv, Attached
  <2>2. HeldInv' /\ held' \subseteq Resources
    BY <1>3 DEF ProbeAlloc, HeldInv, MayHold
  <2> QED
    BY <1>3, <2>1, <2>2 DEF ProbeAlloc, QuietAfterReset, NoStaleAccess
<1>4. CASE ProbeRegion
  <2>1. FileInv' /\ UNCHANGED <<gie, ier, fpc, failed, fault>>
    BY <1>4, <1>a DEF ProbeRegion, FileInv, Attached
  <2>2. HeldInv' /\ held' \subseteq Resources
    BY <1>4 DEF ProbeRegion, SetupFailed, HeldInv, MayHold
  <2> QED
    BY <1>4, <2>1, <2>2 DEF ProbeRegion, QuietAfterReset, NoStaleAccess
<1>5. CASE ProbeIrq
  <2>1. FileInv' /\ UNCHANGED <<fpc, failed>>
    BY <1>5, <1>a DEF ProbeIrq, FileInv, Attached
  <2>2. HeldInv' /\ held' \subseteq Resources
    BY <1>5 DEF ProbeIrq, NullMapping, HeldInv, MayHold
  <2>3. gie' \in BOOLEAN /\ ier' \in BOOLEAN
    BY <1>5 DEF ProbeIrq, Arm
  <2>4. fault' \in {"none", "null_mapping"}
    BY <1>5 DEF ProbeIrq
  <2> QED
    BY <1>5, <2>1, <2>2, <2>3, <2>4 DEF ProbeIrq, QuietAfterReset, NoStaleAccess
<1>6. CASE ProbeCdev
  <2>1. FileInv' /\ UNCHANGED <<gie, ier, fpc, failed>>
    BY <1>6, <1>a DEF ProbeCdev, FileInv, Attached
  <2>2. HeldInv' /\ held' \subseteq Resources
    BY <1>6 DEF ProbeCdev, NullMapping, HeldInv, MayHold
  <2>3. fault' \in {"none", "null_mapping"}
    BY <1>6 DEF ProbeCdev
  <2> QED
    BY <1>6, <2>1, <2>2, <2>3 DEF ProbeCdev, QuietAfterReset, NoStaleAccess
<1>b. CASE PlatformRegister
  <2>1. UNCHANGED <<held, gie, ier, fpc, fault>> /\ pc = "register" /\ ~failed
    BY <1>b DEF PlatformRegister, HeldInv
  <2>2. HeldInv'
    <3>1. CASE pc' = "in" /\ UNCHANGED failed
      BY <2>1, <3>1 DEF HeldInv, MayHold
    <3>2. CASE "device" \in held /\ pc' = "irq_reset"
      BY <2>1, <3>2 DEF HeldInv, MayHold
    <3>3. CASE "device" \notin held /\ pc' = "exit"
      BY <2>1, <3>3 DEF HeldInv, MayHold
    <3> QED
      BY <1>b, <3>1, <3>2, <3>3 DEF PlatformRegister, Removal
  <2>3. FileInv'
    <3> SUFFICES ASSUME NEW f \in Files, Attached(f)
                 PROVE  /\ fault # "null_mapping"
                        /\ {"map", "cdev"} \subseteq held
                        /\ pc' = "in" \/ (pc' = "irq_reset" /\ failed')
      BY <2>1 DEF FileInv, Attached
    <3>1. fault # "null_mapping" /\ {"map", "cdev"} \subseteq held
      BY <2>1 DEF FileInv
    <3>2. "device" \in held
      BY <3>1 DEF HeldInv
    <3> QED
      BY <1>b, <3>1, <3>2 DEF PlatformRegister, Removal
  <2>4. failed' \in BOOLEAN
    BY <1>b DEF PlatformRegister
  <2> QED
    BY <1>b, <2>1, <2>2, <2>3, <2>4
    DEF PlatformRegister, Removal, QuietAfterReset, NoStaleAccess
<1>7. CASE RemoveReset
  <2>1. "map" \in held /\ UNCHANGED <<held, fpc, failed, fault>>
    BY <1>7 DEF RemoveReset, Access, HeldInv, MayHold
  <2>2. HeldInv'
    BY <1>7, <2>1 DEF RemoveReset, HeldInv, MayHold
  <2>3. pc = "irq_reset" /\ pc' = "cdev_del"
    BY <1>7 DEF RemoveReset
  <2>4. \A f \in Files : Attached(f)' <=> Attached(f)
    BY <2>1 DEF Attached
  <2>5. \A f \in Files : Attached(f) => failed /\ fault # "null_mapping"
    BY <2>3 DEF FileInv
  <2>6. FileInv'
    BY <2>1, <2>3, <2>4, <2>5 DEF FileInv
  <2>7. ~failed => \A f \in Files : ~Attached(f)'
    BY <2>4, <2>5
  <2>8. gie' = FALSE /\ ier' = FALSE
    BY <1>7 DEF RemoveReset, TeardownReset, Reset
  <2>9. QuietAfterReset' /\ NoStaleAccess'
    BY <2>1, <2>7, <2>8 DEF QuietAfterReset, NoStaleAccess
  <2>10. TypeOK'
    BY <2>1, <2>3, <2>8
  <2> QED
    BY <2>2, <2>6, <2>9, <2>10
<1>8. CASE RemoveCdev
  <2>1. HeldInv'
    BY <1>8 DEF RemoveCdev, HeldInv, MayHold
  <2> QED
    BY <1>8, <2>1
    DEF RemoveCdev, FileInv, Attached, QuietAfterReset, NoStaleAccess
<1>9. CASE RemoveMapping
  <2>1. HeldInv'
    BY <1>9 DEF RemoveMapping, HeldInv, MayHold
  <2> QED
    BY <1>9, <2>1
    DEF RemoveMapping, FileInv, Attached, QuietAfterReset, NoStaleAccess
<1>10. CASE RemoveIrq
  <2>1. HeldInv' /\ held' \subseteq Resources
    BY <1>10 DEF RemoveIrq, FreeAll, HeldInv, MayHold
  <2>2. FileInv'
    BY <1>10 DEF RemoveIrq, FileInv, Attached
  <2>3. fpc' \in [Files -> {"closed", "open", "orphan"} \cup ReadSteps]
    BY <1>10 DEF RemoveIrq
  <2> QED
    BY <1>10, <2>1, <2>2, <2>3 DEF RemoveIrq, QuietAfterReset, NoStaleAccess
<1>11. CASE Exit
  BY <1>11 DEF Exit, HeldInv, MayHold, FileInv, Attached, QuietAfterReset,
               NoStaleAccess
<1> QED
  BY <1>1, <1>2, <1>3, <1>4, <1>5, <1>6, <1>b, <1>7, <1>8, <1>9, <1>10, <1>11
  DEF Loader

(* The handler finds the registers mapped, but for a load that has failed. *)
LEMMA IsrKeeps == ASSUME IInv, Isr PROVE IInv'
<1>1. /\ UNCHANGED <<pc, held, ier, failed>> /\ gie' = FALSE
      /\ fault = "none" /\ "irq" \in held /\ gie
  BY DEF Isr, Running
<1>2. /\ fpc' \in [Files -> {"closed", "open", "orphan"} \cup ReadSteps]
      /\ \A f \in Files : Attached(f)' <=> Attached(f)
  BY DEF IInv, TypeOK, Isr, WakeUp, ReadSteps, Attached
<1>3. "map" \in held \/ pc = "free_irq"
  BY <1>1
  DEF IInv, TypeOK, HeldInv, MayHold, ProbeSteps, RemoveSteps, Resources
<1>4. fault' = "none" \/ (fault' = "unmapped" /\ failed)
  BY <1>1, <1>3 DEF IInv, TypeOK, Isr, Access, QuietAfterReset, Teardown
<1>5. TypeOK'
  BY <1>1, <1>2, <1>4 DEF IInv, TypeOK
<1>6. HeldInv'
  BY <1>1 DEF IInv, HeldInv, MayHold
<1>7. FileInv'
  BY <1>1, <1>2, <1>4 DEF IInv, FileInv
<1>8. QuietAfterReset' /\ NoStaleAccess'
  BY <1>1, <1>2, <1>4 DEF IInv, QuietAfterReset, NoStaleAccess
<1> QED
  BY <1>5, <1>6, <1>7, <1>8 DEF IInv

(* A file operation finds the registers mapped, but for a load that has    *)
(* failed, and leaves what is held.                                        *)
LEMMA FileKeeps == ASSUME IInv, NEW f \in Files, File(f) PROVE IInv'
<1>1. UNCHANGED <<pc, held, failed>> /\ fault = "none"
  BY DEF File, Open, ReadNow, ReadArm, ReadSleep, Signal, ReadClear, ReadData,
         Write, Release, Stray, Running
<1>2. CASE Stray(f)
  BY <1>1, <1>2
  DEF Stray, IInv, TypeOK, HeldInv, MayHold, FileInv, Attached, QuietAfterReset,
      NoStaleAccess
<1>3. CASE ~Stray(f)
  <2>1. PICK label \in {"closed", "open"} \cup ReadSteps :
          fpc' = [fpc EXCEPT ![f] = label]
    BY <1>3 DEF IInv, TypeOK, File, Open, ReadNow, ReadArm, ReadSleep, Signal,
                ReadClear, ReadData, Write, Release, GoTo, ReadSteps
  <2>2. gie' \in BOOLEAN /\ ier' \in BOOLEAN
    BY <1>3 DEF IInv, TypeOK, File, Open, ReadNow, ReadArm, ReadSleep, Signal,
                ReadClear, ReadData, Write, Release, Arm, Reset
  <2>3. \/ Attached(f)
        \/ /\ Open(f) /\ "cdev" \in held /\ (pc \in RemoveSteps => failed)
    BY <1>3 DEF File, Open, ReadNow, ReadArm, ReadSleep, Signal, ReadClear,
                ReadData, Write, Release, Attached
  <2>4. \/ pc \in {"register", "in"} /\ {"map", "cdev"} \subseteq held
        \/ failed /\ pc \in {"irq_reset"} \cup Teardown
    <3>1. CASE Attached(f)
      BY <3>1 DEF IInv, FileInv
    <3>2. CASE "cdev" \in held /\ (pc \in RemoveSteps => failed)
      <4>1. pc \in {"register", "in", "irq_reset", "cdev_del"}
        BY <1>1, <3>2
        DEF IInv, TypeOK, HeldInv, MayHold, ProbeSteps, RemoveSteps, Resources
      <4>2. "device" \in held
        BY <3>2 DEF IInv, HeldInv
      <4> QED
        BY <1>1, <3>2, <4>1, <4>2 DEF IInv, HeldInv, RemoveSteps, Teardown
    <3> QED
      BY <2>3, <3>1, <3>2
  <2>5. fault' = "none" \/ (fault' = "unmapped" /\ failed)
    <3>1. UNCHANGED fault \/ Access
      BY <1>3 DEF File, Open, ReadNow, ReadArm, ReadSleep, Signal, ReadClear,
                  ReadData, Write, Release
    <3> QED
      BY <1>1, <2>4, <3>1 DEF Access
  <2>6. TypeOK'
    BY <1>1, <2>1, <2>2, <2>5 DEF IInv, TypeOK
  <2>7. HeldInv'
    BY <1>1, <2>5 DEF IInv, HeldInv, MayHold
  <2>8. FileInv'
    <3>1. \A g \in Files : Attached(g)' => g = f \/ Attached(g)
      BY <2>1 DEF IInv, TypeOK, Attached
    <3> QED
      BY <1>1, <2>4, <2>5, <3>1 DEF IInv, FileInv
  <2>9. QuietAfterReset' /\ NoStaleAccess'
    BY <1>1, <2>4, <2>5
    DEF IInv, QuietAfterReset, NoStaleAccess, Teardown
  <2> QED
    BY <2>6, <2>7, <2>8, <2>9 DEF IInv
<1> QED
  BY <1>2, <1>3

(* Whatever the loader, the files and the handler do, what is held agrees  *)
(* with where the loader is, and whoever reads finds the registers mapped, *)
(* unless the load fails after the probe.                                  *)
THEOREM InductiveInvariant == Spec => []IInv
<1>1. Init => IInv
  BY DEF Init, IInv, TypeOK, HeldInv, MayHold, FileInv, Attached,
         QuietAfterReset, NoStaleAccess, Teardown, RemoveSteps
<1>2. IInv /\ [Next]_vars => IInv'
  <2> SUFFICES ASSUME IInv, [Next]_vars PROVE IInv'
    OBVIOUS
  <2>1. CASE UNCHANGED vars
    BY <2>1 DEF vars, IInv, TypeOK, HeldInv, MayHold, FileInv, Attached,
                QuietAfterReset, NoStaleAccess
  <2> QED
    BY <2>1, LoaderKeeps, IsrKeeps, FileKeeps DEF Next
<1> QED
  BY <1>1, <1>2, PTL DEF Spec

(* Nobody touches the registers once they are unmapped, unless the second  *)
(* registration failed and the load itself removed a device that may be    *)
(* open.                                                                   *)
THEOREM NoStaleAccessHolds == Spec => []NoStaleAccess
<1>1. IInv => NoStaleAccess
  BY DEF IInv
<1> QED
  BY <1>1, InductiveInvariant, PTL

(* When rmmod removes the device, nothing is armed and no file is open     *)
(* from teardown's reset until the device is freed.                        *)
THEOREM QuietAfterResetHolds == Spec => []QuietAfterReset
<1>1. IInv => QuietAfterReset
  BY DEF IInv
<1> QED
  BY <1>1, InductiveInvariant, PTL

(* A module that is out keeps at most its minors.                          *)
THEOREM NoLeakHolds == Spec => []NoLeak
<1>1. IInv => NoLeak
  BY DEF IInv, HeldInv, MayHold, NoLeak
<1> QED
  BY <1>1, InductiveInvariant, PTL
=============================================================================
