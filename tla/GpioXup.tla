-------------------------------- MODULE GpioXup --------------------------------
(***************************************************************************)
(* The GPIO character driver (old_driver/modules/driver/xps_GPIO_XUP.c)    *)
(* for one device of the device tree: probe and removal, the interrupt     *)
(* handler, and the blocking read that arms the interrupt and waits for it.*)
(*                                                                         *)
(* A file stands for a process that has opened the device.  The kernel     *)
(* lets a module be opened once it has a cdev, though gpio_xup_init has not *)
(* returned, and a load that fails does not wait for who has.  The handler *)
(* runs at once, and uninterrupted (IRQF_DISABLED), when the interrupt is  *)
(* raised.  The status register ISR is written and never read: it is left  *)
(* out.  Registers that the driver writes one after the other are written  *)
(* in one step: an interrupt in between leaves the state it would leave    *)
(* right after.                                                            *)
(***************************************************************************)

CONSTANTS
  Files,        \* the openings of the device
  irq_present,  \* "xlnx,interrupt-present" of the device tree
  is_out        \* not "xlnx,all-inputs"

ASSUME DeviceAssumption == irq_present \in BOOLEAN /\ is_out \in BOOLEAN

VARIABLES
  pc,    \* where gpio_xup_init, the probe, or gpio_xup_exit is
  held,  \* what the module has taken from the kernel and not given back
  gie,   \* registers: interrupts are enabled (GIE),
  ier,   \* and so is the one of the inputs (IER)
  fpc,   \* where each file is: "closed", "open", in a read, or "orphan"
         \* when its device has been freed
  failed, \* platform_driver_register failed, after the probe
  fault  \* "none", or what went wrong

vars == <<pc, held, gie, ier, fpc, failed, fault>>

Resources == {"minors", "device", "region", "map", "irq", "cdev"}
ProbeSteps == {"kzalloc", "request_region", "request_irq", "cdev_add"}
RemoveSteps == {"irq_reset", "cdev_del", "iounmap", "free_irq", "exit"}
ReadSteps == {"sleep_on", "asleep", "awake", "data"}

Init ==
  /\ pc = "out" /\ held = {}
  /\ gie = FALSE /\ ier = FALSE
  /\ fpc = [f \in Files |-> "closed"]
  /\ failed = FALSE /\ fault = "none"

Running == fault = "none"

Take(r) == held' = held \cup r
GiveBack(r) == held' = held \ r

\* A write or a read of the registers, through the mapping.
Access == fault' = IF "map" \in held THEN fault ELSE "unmapped"

Arm == gie' = TRUE /\ ier' = TRUE
Reset == gie' = FALSE /\ ier' = FALSE

-----------------------------------------------------------------------------
(* gpio_xup_init and the probe.                                            *)

\* A failed registration of the first driver leaves the minors reserved, as
\* unregister_chrdev looks for a region of 256 minors.
Insmod ==
  /\ Running /\ pc = "out"
  /\ \/ pc' \in {"kzalloc", "out"} /\ Take({"minors"})
     \/ UNCHANGED <<pc, held>>
  /\ failed' = FALSE
  /\ UNCHANGED <<gie, ier, fpc, fault>>

\* A probe that fails does not make the load fail.
ProbeAlloc ==
  /\ Running /\ pc = "kzalloc"
  /\ \/ pc' = "request_region" /\ Take({"device"})
     \/ pc' = "register" /\ UNCHANGED held
  /\ UNCHANGED <<gie, ier, fpc, failed, fault>>

SetupFailed == GiveBack({"device"})

\* The region may be taken, and ioremap may fail, which is not tested.
ProbeRegion ==
  /\ Running /\ pc = "request_region"
  /\ \/ pc' = "register" /\ SetupFailed
     \/ pc' = "request_irq" /\ (Take({"region"}) \/ Take({"region", "map"}))
  /\ UNCHANGED <<gie, ier, fpc, failed, fault>>

NullMapping == "map" \notin held

\* Without an interrupt, or when request_irq fails, the probe goes on.
ProbeIrq ==
  /\ Running /\ pc = "request_irq"
  /\ pc' = "cdev_add"
  /\ \/ /\ irq_present
        /\ Take({"irq"}) /\ Arm
        /\ fault' = IF NullMapping THEN "null_mapping" ELSE fault
     \/ UNCHANGED <<held, gie, ier, fault>>
  /\ UNCHANGED <<fpc, failed>>

\* The direction of the pins is written; a failed cdev_add is ignored.
ProbeCdev ==
  /\ Running /\ pc = "cdev_add"
  /\ fault' = IF NullMapping THEN "null_mapping" ELSE fault
  /\ Take({"cdev"}) \/ UNCHANGED held
  /\ pc' = "register"
  /\ UNCHANGED <<gie, ier, fpc, failed>>

Removal == IF "device" \in held THEN "irq_reset" ELSE "exit"

\* platform_driver_register, after which the load is over; or it fails, and
\* the device that has been probed is removed, open or not.
PlatformRegister ==
  /\ Running /\ pc = "register"
  /\ \/ pc' = "in" /\ UNCHANGED failed
     \/ pc' = Removal /\ failed' = TRUE
  /\ UNCHANGED <<held, gie, ier, fpc, fault>>

-----------------------------------------------------------------------------
(* gpio_xup_exit and the removal of the device.                            *)

\* Mutation of InUse: the module is not the owner of the cdev.
NeverInUse == FALSE
InUse == \E f \in Files : fpc[f] \notin {"closed", "orphan"}

Rmmod ==
  /\ Running /\ pc = "in" /\ ~InUse
  /\ pc' = Removal
  /\ UNCHANGED <<held, gie, ier, fpc, failed, fault>>

\* Mutation of TeardownReset: the interrupt stays armed.
TeardownKeeps == UNCHANGED <<gie, ier>>
TeardownReset == Reset

RemoveReset ==
  /\ Running /\ pc = "irq_reset" /\ pc' = "cdev_del"
  /\ TeardownReset /\ Access
  /\ UNCHANGED <<held, fpc, failed>>

RemoveCdev ==
  /\ Running /\ pc = "cdev_del" /\ pc' = "iounmap"
  /\ GiveBack({"cdev"})
  /\ UNCHANGED <<gie, ier, fpc, failed, fault>>

RemoveMapping ==
  /\ Running /\ pc = "iounmap" /\ pc' = "free_irq"
  /\ GiveBack({"map", "region"})
  /\ UNCHANGED <<gie, ier, fpc, failed, fault>>

\* Mutation of FreeAll: the interrupt is not freed.
FreeDevice == GiveBack({"device"})
FreeAll == GiveBack({"irq", "device"})

\* free_irq complains when request_irq had failed; then kfree.
RemoveIrq ==
  /\ Running /\ pc = "free_irq" /\ pc' = "exit"
  /\ FreeAll
  /\ fpc' = [f \in Files |-> IF fpc[f] = "closed" THEN "closed" ELSE "orphan"]
  /\ UNCHANGED <<gie, ier, failed, fault>>

Exit ==
  /\ Running /\ pc = "exit" /\ pc' = "out"
  /\ UNCHANGED <<held, gie, ier, fpc, failed, fault>>

-----------------------------------------------------------------------------
(* xps_GPIO_XUP_isr.                                                       *)

\* Mutation of WakeUp: nobody is woken up.
WakeNobody == UNCHANGED fpc
WakeUp ==
  fpc' = [f \in Files |-> IF fpc[f] = "asleep" THEN "awake" ELSE fpc[f]]

\* The inputs change while the interrupt is armed.
Isr ==
  /\ Running /\ gie /\ ier /\ "irq" \in held
  /\ gie' = FALSE
  /\ WakeUp
  /\ Access
  /\ UNCHANGED <<pc, held, ier, failed>>

-----------------------------------------------------------------------------
(* The file operations.                                                    *)

GoTo(f, label) == fpc' = [fpc EXCEPT ![f] = label]

\* The kernel finds the cdev, and rmmod has not begun.
Open(f) ==
  /\ Running /\ fpc[f] = "closed"
  /\ "cdev" \in held
  /\ pc \in RemoveSteps => failed
  /\ GoTo(f, "open")
  /\ UNCHANGED <<pc, held, gie, ier, failed, fault>>

\* A read that does not wait: O_NONBLOCK, or no interrupt.
ReadNow(f) ==
  /\ Running /\ fpc[f] = "open"
  /\ IF irq_present THEN Arm ELSE UNCHANGED <<gie, ier>>
  /\ Access
  /\ UNCHANGED <<pc, held, fpc, failed>>

\* A blocking read arms the interrupt,
ReadArm(f) ==
  /\ Running /\ fpc[f] = "open"
  /\ irq_present
  /\ Arm /\ Access
  /\ GoTo(f, "sleep_on")
  /\ UNCHANGED <<pc, held, failed>>

\* joins the wait queue in interruptible_sleep_on,
ReadSleep(f) ==
  /\ Running /\ fpc[f] = "sleep_on"
  /\ GoTo(f, "asleep")
  /\ UNCHANGED <<pc, held, gie, ier, failed, fault>>

\* which a signal ends as well as the interrupt,
Signal(f) ==
  /\ Running /\ fpc[f] = "asleep"
  /\ GoTo(f, "awake")
  /\ UNCHANGED <<pc, held, gie, ier, failed, fault>>

\* clears the status register
ReadClear(f) ==
  /\ Running /\ fpc[f] = "awake"
  /\ Access
  /\ GoTo(f, "data")
  /\ UNCHANGED <<pc, held, gie, ier, failed>>

\* and reads the pins.
ReadData(f) ==
  /\ Running /\ fpc[f] = "data"
  /\ Access
  /\ GoTo(f, "open")
  /\ UNCHANGED <<pc, held, gie, ier, failed>>

Write(f) ==
  /\ Running /\ fpc[f] = "open"
  /\ IF is_out THEN Access ELSE UNCHANGED fault
  /\ UNCHANGED <<pc, held, gie, ier, fpc, failed>>

\* The last close of a file disarms the interrupt for all of them.
Release(f) ==
  /\ Running /\ fpc[f] = "open"
  /\ IF irq_present THEN Reset /\ Access ELSE UNCHANGED <<gie, ier, fault>>
  /\ GoTo(f, "closed")
  /\ UNCHANGED <<pc, held, failed>>

\* Whatever a file does after its device has been freed: its release, the
\* reader that leaves the wait queue.
Stray(f) ==
  /\ Running /\ fpc[f] = "orphan"
  /\ fault' = "freed_device"
  /\ UNCHANGED <<pc, held, gie, ier, fpc, failed>>

-----------------------------------------------------------------------------
Loader ==
  \/ ProbeAlloc \/ ProbeRegion \/ ProbeIrq \/ ProbeCdev \/ PlatformRegister
  \/ RemoveReset \/ RemoveCdev \/ RemoveMapping \/ RemoveIrq \/ Exit

File(f) ==
  \/ Open(f) \/ ReadNow(f) \/ ReadArm(f) \/ ReadSleep(f) \/ Signal(f)
  \/ ReadClear(f) \/ ReadData(f) \/ Write(f) \/ Release(f) \/ Stray(f)

Next == Insmod \/ Rmmod \/ Loader \/ Isr \/ \E f \in Files : File(f)

Spec == Init /\ [][Next]_vars

(* The inputs change again and again: an armed interrupt comes.            *)
FairSpec == Spec /\ WF_vars(Isr)

-----------------------------------------------------------------------------
(* Properties.                                                             *)

TypeOK ==
  /\ pc \in {"out", "in", "register"} \cup ProbeSteps \cup RemoveSteps
  /\ held \subseteq Resources
  /\ gie \in BOOLEAN /\ ier \in BOOLEAN
  /\ fpc \in [Files -> {"closed", "open", "orphan"} \cup ReadSteps]
  /\ failed \in BOOLEAN
  /\ fault \in {"none", "null_mapping", "unmapped", "freed_device"}

\* The device is not freed under this file yet.
Attached(f) == fpc[f] \notin {"closed", "orphan"}

(* Neither a file operation nor the handler touches the registers once     *)
(* teardown has unmapped them, although it frees the interrupt after that; *)
(* unless it was gpio_xup_init that removed the device, when the second    *)
(* registration failed: then somebody may have opened it before.           *)
NoStaleAccess == fault = "unmapped" => failed

(* Nobody arms the interrupt again after rmmod has had the registers       *)
(* reset, and no reader is left in the driver when the device is freed; a  *)
(* failed second registration waits for nobody.                            *)
Teardown == {"cdev_del", "iounmap", "free_irq"}
QuietAfterReset ==
  pc \in Teardown /\ ~failed => ~gie /\ \A f \in Files : ~Attached(f)

(* Once the module is out it has given back everything but the minors,     *)
(* wherever the probe or the load failed.                                  *)
NoLeak == pc = "out" => held \subseteq {"minors"}

(* If the interrupt is still armed when a reader has gone to sleep, the    *)
(* next change of the inputs wakes it up, unless another file is closed    *)
(* before, which disarms it (only that and a removal clear IER).           *)
ArmedSleeperWakes ==
  \A f \in Files :
    fpc[f] = "asleep" /\ gie /\ ier /\ "irq" \in held ~>
      fpc[f] # "asleep" \/ ~ier \/ fault # "none"

(* "arme les interruptions": a reader that waits for the interrupt has it  *)
(* armed.                                                                  *)
SleepersArmed == \A f \in Files : fpc[f] = "asleep" => gie /\ ier

-----------------------------------------------------------------------------
(* The inductive invariant.                                                *)

\* What may have been taken, from where the loader is.
MayHold ==
  CASE pc \in {"out", "kzalloc", "exit"} -> {"minors"}
    [] pc = "request_region" -> {"minors", "device"}
    [] pc = "request_irq" -> {"minors", "device", "region", "map"}
    [] pc \in {"cdev_add", "iounmap"} -> Resources \ {"cdev"}
    [] pc = "free_irq" -> {"minors", "device", "irq"}
    [] OTHER -> Resources

HeldInv ==
  /\ held \subseteq MayHold
  /\ pc \notin {"out", "kzalloc", "register", "in", "exit"} => "device" \in held
  /\ "device" \notin held => held \subseteq {"minors"}
  /\ "device" \in held /\ pc \in {"register", "in"} \cup RemoveSteps =>
       pc = "free_irq" \/ "map" \in held \/ fault = "null_mapping"
  /\ "irq" \in held /\ pc = "cdev_add" => "map" \in held \/ fault = "null_mapping"
  /\ failed => pc \in RemoveSteps \cup {"out"}

\* A file is open while the device is there for good, or about to be removed
\* by the load that failed.
FileInv ==
  \A f \in Files : Attached(f) =>
    /\ fault # "null_mapping"
    /\ \/ pc \in {"register", "in"} /\ {"map", "cdev"} \subseteq held
       \/ failed /\ pc \in {"irq_reset"} \cup Teardown

(* The resources that are held agree with where the loader is, and files   *)
(* are only open while the registers are mapped, or after a load has       *)
(* failed under them.                                                      *)
IInv == TypeOK /\ HeldInv /\ FileInv /\ QuietAfterReset /\ NoStaleAccess
=============================================================================
