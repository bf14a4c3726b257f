--------------------------------- MODULE VgaOut ---------------------------------
(***************************************************************************)
(* The video output driver (old_driver/modules/driver/xps_VGA_out.c) for   *)
(* one device of the device tree: loading and probe, open and release,     *)
(* removal and unloading.  Another driver may claim the same registers.    *)
(*                                                                         *)
(* The handler, read and write are still to be written in the source: they *)
(* touch neither the registers nor the device, and are left out.  The      *)
(* registers that enable the interrupt are written one after the other;    *)
(* they are one variable.                                                  *)
(***************************************************************************)
CONSTANT Files

VARIABLES
  pc,      \* where vga_out_init, the probe, the removal or vga_out_exit is
  held,    \* what the module has taken from the kernel and not given back
  region,  \* who has the registers: "free", "ours", "theirs"
  enabled, \* the interrupt is enabled: IER, GIER and it_enable
  fpc,     \* of each file: "closed", "open", "orphan" when its device is freed
  going,   \* rmmod unloads the module: it cannot be opened any more
  raced,   \* the other driver took the registers between check and request
  failed,  \* a registration failed after the probe
  fault    \* "none", or what went wrong

vars == <<pc, held, region, enabled, fpc, going, raced, failed, fault>>

Init ==
  /\ pc = "out" /\ held = {} /\ region \in {"free", "theirs"}
  /\ enabled = FALSE /\ fpc = [f \in Files |-> "closed"]
  /\ going = FALSE /\ raced = FALSE /\ failed = FALSE /\ fault = "none"

Goto(from, to) == fault = "none" /\ pc = from /\ pc' = to
Take(r) == held' = held \cup r
GiveBack(r) == held' = held \ r

\* xps_VGA_out_IRQ_reset, through the mapping of the registers.
Reset ==
  /\ enabled' = FALSE
  /\ fault' = IF "map" \in held THEN "none"
              ELSE IF "null" \in held THEN "null_mapping" ELSE "unmapped"

-----------------------------------------------------------------------------
(* Loading.  alloc_chrdev_region or the first registration may fail; the   *)
(* latter leaves the minors reserved.                                      *)

Insmod ==
  /\ \/ Goto("out", "out") /\ (Take({"minors"}) \/ UNCHANGED held)
     \/ Goto("out", "kzalloc") /\ Take({"minors"})
  /\ UNCHANGED <<region, enabled, fpc, going, raced, failed, fault>>

\* The node has no address, or there is no memory for the device: the module
\* stays loaded.
ProbeFails == Goto("kzalloc", "register") /\ UNCHANGED held

Alloc ==
  /\ \/ ProbeFails
     \/ Goto("kzalloc", "check_region") /\ Take({"device"})
  /\ UNCHANGED <<region, enabled, fpc, going, raced, failed, fault>>

\* Mutation of Checked: the result of check_mem_region is not used.
CheckedNot == TRUE
Checked == region = "free"

CheckRegion ==
  /\ \/ Checked /\ Goto("check_region", "request_region") /\ UNCHANGED held
     \/ ~Checked /\ Goto("check_region", "register") /\ GiveBack({"device"})
  /\ UNCHANGED <<region, enabled, fpc, going, raced, failed, fault>>

\* The results of request_mem_region and of ioremap are not tested.
RequestRegion ==
  /\ Goto("request_region", "request_irq")
  /\ region' = IF region = "free" THEN "ours" ELSE region
  /\ Take({"map"}) \/ Take({"null"})
  /\ UNCHANGED <<enabled, fpc, going, raced, failed, fault>>

\* Mutation of NoIrq: the registers are written as if the irq had been given.
NoIrqEnabled == enabled' = TRUE /\ UNCHANGED <<held, fault>>
NoIrq == UNCHANGED <<held, enabled, fault>>

RequestIrq ==
  /\ Goto("request_irq", "cdev_add")
  /\ \/ NoIrq
     \/ /\ Take({"irq"}) /\ enabled' = ("map" \in held)
        /\ fault' = IF "null" \in held THEN "null_mapping" ELSE "none"
  /\ UNCHANGED <<region, fpc, going, raced, failed>>

CdevAdd ==
  /\ Goto("cdev_add", "register")
  /\ Take({"cdev"}) \/ UNCHANGED held
  /\ UNCHANGED <<region, enabled, fpc, going, raced, failed, fault>>

HasDevice == "device" \in held

\* When the second registration fails the device is removed again.
PlatformRegister ==
  /\ \/ Goto("register", "in") /\ UNCHANGED failed
     \/ Goto("register", IF HasDevice THEN "irq_reset" ELSE "exit") /\ failed' = TRUE
  /\ UNCHANGED <<held, region, enabled, fpc, going, raced, fault>>

-----------------------------------------------------------------------------
(* Removal and unloading.                                                  *)

\* Mutation of InUse: the module is not the owner of the cdev.
NeverInUse == FALSE
InUse == \E f \in Files : fpc[f] = "open"

Rmmod ==
  /\ ~InUse /\ Goto("in", IF HasDevice THEN "irq_reset" ELSE "exit")
  /\ going' = TRUE
  /\ UNCHANGED <<held, region, enabled, fpc, raced, failed, fault>>

TeardownReset ==
  /\ Goto("irq_reset", "cdev_del") /\ Reset
  /\ UNCHANGED <<held, region, fpc, going, raced, failed>>

CdevDel ==
  /\ Goto("cdev_del", "iounmap") /\ GiveBack({"cdev"})
  /\ UNCHANGED <<region, enabled, fpc, going, raced, failed, fault>>

\* What is released is the region, whoever has it.
Unmap ==
  /\ Goto("iounmap", "free_irq") /\ GiveBack({"map", "null"})
  /\ region' = "free"
  /\ fault' = IF region = "theirs" THEN "their_region_released" ELSE "none"
  /\ UNCHANGED <<enabled, fpc, going, raced, failed>>

\* free_irq, and kfree: the files that are open are left without a device.
FreeDevice ==
  /\ Goto("free_irq", "exit") /\ GiveBack({"irq", "device"})
  /\ fpc' = [f \in Files |-> IF fpc[f] = "open" THEN "orphan" ELSE fpc[f]]
  /\ UNCHANGED <<region, enabled, going, raced, failed, fault>>

Exit ==
  /\ Goto("exit", "out") /\ going' = FALSE
  /\ UNCHANGED <<held, region, enabled, fpc, raced, failed, fault>>

-----------------------------------------------------------------------------
(* Files, and the other driver.                                            *)

Open(f) ==
  /\ fault = "none" /\ "cdev" \in held /\ ~going
  /\ fpc[f] = "closed" /\ fpc' = [fpc EXCEPT ![f] = "open"]
  /\ UNCHANGED <<pc, held, region, enabled, going, raced, failed, fault>>

Release(f) ==
  /\ fault = "none"
  /\ fpc' = [fpc EXCEPT ![f] = "closed"]
  /\ \/ fpc[f] = "open" /\ Reset
     \/ fpc[f] = "orphan" /\ fault' = "freed_device" /\ UNCHANGED enabled
  /\ UNCHANGED <<pc, held, region, going, raced, failed>>

Other ==
  /\ fault = "none"
  /\ \/ region = "free" /\ region' = "theirs" /\ raced' = (raced \/ pc = "request_region")
     \/ region = "theirs" /\ region' = "free" /\ UNCHANGED raced
  /\ UNCHANGED <<pc, held, enabled, fpc, going, failed, fault>>

Stop == fault # "none" /\ UNCHANGED vars

Next ==
  \/ Insmod \/ Alloc \/ CheckRegion \/ RequestRegion \/ RequestIrq \/ CdevAdd
  \/ PlatformRegister
  \/ Rmmod \/ TeardownReset \/ CdevDel \/ Unmap \/ FreeDevice \/ Exit
  \/ \E f \in Files : Open(f) \/ Release(f)
  \/ Other \/ Stop

Spec == Init /\ [][Next]_vars

-----------------------------------------------------------------------------
(* Properties.                                                             *)

(* The device interrupts only while the handler is installed: the probe    *)
(* goes on when request_irq has failed, and the removal frees the irq long *)
(* after the registers are unmapped.                                       *)
EnabledHandled == enabled => {"irq", "map"} \subseteq held

(* A file that is open has its device and the mapping of its registers,    *)
(* unless the second registration of vga_out_init has failed: the device   *)
(* could be opened before that, and is removed and freed under the file.   *)
FilesKeepDevice ==
  fault \in {"unmapped", "freed_device"} \/ (\E f \in Files : fpc[f] = "orphan")
    => failed

(* The removal takes the region of another driver away from it only if     *)
(* that one took it between check_mem_region and request_mem_region.       *)
TheirRegionOnlyInRace == fault = "their_region_released" => raced

(* The VGA driver, from a load that may fail anywhere to the unload.       *)
VgaSafe == EnabledHandled /\ FilesKeepDevice /\ TheirRegionOnlyInRace
=============================================================================
