----------------------------- MODULE VgaOutProofs -----------------------------
(***************************************************************************)
(* What the VGA driver keeps to, for any number of files: an inductive     *)
(* invariant that says, for each point of the loading and the removal,     *)
(* what the module may hold, and the safety properties that follow.        *)
(***************************************************************************)
EXTENDS VgaOut, TLAPS

Probing == {"request_irq", "cdev_add"}
Loaded == {"register", "in"}
Removing == {"irq_reset", "cdev_del", "iounmap", "free_irq", "exit"}

Resources == {"minors", "device", "map", "null", "irq", "cdev"}

(* Types, and what may be held at each point.                              *)
HeldInv ==
  /\ pc \in {"out", "kzalloc", "check_region", "request_region"}
              \cup Probing \cup Loaded \cup Removing
  /\ held \subseteq Resources
  /\ region \in {"free", "ours", "theirs"}
  /\ fpc \in [Files -> {"closed", "open", "orphan"}]
  /\ "device" \notin held => held \subseteq {"minors"}
  /\ pc \in {"out", "kzalloc", "exit"} => "device" \notin held
  /\ pc \in {"check_region", "request_region"} => held \subseteq {"minors", "device"}
  /\ pc = "request_irq" => "irq" \notin held
  /\ "cdev" \in held => pc \in Loaded \cup {"irq_reset", "cdev_del"}
  /\ pc = "free_irq" => "map" \notin held /\ "null" \notin held
  /\ pc \in {"check_region", "request_region"} \cup Probing \cup (Removing \ {"exit"})
       => "device" \in held

(* Only the reset makes the way free for the unmapping.                    *)
EnabledInv ==
  /\ EnabledHandled
  /\ pc \in Removing \ {"irq_reset"} => ~enabled

(* The registers are mapped, well or not, as long as they may be used.     *)
MappedInv ==
  "device" \in held /\ pc \in Probing \cup Loaded \cup {"irq_reset", "cdev_del", "iounmap"}
    => "map" \in held \/ "null" \in held

(* Unless a registration failed, a removal finds no file and lets none be  *)
(* opened.                                                                 *)
FileInv ==
  /\ FilesKeepDevice
  /\ ~failed =>
       /\ \A f \in Files : fpc[f] = "open" => pc \in Loaded /\ "device" \in held
       /\ pc \in Removing => going \/ "cdev" \notin held

(* The region is the driver's own from the check to the unmapping, but for *)
(* the race.                                                               *)
RegionInv ==
  /\ TheirRegionOnlyInRace
  /\ pc = "request_region" => region = "free" \/ raced
  /\ "device" \in held /\ pc \in Probing \cup Loaded \cup {"irq_reset", "cdev_del", "iounmap"}
       => region = "ours" \/ raced

IInv == HeldInv /\ EnabledInv /\ MappedInv /\ FileInv /\ RegionInv

-----------------------------------------------------------------------------
(* The definitions that a step or an invariant is made of.                 *)
USE DEF Goto, Take, GiveBack, Probing, Loaded, Removing, Resources

LEMMA InitIInv == Init => IInv
BY DEF Init, IInv, HeldInv, EnabledInv, MappedInv, FileInv, RegionInv, EnabledHandled,
       FilesKeepDevice, TheirRegionOnlyInRace

LEMMA InsmodStep ==
  ASSUME IInv, Insmod PROVE IInv'
<1> USE DEF Insmod
<1>1. HeldInv'
  BY DEF IInv, HeldInv
<1>2. EnabledInv'
  BY DEF IInv, HeldInv, EnabledInv, EnabledHandled
<1>3. MappedInv'
  BY DEF IInv, HeldInv, MappedInv
<1>4. FileInv'
  BY DEF IInv, HeldInv, MappedInv, FileInv, FilesKeepDevice
<1>5. RegionInv'
  BY DEF IInv, HeldInv, RegionInv, TheirRegionOnlyInRace
<1> QED  BY <1>1, <1>2, <1>3, <1>4, <1>5 DEF IInv

LEMMA AllocStep ==
  ASSUME IInv, Alloc PROVE IInv'
<1> USE DEF Alloc, ProbeFails
<1>1. HeldInv'
  BY DEF IInv, HeldInv
<1>2. EnabledInv'
  BY DEF IInv, HeldInv, EnabledInv, EnabledHandled
<1>3. MappedInv'
  BY DEF IInv, HeldInv, MappedInv
<1>4. FileInv'
  BY DEF IInv, HeldInv, MappedInv, FileInv, FilesKeepDevice
<1>5. RegionInv'
  BY DEF IInv, HeldInv, RegionInv, TheirRegionOnlyInRace
<1> QED  BY <1>1, <1>2, <1>3, <1>4, <1>5 DEF IInv

LEMMA CheckRegionStep ==
  ASSUME IInv, CheckRegion PROVE IInv'
<1> USE DEF CheckRegion, Checked
<1>1. HeldInv'
  BY DEF IInv, HeldInv
<1>2. EnabledInv'
  BY DEF IInv, HeldInv, EnabledInv, EnabledHandled
<1>3. MappedInv'
  BY DEF IInv, HeldInv, MappedInv
<1>4. FileInv'
  BY DEF IInv, HeldInv, MappedInv, FileInv, FilesKeepDevice
<1>5. RegionInv'
  BY DEF IInv, HeldInv, RegionInv, TheirRegionOnlyInRace
<1> QED  BY <1>1, <1>2, <1>3, <1>4, <1>5 DEF IInv

LEMMA RequestRegionStep ==
  ASSUME IInv, RequestRegion PROVE IInv'
<1> USE DEF RequestRegion
<1>1. HeldInv'
  BY DEF IInv, HeldInv
<1>2. EnabledInv'
  BY DEF IInv, HeldInv, EnabledInv, EnabledHandled
<1>3. MappedInv'
  BY DEF IInv, HeldInv, MappedInv
<1>4. FileInv'
  BY DEF IInv, HeldInv, MappedInv, FileInv, FilesKeepDevice
<1>5. RegionInv'
  BY DEF IInv, HeldInv, RegionInv, TheirRegionOnlyInRace
<1> QED  BY <1>1, <1>2, <1>3, <1>4, <1>5 DEF IInv

LEMMA RequestIrqStep ==
  ASSUME IInv, RequestIrq PROVE IInv'
<1> USE DEF RequestIrq, NoIrq
<1>1. HeldInv'
  <2>1. held' \in {held, held \cup {"irq"}} /\ pc' = "cdev_add" /\ pc = "request_irq"
    OBVIOUS
  <2> QED  BY <2>1 DEF IInv, HeldInv
<1>2. EnabledInv'
  <2>1. CASE NoIrq
    BY <2>1 DEF IInv, HeldInv, EnabledInv, EnabledHandled
  <2>2. CASE Take({"irq"}) /\ enabled' = ("map" \in held)
    <3>1. enabled' => "map" \in held
      BY <2>2
    <3> QED  BY <2>2, <3>1 DEF IInv, HeldInv, EnabledInv, EnabledHandled
  <2> QED  BY <2>1, <2>2
<1>3. MappedInv'
  BY DEF IInv, HeldInv, MappedInv
<1>4. FileInv'
  BY DEF IInv, HeldInv, MappedInv, FileInv, FilesKeepDevice
<1>5. RegionInv'
  BY DEF IInv, HeldInv, RegionInv, TheirRegionOnlyInRace
<1> QED  BY <1>1, <1>2, <1>3, <1>4, <1>5 DEF IInv

LEMMA CdevAddStep ==
  ASSUME IInv, CdevAdd PROVE IInv'
<1> USE DEF CdevAdd
<1>1. HeldInv'
  BY DEF IInv, HeldInv
<1>2. EnabledInv'
  BY DEF IInv, HeldInv, EnabledInv, EnabledHandled
<1>3. MappedInv'
  BY DEF IInv, HeldInv, MappedInv
<1>4. FileInv'
  BY DEF IInv, HeldInv, MappedInv, FileInv, FilesKeepDevice
<1>5. RegionInv'
  BY DEF IInv, HeldInv, RegionInv, TheirRegionOnlyInRace
<1> QED  BY <1>1, <1>2, <1>3, <1>4, <1>5 DEF IInv

LEMMA PlatformRegisterStep ==
  ASSUME IInv, PlatformRegister PROVE IInv'
<1> USE DEF PlatformRegister, HasDevice
<1>1. HeldInv'
  BY DEF IInv, HeldInv
<1>2. EnabledInv'
  BY DEF IInv, HeldInv, EnabledInv, EnabledHandled
<1>3. MappedInv'
  BY DEF IInv, HeldInv, MappedInv
<1>4. FileInv'
  BY DEF IInv, HeldInv, MappedInv, FileInv, FilesKeepDevice
<1>5. RegionInv'
  BY DEF IInv, HeldInv, RegionInv, TheirRegionOnlyInRace
<1> QED  BY <1>1, <1>2, <1>3, <1>4, <1>5 DEF IInv

LEMMA RmmodStep ==
  ASSUME IInv, Rmmod PROVE IInv'
<1> USE DEF Rmmod, HasDevice, InUse
<1>1. HeldInv'
  BY DEF IInv, HeldInv
<1>2. EnabledInv'
  BY DEF IInv, HeldInv, EnabledInv, EnabledHandled
<1>3. MappedInv'
  BY DEF IInv, HeldInv, MappedInv
<1>4. FileInv'
  BY DEF IInv, HeldInv, MappedInv, FileInv, FilesKeepDevice
<1>5. RegionInv'
  BY DEF IInv, HeldInv, RegionInv, TheirRegionOnlyInRace
<1> QED  BY <1>1, <1>2, <1>3, <1>4, <1>5 DEF IInv

LEMMA TeardownResetStep ==
  ASSUME IInv, TeardownReset PROVE IInv'
<1> USE DEF TeardownReset, Reset
<1>1. HeldInv'
  BY DEF IInv, HeldInv
<1>2. EnabledInv'
  BY DEF IInv, HeldInv, EnabledInv, EnabledHandled
<1>3. MappedInv'
  BY DEF IInv, HeldInv, MappedInv
<1>4. FileInv'
  BY DEF IInv, HeldInv, MappedInv, FileInv, FilesKeepDevice
<1>5. RegionInv'
  BY DEF IInv, HeldInv, RegionInv, TheirRegionOnlyInRace
<1> QED  BY <1>1, <1>2, <1>3, <1>4, <1>5 DEF IInv

LEMMA CdevDelStep ==
  ASSUME IInv, CdevDel PROVE IInv'
<1> USE DEF CdevDel
<1>1. HeldInv'
  BY DEF IInv, HeldInv
<1>2. EnabledInv'
  BY DEF IInv, HeldInv, EnabledInv, EnabledHandled
<1>3. MappedInv'
  BY DEF IInv, HeldInv, MappedInv
<1>4. FileInv'
  BY DEF IInv, HeldInv, MappedInv, FileInv, FilesKeepDevice
<1>5. RegionInv'
  BY DEF IInv, HeldInv, RegionInv, TheirRegionOnlyInRace
<1> QED  BY <1>1, <1>2, <1>3, <1>4, <1>5 DEF IInv

LEMMA UnmapStep ==
  ASSUME IInv, Unmap PROVE IInv'
<1> USE DEF Unmap
<1>1. HeldInv'
  BY DEF IInv, HeldInv
<1>2. EnabledInv'
  BY DEF IInv, HeldInv, EnabledInv, EnabledHandled
<1>3. MappedInv'
  BY DEF IInv, HeldInv, MappedInv
<1>4. FileInv'
  BY DEF IInv, HeldInv, MappedInv, FileInv, FilesKeepDevice
<1>5. RegionInv'
  BY DEF IInv, HeldInv, RegionInv, TheirRegionOnlyInRace
<1> QED  BY <1>1, <1>2, <1>3, <1>4, <1>5 DEF IInv

LEMMA FreeDeviceStep ==
  ASSUME IInv, FreeDevice PROVE IInv'
<1> USE DEF FreeDevice
<1>1. HeldInv'
  <2>1. fpc' \in [Files -> {"closed", "open", "orphan"}]
    BY DEF IInv, HeldInv
  <2>2. held' = held \ {"irq", "device"} /\ pc' = "exit" /\ pc = "free_irq"
    OBVIOUS
  <2>3. held \subseteq Resources /\ held \cap {"map", "null", "cdev"} = {}
    BY <2>2 DEF IInv, HeldInv
  <2> QED  BY <2>1, <2>2, <2>3 DEF IInv, HeldInv
<1>2. EnabledInv'
  BY DEF IInv, HeldInv, EnabledInv, EnabledHandled
<1>3. MappedInv'
  BY DEF IInv, HeldInv, MappedInv
<1>4. FileInv'
  BY DEF IInv, HeldInv, MappedInv, FileInv, FilesKeepDevice
<1>5. RegionInv'
  BY DEF IInv, HeldInv, RegionInv, TheirRegionOnlyInRace
<1> QED  BY <1>1, <1>2, <1>3, <1>4, <1>5 DEF IInv

LEMMA ExitStep ==
  ASSUME IInv, Exit PROVE IInv'
<1> USE DEF Exit
<1>1. HeldInv'
  BY DEF IInv, HeldInv
<1>2. EnabledInv'
  BY DEF IInv, HeldInv, EnabledInv, EnabledHandled
<1>3. MappedInv'
  BY DEF IInv, HeldInv, MappedInv
<1>4. FileInv'
  BY DEF IInv, HeldInv, MappedInv, FileInv, FilesKeepDevice
<1>5. RegionInv'
  BY DEF IInv, HeldInv, RegionInv, TheirRegionOnlyInRace
<1> QED  BY <1>1, <1>2, <1>3, <1>4, <1>5 DEF IInv

LEMMA OpenStep ==
  ASSUME IInv, NEW f \in Files, Open(f) PROVE IInv'
<1> USE DEF Open
<1>1. HeldInv'
  BY DEF IInv, HeldInv
<1>2. EnabledInv'
  BY DEF IInv, HeldInv, EnabledInv, EnabledHandled
<1>3. MappedInv'
  BY DEF IInv, HeldInv, MappedInv
<1>4. FileInv'
  BY DEF IInv, HeldInv, MappedInv, FileInv, FilesKeepDevice
<1>5. RegionInv'
  BY DEF IInv, HeldInv, RegionInv, TheirRegionOnlyInRace
<1> QED  BY <1>1, <1>2, <1>3, <1>4, <1>5 DEF IInv

LEMMA ReleaseStep ==
  ASSUME IInv, NEW f \in Files, Release(f) PROVE IInv'
<1> USE DEF Release, Reset
<1>1. HeldInv'
  BY DEF IInv, HeldInv
<1>2. EnabledInv'
  <2>1. CASE Reset
    <3>1. ~enabled'
      BY <2>1
    <3> QED  BY <3>1 DEF EnabledInv, EnabledHandled
  <2>2. CASE UNCHANGED enabled
    <3>1. UNCHANGED <<pc, held, enabled>>
      BY <2>2
    <3>2. EnabledInv
      BY DEF IInv
    <3> QED  BY <3>1, <3>2 DEF EnabledInv, EnabledHandled
  <2> QED  BY <2>1, <2>2
<1>3. MappedInv'
  BY DEF IInv, HeldInv, MappedInv
<1>4. FileInv'
  BY DEF IInv, HeldInv, MappedInv, FileInv, FilesKeepDevice
<1>5. RegionInv'
  BY DEF IInv, HeldInv, RegionInv, TheirRegionOnlyInRace
<1> QED  BY <1>1, <1>2, <1>3, <1>4, <1>5 DEF IInv

LEMMA OtherStep ==
  ASSUME IInv, Other PROVE IInv'
<1> USE DEF Other
<1>0. (raced \/ (region = "free" /\ pc = "request_region")) => raced'
  OBVIOUS
<1>1. HeldInv'
  BY DEF IInv, HeldInv
<1>2. EnabledInv'
  BY DEF IInv, HeldInv, EnabledInv, EnabledHandled
<1>3. MappedInv'
  BY DEF IInv, HeldInv, MappedInv
<1>4. FileInv'
  BY DEF IInv, HeldInv, MappedInv, FileInv, FilesKeepDevice
<1>5. RegionInv'
  BY <1>0 DEF IInv, HeldInv, RegionInv, TheirRegionOnlyInRace
<1> QED  BY <1>1, <1>2, <1>3, <1>4, <1>5 DEF IInv

LEMMA StutterStep ==
  ASSUME IInv, UNCHANGED vars PROVE IInv'
<1> USE DEF vars
<1>1. HeldInv'
  BY DEF IInv, HeldInv
<1>2. EnabledInv' /\ MappedInv'
  BY DEF IInv, EnabledInv, EnabledHandled, MappedInv
<1>3. FileInv' /\ RegionInv'
  BY DEF IInv, FileInv, FilesKeepDevice, RegionInv, TheirRegionOnlyInRace
<1> QED  BY <1>1, <1>2, <1>3 DEF IInv

LEMMA NextIInv == IInv /\ [Next]_vars => IInv'
<1> SUFFICES ASSUME IInv, [Next]_vars PROVE IInv'
  OBVIOUS
<1>1. CASE Next
  BY <1>1, InsmodStep, AllocStep, CheckRegionStep, RequestRegionStep, RequestIrqStep,
     CdevAddStep, PlatformRegisterStep, RmmodStep, TeardownResetStep, CdevDelStep,
     UnmapStep, FreeDeviceStep, ExitStep, OpenStep, ReleaseStep, OtherStep, StutterStep
  DEF Next, Stop
<1>2. CASE UNCHANGED vars
  BY <1>2, StutterStep
<1> QED  BY <1>1, <1>2

LEMMA SafeIInv == IInv => VgaSafe
BY DEF IInv, EnabledInv, FileInv, RegionInv, VgaSafe

(* The inductive invariant holds throughout.                               *)
THEOREM InductiveInvariant == Spec => []IInv
BY InitIInv, NextIInv, PTL DEF Spec

(* The VGA driver keeps its promises: its interrupt comes only while it is *)
(* handled, a file that is open keeps its device unless the second         *)
(* registration failed, and the region of another is released only after   *)
(* a race (vga_out_setup, vga_out_teardown, vga_out_init).                 *)
THEOREM VgaSafeHolds == Spec => []VgaSafe
BY SafeIInv, InductiveInvariant, PTL
=============================================================================
