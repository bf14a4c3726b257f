----------------------------- MODULE MCExamples -------------------------------
(***************************************************************************)
(* The modules whose properties need no fairness, on small instances, one  *)
(* at a time: "loaded" says which one takes the steps, and the state of    *)
(* the others stays at one of their initial states.                        *)
(***************************************************************************)
EXTENDS Integers, Sequences, FiniteSets, TLC

CONSTANTS
  Procs, Bytes, Junk, Quanta, SlabQuanta, Qsets, Orders, PageQsets, MaxPos,
  SlabMaxPos, BareDevs, PipeDevs, AccessDevs, Readers, Lines, Times, MaxIrqs,
  Trials, MaxTries, Users, Sectors, Files, MaxUrbs, TtyProcs, MaxPorts,
  MaxOpens

ASSUME GeometryAssumption ==
  Quanta \cup Qsets \cup SlabQuanta \subseteq Nat \ {0} /\ Junk \notin Bytes
ASSUME OrderAssumption == Orders \subseteq Nat /\ PageQsets \subseteq Nat \ {0}
ASSUME RingAssumption ==
  Lines \in Nat \ {0} /\ Times \in Nat \ {0} /\ MaxIrqs \in Nat
ASSUME PositionsAssumption == SlabMaxPos \in Nat /\ MaxPos \in Nat
ASSUME LineAssumption == Trials \subseteq Nat \ {0}
(* Each of the three parts of scull has cdevs of its own.                  *)
ASSUME CdevsAssumption ==
  /\ BareDevs \cap PipeDevs = {} /\ BareDevs \cap AccessDevs = {}
  /\ PipeDevs \cap AccessDevs = {}
ASSUME ProcsAssumption == IsFiniteSet(Procs)
ASSUME FilesAssumption == IsFiniteSet(Files)
ASSUME UsersAssumption == IsFiniteSet(Users) /\ "nobody" \notin Users
ASSUME SectorsAssumption == Sectors \in Nat
ASSUME TtyAssumption == IsFiniteSet(TtyProcs) /\ MaxPorts \in Nat

(* SCULL_QUANTUM and SCULL_QSET, and those of scullc.                      *)
MemDefault == [quantum |-> 2, qset |-> 1]
SlabDefault == [quantum |-> 1, qset |-> 1]
(* The defaults are among what ioctl may set, and an int has a greatest    *)
(* value.                                                                  *)
ASSUME MemDefaultAssumption == MemDefault \in [quantum : Quanta, qset : Qsets]
ASSUME QuantaAssumption == \E most \in Quanta : \A q \in Quanta : q <= most
(* SCULLP_ORDER and SCULLP_QSET.                                           *)
PageDefault == [order |-> 0, qset |-> 1]

VARIABLES
  loaded,  \* which of the modules is checked
  mem_dev, mem_defaults, mem_pc, call, mixed,
  load_pc, regions, load_arrays, cdevs, proc, misuse,
  items, geometry, size, page_defaults, vmas, maps, page_calls, page_pc,
  page_broken,
  slab_phase, cdev, cache, slab_defaults, slab_dev, slab_arrays, objects,
  slab_pc, slab_calls, raised, slab_broken,
  mode, head, tail, fresh, tv_head, tv_tail, untold, wq_count, scheduled,
  ring_bh, savecount, ring_pc, count0, overrun, ring_raced, spurious, reread,
  short_phase, use_mem, irq, short_probe, share, short_bh, short_region,
  mapped, chrdev, buffer, short_irq, tried, fired, count, handler, reporting,
  pending,
  sbull_phase, request_mode, major, memory, queue, gd, disk, users,
  media_change, timer, opener, sbull_pc, at, seen, lock, insane,
  plugged, usb_probe, intfdata, node, struct, kref, usb_pc, inbuffer, got,
  urbs, usb_fault, alone,
  tty_loaded, table, driver_data, port, used, tty_pc, mine, tty_fault,
  overlapped,
  vga_pc, held, vga_region, enabled, fpc, going, vga_raced, failed, vga_fault

memVars ==
  <<mem_dev, mem_defaults, mem_pc, call, mixed>>
loadVars ==
  <<load_pc, regions, load_arrays, cdevs, proc, misuse>>
pageVars ==
  <<items, geometry, size, page_defaults, vmas, maps, page_calls, page_pc,
    page_broken>>
slabVars ==
  <<slab_phase, cdev, cache, slab_defaults, slab_dev, slab_arrays, objects,
    slab_pc, slab_calls, raised, slab_broken>>
ringVars ==
  <<mode, head, tail, fresh, tv_head, tv_tail, untold, wq_count, scheduled,
    ring_bh, savecount, ring_pc, count0, overrun, ring_raced, spurious, reread>>
shortVars ==
  <<short_phase, use_mem, irq, short_probe, share, short_bh, short_region,
    mapped, chrdev, buffer, short_irq, tried, fired, count, handler,
    reporting, pending>>
sbullVars ==
  <<sbull_phase, request_mode, major, memory, queue, gd, disk, users,
    media_change, timer, opener, sbull_pc, at, seen, lock, insane>>
usbVars ==
  <<plugged, usb_probe, intfdata, node, struct, kref, usb_pc, inbuffer, got,
    urbs, usb_fault, alone>>
ttyVars ==
  <<tty_loaded, table, driver_data, port, used, tty_pc, mine, tty_fault,
    overlapped>>
vgaVars ==
  <<vga_pc, held, vga_region, enabled, fpc, going, vga_raced, failed,
    vga_fault>>
vars ==
  <<loaded, memVars, loadVars, pageVars, slabVars, ringVars, shortVars,
    sbullVars, usbVars, ttyVars, vgaVars>>

Mem == INSTANCE ScullMem WITH
  dev <- mem_dev, defaults <- mem_defaults, pc <- mem_pc,
  Default <- MemDefault
Load == INSTANCE ScullLoad WITH
  pc <- load_pc, arrays <- load_arrays
Page == INSTANCE ScullPage WITH
  defaults <- page_defaults, calls <- page_calls, pc <- page_pc,
  broken <- page_broken, Default <- PageDefault, Qsets <- PageQsets,
  MaxPos <- SlabMaxPos
Slab == INSTANCE ScullSlab WITH
  phase <- slab_phase, defaults <- slab_defaults, dev <- slab_dev,
  arrays <- slab_arrays, pc <- slab_pc, calls <- slab_calls,
  broken <- slab_broken, Quanta <- SlabQuanta, Default <- SlabDefault,
  MaxPos <- SlabMaxPos
Ring == INSTANCE ShortRing WITH
  bh <- ring_bh, pc <- ring_pc, raced <- ring_raced, MaxCount <- MaxIrqs
Short == INSTANCE ShortLoad WITH
  phase <- short_phase, probe <- short_probe, bh <- short_bh,
  region <- short_region
Disk == INSTANCE Sbull WITH
  phase <- sbull_phase, pc <- sbull_pc
Usb == INSTANCE UsbSkel WITH
  probe <- usb_probe, pc <- usb_pc, fault <- usb_fault
Tty == INSTANCE TinyTty WITH
  loaded <- tty_loaded, pc <- tty_pc, fault <- tty_fault, Procs <- TtyProcs
Vga == INSTANCE VgaOut WITH
  pc <- vga_pc, region <- vga_region, raced <- vga_raced, fault <- vga_fault

Init ==
  /\ loaded \in {"mem", "load", "page", "slab", "ring", "short", "sbull", "usb", "tty", "vga"}
  /\ Mem!Init
  /\ Load!Init
  /\ Page!Init
  /\ Slab!Init
  /\ Ring!Init
  /\ Short!Init
  /\ Disk!Init
  /\ Usb!Init
  /\ Tty!Init
  /\ Vga!Init
  /\ loaded # "slab" => slab_defaults = SlabDefault
  /\ loaded # "ring" => mode = "direct"
  /\ loaded # "short" =>
       ~use_mem /\ irq = -1 /\ short_probe = 0 /\ ~share /\ short_bh = "none"
  /\ loaded # "sbull" => request_mode = "RM_SIMPLE"
  /\ loaded # "vga" => vga_region = "free"

Next ==
  \/ /\ loaded = "mem" /\ Mem!Next
     /\ UNCHANGED <<loaded, loadVars, pageVars, slabVars, ringVars, shortVars,
                   sbullVars, usbVars, ttyVars, vgaVars>>
  \/ /\ loaded = "load" /\ Load!Next
     /\ UNCHANGED <<loaded, memVars, pageVars, slabVars, ringVars, shortVars,
                   sbullVars, usbVars, ttyVars, vgaVars>>
  \/ /\ loaded = "page" /\ Page!Next
     /\ UNCHANGED <<loaded, memVars, loadVars, slabVars, ringVars, shortVars,
                   sbullVars, usbVars, ttyVars, vgaVars>>
  \/ /\ loaded = "slab" /\ Slab!Next
     /\ UNCHANGED <<loaded, memVars, loadVars, pageVars, ringVars, shortVars,
                   sbullVars, usbVars, ttyVars, vgaVars>>
  \/ /\ loaded = "ring" /\ Ring!Next
     /\ UNCHANGED <<loaded, memVars, loadVars, pageVars, slabVars, shortVars,
                   sbullVars, usbVars, ttyVars, vgaVars>>
  \/ /\ loaded = "short" /\ Short!Next
     /\ UNCHANGED <<loaded, memVars, loadVars, pageVars, slabVars, ringVars,
                   sbullVars, usbVars, ttyVars, vgaVars>>
  \/ /\ loaded = "sbull" /\ Disk!Next
     /\ UNCHANGED <<loaded, memVars, loadVars, pageVars, slabVars, ringVars,
                   shortVars, usbVars, ttyVars, vgaVars>>
  \/ /\ loaded = "usb" /\ Usb!Next
     /\ UNCHANGED <<loaded, memVars, loadVars, pageVars, slabVars, ringVars,
                   shortVars, sbullVars, ttyVars, vgaVars>>
  \/ /\ loaded = "tty" /\ Tty!Next
     /\ UNCHANGED <<loaded, memVars, loadVars, pageVars, slabVars, ringVars,
                   shortVars, sbullVars, usbVars, vgaVars>>
  \/ /\ loaded = "vga" /\ Vga!Next
     /\ UNCHANGED <<loaded, memVars, loadVars, pageVars, slabVars, ringVars,
                   shortVars, sbullVars, usbVars, ttyVars>>

Spec == Init /\ [][Next]_vars

-----------------------------------------------------------------------------
(* scull: the device is a file of bytes, whatever its geometry, and is     *)
(* laid out for the geometry it has. (The steps of the other modules do    *)
(* not change it.)                                                         *)
ImplementsFile ==
  /\ Mem!File!Init /\ [][loaded = "mem" => Mem!File!Next]_(Mem!AsFile(mem_dev))
  /\ []Mem!TypeOK

(* loading scull: an unload or a failed load leaves nothing, and deletes   *)
(* only what was set up, but for the cdevs of access.c.                    *)
LoadSafe == Load!LoadSafe

(* scullp: a mapped page is not freed, and a write stays in its block.     *)
PagesSafe == Page!PagesSafe

(* scullc: the cache fits its objects, and is there when it is needed.     *)
SlabSafe == Slab!SlabSafe

(* short: a line is read once, a time reported once, and nobody sleeps on  *)
(* what has come.                                                          *)
RingSafe == Ring!RingSafe

(* short: the line that the probe finds, and what the unload leaves.       *)
ShortSafe == Short!ShortSafe

(* sbull: its timer, its requests, and its end.                            *)
DiskSafe == Disk!DiskSafe

(* usb-skeleton: the struct lives as long as somebody refers to it.        *)
UsbSafe == Usb!UsbSafe

(* tiny_tty: the timer runs just while the port is open.                   *)
TtySafe == Tty!TtySafe

(* xps_VGA_out: the interrupt, the files and the region.                   *)
VgaSafe == Vga!VgaSafe

==============================================================================
