-------------------------------- MODULE UsbSkel --------------------------------
(***************************************************************************)
(* The USB skeleton (usb/usb-skeleton.c): a device that may be unplugged   *)
(* while it is open, kept by a kref; blocking reads into one buffer, and   *)
(* writes that a urb completes later.                                      *)
(*                                                                         *)
(* The kernel calls skel_open, and skel_disconnect takes, the big kernel   *)
(* lock; before it calls the latter the USB core has ended the urbs.       *)
(***************************************************************************)
EXTENDS Integers, FiniteSets

CONSTANTS
  Files,
  MaxUrbs  \* bound: urbs in flight

VARIABLES
  plugged,   \* the device is there
  probe,     \* where skel_probe is: "no", "set", "done"
  intfdata,  \* the interface has the struct usb_skel
  node,      \* usb_register_dev has given it a minor
  struct,    \* the struct: "none", "live", or "freed"
  kref,
  pc,        \* of each file
  inbuffer,  \* whose data bulk_in_buffer holds
  got,       \* whose data a read has given to the process
  urbs,      \* writes in flight
  fault,     \* what is done to freed memory or through a null pointer
  alone      \* no two reads have been under way at a time

vars == <<plugged, probe, intfdata, node, struct, kref, pc, inbuffer, got, urbs, fault, alone>>

Nobody == "nobody"

Init ==
  /\ plugged = FALSE /\ probe = "no" /\ intfdata = FALSE /\ node = FALSE
  /\ struct = "none" /\ kref = 0
  /\ pc = [f \in Files |-> "closed"]
  /\ inbuffer = Nobody /\ got = [f \in Files |-> f]
  /\ urbs = 0 /\ fault = "none" /\ alone = TRUE

Goto(f, from, to) == pc[f] = from /\ pc' = [pc EXCEPT ![f] = to]
Files_ == UNCHANGED <<pc, inbuffer, got, urbs, alone>>

\* kref_put, with skel_delete.
Put ==
  /\ kref' = kref - 1
  /\ struct' = IF kref = 1 THEN "freed" ELSE struct

-----------------------------------------------------------------------------
(* Plugging and unplugging.                                                *)

\* skel_probe: no memory, or not the endpoints, or the data are set.
Probe ==
  /\ ~plugged /\ struct # "live" /\ plugged' = TRUE
  /\ \/ struct' = "freed" /\ kref' = 0 /\ UNCHANGED <<probe, intfdata>>
     \/ struct' = "live" /\ kref' = 1 /\ probe' = "set" /\ intfdata' = TRUE
  /\ UNCHANGED <<node, fault>> /\ Files_

ProbeRegister ==
  /\ probe = "set"
  /\ \/ probe' = "done" /\ node' = TRUE /\ UNCHANGED <<intfdata, kref, struct>>
     \/ probe' = "no" /\ intfdata' = FALSE /\ Put /\ UNCHANGED node
  /\ UNCHANGED <<plugged, fault>> /\ Files_

\* A device that was not taken is unplugged.
Unplug ==
  /\ plugged /\ probe = "no" /\ plugged' = FALSE
  /\ UNCHANGED <<probe, intfdata, node, struct, kref, fault>> /\ Files_

\* The reads and writes that go on are refused from here on.
Shutdown ==
  /\ plugged /\ probe = "done" /\ plugged' = FALSE
  /\ UNCHANGED <<probe, intfdata, node, struct, kref, fault>> /\ Files_

\* Mutation of Disconnected: the interface keeps its data, and the minor.
DisconnectedLate == UNCHANGED <<intfdata, node>>
Disconnected == intfdata' = FALSE /\ node' = FALSE

Disconnect ==
  /\ ~plugged /\ probe = "done" /\ urbs = 0
  /\ probe' = "put"
  /\ Disconnected
  /\ UNCHANGED <<plugged, struct, kref, fault>> /\ Files_
DisconnectPut ==
  /\ probe = "put" /\ probe' = "no"
  /\ Put
  /\ UNCHANGED <<plugged, intfdata, node, fault>> /\ Files_

-----------------------------------------------------------------------------
(* The files.                                                              *)

\* Mutation of Get: the file takes no reference.
GetNone == UNCHANGED kref
Get == kref' = kref + 1

Open(f) ==
  /\ node /\ intfdata
  /\ Goto(f, "closed", "open")
  /\ Get
  /\ fault' = IF struct = "freed" THEN "used_after_free" ELSE fault
  /\ UNCHANGED <<plugged, probe, intfdata, node, struct, inbuffer, got, urbs, alone>>

Release(f) ==
  /\ Goto(f, "open", "closed")
  /\ Put
  /\ fault' = IF struct = "freed" THEN "used_after_free" ELSE fault
  /\ UNCHANGED <<plugged, probe, intfdata, node, inbuffer, got, urbs, alone>>

Touch == fault' = IF struct = "freed" THEN "used_after_free" ELSE fault
Device == UNCHANGED <<plugged, probe, intfdata, node, struct, kref>>

\* usb_bulk_msg, which fails when the device is gone, or takes too long.
ReadBegin(f) ==
  /\ Goto(f, "open", "reading")
  /\ alone' = (alone /\ \A g \in Files : pc[g] \notin {"reading", "read"})
  /\ Touch /\ Device /\ UNCHANGED <<inbuffer, got, urbs>>
\* Mutation of Failed: what the buffer holds is copied all the same.
FailedCopied(f) == Goto(f, "reading", "read")
Failed(f) == Goto(f, "reading", "open")
ReadFails(f) ==
  /\ Failed(f)
  /\ Touch /\ Device /\ UNCHANGED <<inbuffer, got, urbs, alone>>
ReadDone(f) ==
  /\ plugged /\ Goto(f, "reading", "read")
  /\ inbuffer' = f
  /\ Touch /\ Device /\ UNCHANGED <<got, urbs, alone>>
\* copy_to_user, which may fail.
ReadCopy(f) ==
  /\ Goto(f, "read", "open")
  /\ \/ got' = [got EXCEPT ![f] = inbuffer]
     \/ UNCHANGED got
  /\ Touch /\ Device /\ UNCHANGED <<inbuffer, urbs, alone>>

Write(f) ==
  /\ pc[f] = "open" /\ plugged /\ urbs < MaxUrbs
  /\ urbs' = urbs + 1
  /\ Touch /\ Device /\ UNCHANGED <<pc, inbuffer, got, alone>>

\* The label error: without a urb its transfer_dma is read all the same, and
\* a buffer is given back by usb_buffer_free and by kfree.
WriteError(f) ==
  /\ pc[f] = "open"
  /\ fault' \in {"no_urb", "none", "buffer_freed_twice"}
  /\ Device /\ UNCHANGED <<pc, inbuffer, got, urbs, alone>>

\* The callback, with or without an error.
Callback ==
  /\ urbs > 0 /\ urbs' = urbs - 1
  /\ UNCHANGED <<plugged, probe, intfdata, node, struct, kref, pc, inbuffer, got, fault, alone>>

Stop == fault # "none" /\ UNCHANGED vars

Step(f) ==
  \/ Open(f) \/ Release(f)
  \/ ReadBegin(f) \/ ReadFails(f) \/ ReadDone(f) \/ ReadCopy(f)
  \/ Write(f) \/ WriteError(f)

Next ==
  \/ /\ fault = "none"
     /\ \/ Probe \/ ProbeRegister \/ Unplug \/ Shutdown
        \/ Disconnect \/ DisconnectPut \/ Callback
        \/ \E f \in Files : Step(f)
  \/ Stop

Spec == Init /\ [][Next]_vars

-----------------------------------------------------------------------------
(* Properties.                                                             *)

Opened == {f \in Files : pc[f] # "closed"}

(* The struct is freed when the device is gone and the last file closed,   *)
(* and not before, whatever order they come in; no file reaches it later.  *)
(* Nothing is said of what follows a write that failed.                    *)
FreedByTheLast ==
  /\ fault # "used_after_free"
  /\ struct = "live" <=> kref > 0
  /\ kref = Cardinality(Opened) + (IF probe = "no" THEN 0 ELSE 1)

(* A device that skel_disconnect has left cannot be opened again.          *)
NodeHasDevice == node => intfdata /\ struct = "live" /\ probe = "done"

(* A read gives its process what it has received itself, as long as nobody *)
(* else reads: "no locks are now needed anymore" does not hold of the one  *)
(* buffer all the files share.                                             *)
ReadsItsOwn == alone => \A f \in Files : got[f] = f

(* A USB device that goes while files are open and data is moving.         *)
UsbSafe == FreedByTheLast /\ NodeHasDevice /\ ReadsItsOwn

-----------------------------------------------------------------------------
(* The inductive invariant.                                                *)

TypeInv ==
  /\ plugged \in BOOLEAN /\ intfdata \in BOOLEAN /\ node \in BOOLEAN
  /\ probe \in {"no", "set", "done", "put"}
  /\ struct \in {"none", "live", "freed"} /\ kref \in Nat
  /\ pc \in [Files -> {"closed", "open", "reading", "read"}]
  /\ inbuffer \in Files \cup {Nobody} /\ got \in [Files -> Files \cup {Nobody}]
  /\ alone \in BOOLEAN

\* Between skel_probe and skel_disconnect the interface has its data.
ProbeInv ==
  /\ probe \in {"set", "done"} => intfdata
  /\ node => probe = "done"

\* The one who reads alone finds what it has received in the buffer.
AloneInv ==
  alone => \A f, g \in Files :
    /\ pc[f] \in {"reading", "read"} /\ pc[g] \in {"reading", "read"} => f = g
    /\ pc[f] = "read" => inbuffer = f

IInv == TypeInv /\ FreedByTheLast /\ ProbeInv /\ AloneInv /\ ReadsItsOwn
=============================================================================
