----------------------------- MODULE OldRocketIO -----------------------------
(***************************************************************************)
(* The data path of the rocketIO driver, as projet/module/old_rocketIO.c   *)
(* has it (the current rocketIO.c keeps the same structure with empty      *)
(* handlers): start_xmit, the interrupt routine, the reception, open and   *)
(* release, on interfaces that are registered.                             *)
(*                                                                         *)
(* A thread is Xmit(d), the stack transmitting on rio<d> (the kernel never *)
(* runs start_xmit twice at a time for one device), or Irq(d), the         *)
(* hardware interrupt of rio<d>.  With loopback = 1 there is no hardware:  *)
(* start_xmit calls rocketIO_interrupt itself, for the peer and then for   *)
(* its own device.  There is one processor: a thread runs until it         *)
(* returns, except that an interrupt preempts a transmission.              *)
(*                                                                         *)
(* The receive ring is read and written at cur_rx only, so the model keeps *)
(* what lies there.  A packet is "short" (less than an IP header), "small" *)
(* or "big" (256 bytes or more).                                           *)
(***************************************************************************)
EXTENDS Integers, Sequences

CONSTANTS
  loopback,           \* MODULE_PARM: 1 for two simulated interfaces, else 0
  Short, Small, Big,  \* the packets, each a different sk_buff
  NULL,
  MaxOpens,           \* bound on the calls of open that get their interrupt
  MaxIrqs             \* bound on the hardware interrupts

ASSUME ModeAssumption == loopback \in {0, 1}
ASSUME PacketAssumption ==
  /\ Short \cap Small = {} /\ Short \cap Big = {} /\ Small \cap Big = {}
  /\ NULL \notin Short \cup Small \cup Big
ASSUME BoundAssumption == MaxOpens \in Nat /\ MaxIrqs \in Nat

NUM_TX_DESC == 4
Slots == 0..NUM_TX_DESC-1
Devs == 0..loopback
Peer(d) == 1 - d
Skbs == Short \cup Small \cup Big
RX == "RIO_RX_INTR"
TX == "RIO_TX_INTR"
NoRing == {"no_len", "no_ring"}  \* rx_buf_len is 0; rx_ring is NULL
Junk == "junk"                   \* what lies at cur_rx, if not a packet

\* A packet is none of these marks.
ASSUME MarkAssumption == Skbs \cap (NoRing \cup {Junk}) = {}

Xmit(d) == <<"xmit", d>>
Irq(d) == <<"irq", d>>
Threads == {"xmit", "irq"} \X Devs

VARIABLES
  dev,      \* per device: up (IFF_UP), irq (request_irq has succeeded),
            \* tbusy (the transmit queue is paused or stopped)
  priv,     \* per device, struct rio_priv: status (the simulated ISR), lock,
            \* cur_tx, dirty_tx, tx_full, tx_skbuff, rx_dropped, and ring: what
            \* is in the receive ring at cur_rx, or NoRing
  thr,      \* per thread: pc; skb and entry of start_xmit; dev, word
            \* (statusword) and i (entry) of rocketIO_interrupt
  opening,  \* the call of open in progress: dev, and pc, the line it is at
            \* ("none" when there is no call)
  own,      \* who has each packet: the "stack", the "driver", "freed"
  sent,     \* per device, the packets start_xmit accepted
  rcvd,     \* per device, the packets netif_rx was given
  count,    \* how many opens and interrupts there were, for the bounds
  fault     \* "none", or why the kernel has crashed

vars == <<dev, priv, thr, opening, own, sent, rcvd, count, fault>>

NoSkbs == [i \in Slots |-> NULL]

Init ==
  /\ dev = [d \in Devs |-> [up |-> FALSE, irq |-> FALSE, tbusy |-> FALSE]]
  /\ priv = [d \in Devs |->
       [status |-> {}, lock |-> NULL, ring |-> "no_len", cur_tx |-> 0,
        dirty_tx |-> 0, tx_full |-> FALSE, tx_skbuff |-> NoSkbs,
        rx_dropped |-> 0]]
  /\ thr = [t \in Threads |-> [pc |-> "idle", skb |-> NULL, entry |-> 0,
                               dev |-> t[2], word |-> {}, i |-> 0]]
  /\ opening = [dev |-> 0, pc |-> "none"]
  /\ own = [s \in Skbs |-> "stack"]
  /\ sent = [d \in Devs |-> <<>>] /\ rcvd = [d \in Devs |-> <<>>]
  /\ count = [opens |-> 0, irqs |-> 0]
  /\ fault = "none"

-----------------------------------------------------------------------------
(* Scheduling.                                                             *)

Idle(t) == thr[t].pc = "idle"
Quiet == \A t \in Threads : Idle(t)

MayRun(t) ==
  /\ fault = "none"
  /\ \A u \in Threads \ {t} : Idle(u) \/ (t[1] = "irq" /\ u[1] = "xmit")

\* open and release run in a process, which interrupts and transmissions
\* preempt.
ProcessMayRun == fault = "none" /\ Quiet

At(t, label) == MayRun(t) /\ thr[t].pc = label
GoTo(t, label) == thr' = [thr EXCEPT ![t].pc = label]
Oops(why) == fault' = why

\* unsigned int: the difference wraps.  Any width above 2 * NUM_TX_DESC does,
\* as the driver crashes before a counter gets further.
Width == 256
Used(d) == (priv[d].cur_tx - priv[d].dirty_tx) % Width

-----------------------------------------------------------------------------
(* rocketIO_open, rocketIO_release.  The RTNL lets one of them run at a    *)
(* time.  Once request_irq has returned, an interrupt may come between any *)
(* two lines of open.                                                      *)

Opening(d, label) == ProcessMayRun /\ opening = [dev |-> d, pc |-> label]
OpenAt(label) == opening' = [opening EXCEPT !.pc = label]

\* When request_irq fails open returns and nothing has changed.
OpenRequestIrq(d) ==
  /\ ProcessMayRun
  /\ opening.pc = "none" /\ ~dev[d].up
  /\ count.opens < MaxOpens /\ count' = [count EXCEPT !.opens = @ + 1]
  /\ dev' = [dev EXCEPT ![d].irq = TRUE]
  /\ opening' = [dev |-> d, pc |-> "buf_len"]
  /\ UNCHANGED <<priv, thr, own, sent, rcvd, fault>>

\* The ring of an earlier open is still there.
SetBufLen(d) ==
  /\ Opening(d, "buf_len") /\ OpenAt("alloc")
  /\ priv' = [priv EXCEPT ![d].ring = IF @ = "no_len" THEN "no_ring" ELSE @]
  /\ UNCHANGED <<dev, thr, own, sent, rcvd, count, fault>>

\* A new ring, the last one is never freed; or there is no memory for it, and
\* open tries again for a shorter one, or returns and keeps the interrupt.
AllocRing(d) ==
  /\ Opening(d, "alloc")
  /\ \/ priv' = [priv EXCEPT ![d].ring = Junk] /\ OpenAt("full")
     \/ /\ priv' = [priv EXCEPT ![d].ring = "no_ring"]
        /\ OpenAt("alloc") \/ OpenAt("none")
  /\ UNCHANGED <<dev, thr, own, sent, rcvd, count, fault>>

\* rocketIO_init_ring: tx_full, cur_tx, dirty_tx, then the descriptors.
ClearFull(d) ==
  /\ Opening(d, "full") /\ OpenAt("cur_tx")
  /\ priv' = [priv EXCEPT ![d].tx_full = FALSE]
  /\ UNCHANGED <<dev, thr, own, sent, rcvd, count, fault>>

\* Mutation of ClearCurTx: cur_tx keeps counting.
KeepCurTx(d) == Opening(d, "cur_tx") /\ OpenAt("dirty_tx")
  /\ UNCHANGED <<priv, dev, thr, own, sent, rcvd, count, fault>>
ClearCurTx(d) ==
  /\ Opening(d, "cur_tx") /\ OpenAt("dirty_tx")
  /\ priv' = [priv EXCEPT ![d].cur_tx = 0]
  /\ UNCHANGED <<dev, thr, own, sent, rcvd, count, fault>>

ClearDirtyTx(d) ==
  /\ Opening(d, "dirty_tx") /\ OpenAt("tx_skbuff")
  /\ priv' = [priv EXCEPT ![d].dirty_tx = 0]
  /\ UNCHANGED <<dev, thr, own, sent, rcvd, count, fault>>

\* Nothing reads a descriptor while the counters are equal.
ClearSkbuffs(d) ==
  /\ Opening(d, "tx_skbuff") /\ OpenAt("start")
  /\ priv' = [priv EXCEPT ![d].tx_skbuff = NoSkbs]
  /\ UNCHANGED <<dev, thr, own, sent, rcvd, count, fault>>

StartQueue(d) ==
  /\ Opening(d, "start") /\ OpenAt("none")
  /\ dev' = [dev EXCEPT ![d].tbusy = FALSE, ![d].up = TRUE]
  /\ UNCHANGED <<priv, thr, own, sent, rcvd, count, fault>>

\* The kernel waits for the transmission in progress before it calls stop.
Release(d) ==
  /\ ProcessMayRun
  /\ opening.pc = "none" /\ dev[d].up /\ Idle(Xmit(d))
  /\ dev' = [dev EXCEPT ![d].tbusy = TRUE, ![d].up = FALSE]
  /\ UNCHANGED <<priv, thr, opening, own, sent, rcvd, count, fault>>

-----------------------------------------------------------------------------
(* rocketIO_start_xmit, up to the branch on loopback.                      *)

\* The stack hands over a packet.  One that is too short is refused, after
\* its pointer was stored: the stack keeps it, to try again.
StartXmit(d, s) ==
  LET entry == priv[d].cur_tx % NUM_TX_DESC IN
  /\ At(Xmit(d), "idle")
  /\ dev[d].up /\ ~dev[d].tbusy /\ own[s] = "stack"
  /\ priv' = [priv EXCEPT ![d].tx_skbuff[entry] = s]
  /\ \/ s \in Short /\ UNCHANGED <<dev, thr, own, sent>>
     \/ /\ s \notin Short
        /\ dev' = [dev EXCEPT ![d].tbusy = TRUE]
        /\ own' = [own EXCEPT ![s] = "driver"]
        /\ sent' = [sent EXCEPT ![d] = Append(@, s)]
        /\ thr' = [thr EXCEPT ![Xmit(d)].skb = s, ![Xmit(d)].entry = entry,
             ![Xmit(d)].pc = IF loopback = 1 THEN "mark_rx" ELSE "post"]
  /\ UNCHANGED <<opening, rcvd, count, fault>>

-----------------------------------------------------------------------------
(* rocketIO_start_xmit, loopback = 1.                                      *)

MarkRx(d) ==
  /\ At(Xmit(d), "mark_rx")
  /\ priv' = [priv EXCEPT ![Peer(d)].status = {RX}]
  /\ GoTo(Xmit(d), "copy")
  /\ UNCHANGED <<dev, opening, own, sent, rcvd, count, fault>>

\* The peer need not be up, and its ring need not exist.
CopyToRing(d) ==
  /\ At(Xmit(d), "copy")
  /\ \/ /\ priv[Peer(d)].ring \in NoRing
        /\ Oops(priv[Peer(d)].ring)
        /\ UNCHANGED <<priv, thr>>
     \/ /\ priv[Peer(d)].ring \notin NoRing
        /\ priv' = [priv EXCEPT ![Peer(d)].ring = thr[Xmit(d)].skb]
        /\ thr' = [thr EXCEPT ![Xmit(d)].pc = "isr_lock",
                              ![Xmit(d)].dev = Peer(d)]
        /\ UNCHANGED fault
  /\ UNCHANGED <<dev, opening, own, sent, rcvd, count>>

\* Mutation of CountTx: cur_tx is not advanced.
CountNothing(p) == p
CountTx(p) == [p EXCEPT !.cur_tx = @ + 1]

\* dirty_tx becomes an index, whereas cur_tx keeps counting.
MarkTx(d) ==
  /\ At(Xmit(d), "mark_tx")
  /\ priv' = [priv EXCEPT ![d] =
       [CountTx(@) EXCEPT !.status = {TX}, !.dirty_tx = thr[Xmit(d)].entry]]
  /\ thr' = [thr EXCEPT ![Xmit(d)].pc = "isr_lock", ![Xmit(d)].dev = d]
  /\ UNCHANGED <<dev, opening, own, sent, rcvd, count, fault>>

-----------------------------------------------------------------------------
(* rocketIO_start_xmit, loopback = 0.                                      *)

Post(d) ==
  /\ At(Xmit(d), "post")
  /\ priv' = [priv EXCEPT ![d] = CountTx(@)]
  /\ GoTo(Xmit(d), "program")
  /\ UNCHANGED <<dev, opening, own, sent, rcvd, count, fault>>

\* The descriptor goes to the hardware.
Program(d) ==
  LET x == thr[Xmit(d)] IN
  /\ At(Xmit(d), "program")
  /\ priv' = [priv EXCEPT ![d].tx_skbuff[x.entry] = x.skb]
  /\ GoTo(Xmit(d), "check_full")
  /\ UNCHANGED <<dev, opening, own, sent, rcvd, count, fault>>

CheckFull(d) ==
  /\ At(Xmit(d), "check_full")
  /\ \/ /\ Used(d) >= NUM_TX_DESC
        /\ GoTo(Xmit(d), "set_full")
        /\ UNCHANGED dev
     \/ /\ Used(d) < NUM_TX_DESC
        /\ dev' = [dev EXCEPT ![d].tbusy = FALSE]
        /\ GoTo(Xmit(d), "idle")
  /\ UNCHANGED <<priv, opening, own, sent, rcvd, count, fault>>

SetFull(d) ==
  /\ At(Xmit(d), "set_full")
  /\ priv' = [priv EXCEPT ![d].tx_full = TRUE]
  /\ GoTo(Xmit(d), "recheck")
  /\ UNCHANGED <<dev, opening, own, sent, rcvd, count, fault>>

\* Mutation of StillFull: the second test is left out.
StillFullNever(d) == FALSE
StillFull(d) == Used(d) >= NUM_TX_DESC

\* Mutation of GiveUp: start_xmit waits for an interrupt.
SpinOnFull(d) == UNCHANGED thr
GiveUp(d) == GoTo(Xmit(d), "stop")

\* Has an interrupt come in between?
Recheck(d) ==
  /\ At(Xmit(d), "recheck")
  /\ \/ /\ ~StillFull(d)
        /\ priv' = [priv EXCEPT ![d].tx_full = FALSE]
        /\ dev' = [dev EXCEPT ![d].tbusy = FALSE]
        /\ GoTo(Xmit(d), "idle")
     \/ /\ StillFull(d)
        /\ GiveUp(d)
        /\ UNCHANGED <<priv, dev>>
  /\ UNCHANGED <<opening, own, sent, rcvd, count, fault>>

StopQueue(d) ==
  /\ At(Xmit(d), "stop")
  /\ dev' = [dev EXCEPT ![d].tbusy = TRUE]
  /\ GoTo(Xmit(d), "idle")
  /\ UNCHANGED <<priv, opening, own, sent, rcvd, count, fault>>

-----------------------------------------------------------------------------
(* The hardware, which the driver only has as comments.                    *)

\* The line is shared and never freed: an interrupt may come at any time.
RaiseIrq(d) ==
  /\ At(Irq(d), "idle")
  /\ loopback = 0 /\ dev[d].irq
  /\ count.irqs < MaxIrqs /\ count' = [count EXCEPT !.irqs = @ + 1]
  /\ GoTo(Irq(d), "isr_lock")
  /\ UNCHANGED <<dev, priv, opening, own, sent, rcvd, fault>>

-----------------------------------------------------------------------------
(* rocketIO_interrupt, for the device thr[t].dev.                          *)

\* With loopback = 0 statusword is never assigned: it may have any value.
IsrLock(t) ==
  LET d == thr[t].dev IN
  /\ At(t, "isr_lock")
  /\ priv[d].lock = NULL
  /\ priv' = [priv EXCEPT ![d].lock = t]
  /\ \E w \in IF loopback = 1 THEN {priv[d].status} ELSE SUBSET {RX, TX} :
       thr' = [thr EXCEPT ![t].word = w, ![t].pc = "isr_rx"]
  /\ UNCHANGED <<dev, opening, own, sent, rcvd, count, fault>>

\* The division by rx_buf_len = 0 traps on some processors and gives an
\* arbitrary offset on others (the PowerPC); with loopback = 0 nothing is read
\* there, as the length is 0.
MayOops(d) ==
  \/ priv[d].ring = "no_len"
  \/ priv[d].ring = "no_ring" /\ loopback = 1
MayReceive(d) == loopback = 0 \/ priv[d].ring \notin NoRing

\* In loopback the length is the fourth byte of what lies at cur_rx, which
\* the length of a big packet does not fit in; otherwise it is 0, as rx_status
\* is never read.
PacketAt(d) ==
  IF loopback = 1 /\ priv[d].ring \in Small THEN priv[d].ring ELSE Junk

\* Mutation of DropPacket: the packet is not counted.
DropUncounted(d) == UNCHANGED priv
DropPacket(d) == priv' = [priv EXCEPT ![d].rx_dropped = @ + 1]

\* rocketIO_rx.
Receive(d) ==
  \/ /\ MayOops(d) /\ Oops(priv[d].ring)
     /\ UNCHANGED <<priv, rcvd>>
  \/ /\ MayReceive(d)
     /\ rcvd' = [rcvd EXCEPT ![d] = Append(@, PacketAt(d))]
     /\ priv' = [priv EXCEPT ![d].ring = IF @ \in NoRing THEN @ ELSE Junk]
     /\ UNCHANGED fault
  \/ /\ MayReceive(d)
     /\ DropPacket(d)
     /\ UNCHANGED <<rcvd, fault>>

IsrRx(t) ==
  LET d == thr[t].dev IN
  /\ At(t, "isr_rx")
  /\ \/ RX \in thr[t].word /\ Receive(d)
     \/ RX \notin thr[t].word /\ UNCHANGED <<priv, rcvd, fault>>
  /\ thr' = [thr EXCEPT ![t].i = priv[d].dirty_tx, ![t].pc = "isr_tx"]
  /\ UNCHANGED <<dev, opening, own, sent, count>>

\* cur_tx - entry > 0 compares unsigned numbers.
MoreToFree(t) ==
  TX \in thr[t].word /\ priv[thr[t].dev].cur_tx # thr[t].i

\* Mutation of NextEntry: the descriptors are walked backwards.
PreviousEntry(i) == i - 1
NextEntry(i) == i + 1

\* One turn of the loop on the descriptors.
IsrFree(t) ==
  LET d == thr[t].dev
      i == thr[t].i
      s == IF i \in Slots THEN priv[d].tx_skbuff[i] ELSE NULL
  IN
  /\ At(t, "isr_tx")
  /\ MoreToFree(t)
  /\ \/ /\ s = NULL
        /\ Oops(IF i \in Slots THEN "null_skb" ELSE "slot_overrun")
        /\ UNCHANGED <<dev, priv, thr, own>>
     \/ /\ s # NULL /\ own[s] = "freed"
        /\ Oops("double_free")
        /\ UNCHANGED <<dev, priv, thr, own>>
     \/ /\ s # NULL /\ own[s] # "freed"
        /\ own' = [own EXCEPT ![s] = "freed"]
        /\ priv' = [priv EXCEPT ![d].tx_skbuff[i] = NULL,
                                ![d].tx_full = FALSE]
        /\ dev' = [dev EXCEPT ![d].tbusy = @ /\ ~priv[d].tx_full]
        /\ thr' = [thr EXCEPT ![t].i = NextEntry(i)]
        /\ UNCHANGED fault
  /\ UNCHANGED <<opening, sent, rcvd, count>>

\* Mutations of Leave: dirty_tx is not advanced; the lock is not released.
LeaveDirty(p, t) == [p EXCEPT !.lock = NULL]
LeaveLocked(p, t) ==
  [p EXCEPT !.dirty_tx = IF TX \in thr[t].word THEN thr[t].i ELSE @]
Leave(p, t) ==
  [p EXCEPT !.dirty_tx = IF TX \in thr[t].word THEN thr[t].i ELSE @,
            !.lock = NULL]

\* Back to start_xmit after the peer's interrupt, else out.
IsrExit(t) ==
  LET d == thr[t].dev IN
  /\ At(t, "isr_tx")
  /\ ~MoreToFree(t)
  /\ priv' = [priv EXCEPT ![d] = Leave(@, t)]
  /\ GoTo(t, IF t[1] = "xmit" /\ d # t[2] THEN "mark_tx" ELSE "idle")
  /\ UNCHANGED <<dev, opening, own, sent, rcvd, count, fault>>

-----------------------------------------------------------------------------
OpenStep(d) ==
  \/ OpenRequestIrq(d) \/ SetBufLen(d) \/ AllocRing(d)
  \/ ClearFull(d) \/ ClearCurTx(d) \/ ClearDirtyTx(d) \/ ClearSkbuffs(d)
  \/ StartQueue(d)
Interface(d) == OpenStep(d) \/ Release(d)

XmitStep(d) ==
  \/ MarkRx(d) \/ CopyToRing(d) \/ MarkTx(d)
  \/ Post(d) \/ Program(d) \/ CheckFull(d) \/ SetFull(d)
  \/ Recheck(d) \/ StopQueue(d)

IsrStep(t) == IsrLock(t) \/ IsrRx(t) \/ IsrFree(t) \/ IsrExit(t)

Next ==
  \/ \E d \in Devs : Interface(d) \/ XmitStep(d) \/ RaiseIrq(d)
  \/ \E d \in Devs, s \in Skbs : StartXmit(d, s)
  \/ \E t \in Threads : IsrStep(t)

Spec == Init /\ [][Next]_vars

(* A call of start_xmit or of the interrupt routine that has begun goes    *)
(* on: neither ever sleeps.                                                *)
Fairness ==
  /\ \A d \in Devs : WF_vars(XmitStep(d))
  /\ \A t \in Threads : WF_vars(IsrStep(t))
FairSpec == Spec /\ Fairness

-----------------------------------------------------------------------------
(* Properties.                                                             *)

Labels == {"idle", "mark_rx", "copy", "mark_tx", "post", "program",
           "check_full", "set_full", "recheck", "stop",
           "isr_lock", "isr_rx", "isr_tx"}

\* The counter of the transmitted packets gets no further before the driver
\* crashes, or has the queue stopped for good.
MaxCurTx == IF loopback = 1 THEN NUM_TX_DESC + 1 ELSE 2 * NUM_TX_DESC

OpenLabels == {"none", "buf_len", "alloc", "full", "cur_tx", "dirty_tx",
               "tx_skbuff", "start"}

DevStates == [up : BOOLEAN, irq : BOOLEAN, tbusy : BOOLEAN]
PrivStates ==
  [status : SUBSET {RX, TX}, lock : Threads \cup {NULL},
   ring : Skbs \cup NoRing \cup {Junk},
   cur_tx : 0..MaxCurTx, dirty_tx : 0..NUM_TX_DESC,
   tx_full : BOOLEAN, tx_skbuff : [Slots -> Skbs \cup {NULL}],
   rx_dropped : Nat]
ThreadStates ==
  [pc : Labels, skb : Skbs \cup {NULL}, entry : Slots, dev : Devs,
   word : SUBSET {RX, TX}, i : 0..NUM_TX_DESC]

TypeOK ==
  /\ dev \in [Devs -> DevStates]
  /\ priv \in [Devs -> PrivStates]
  /\ thr \in [Threads -> ThreadStates]
  /\ opening \in [dev : Devs, pc : OpenLabels]
  /\ own \in [Skbs -> {"stack", "driver", "freed"}]
  /\ sent \in [Devs -> Seq(Skbs)]
  /\ rcvd \in [Devs -> Seq(Skbs \cup {Junk})]
  /\ count \in [opens : 0..MaxOpens, irqs : 0..MaxIrqs]
  /\ fault \in {"none", "slot_overrun", "null_skb", "double_free"} \cup NoRing

(* Loopback: when start_xmit has returned, the packet it was given has     *)
(* been freed by the simulated TX interrupt, whatever was opened, closed   *)
(* or sent by the peer before.                                             *)
CompletedIsFreed ==
  \A d \in Devs : Idle(Xmit(d)) =>
    \A i \in DOMAIN sent[d] : own[sent[d][i]] = "freed"

(* No packet is freed twice, be it by two interrupts, or by one that comes *)
(* in the middle of start_xmit, which then stores the pointer again.       *)
NoDoubleFree == fault # "double_free"

\* open(d) is at this line.
InOpen(d, label) == opening.dev = d /\ opening.pc = label

\* With hardware, the interrupt routine meets an empty descriptor only between
\* the two stores of line 411.
NullInv ==
  loopback = 0 /\ fault = "null_skb" => \E d \in Devs : InOpen(d, "dirty_tx")

(* Between handlers, every descriptor from dirty_tx up to cur_tx holds a   *)
(* packet that the driver still owns, and there are at most NUM_TX_DESC;   *)
(* so the interrupt routine never meets an empty one.  The exception is    *)
(* line 411: open has set cur_tx and not yet dirty_tx, and an interrupt    *)
(* that comes there reads a difference below zero.                         *)
PendingAreOwned ==
  /\ Quiet => \A d \in Devs : InOpen(d, "dirty_tx") \/
       /\ Used(d) <= NUM_TX_DESC
       /\ \A i \in priv[d].dirty_tx..priv[d].cur_tx-1 :
            LET s == priv[d].tx_skbuff[i % NUM_TX_DESC]
            IN  s # NULL /\ own[s] = "driver"
  /\ NullInv

(* Between handlers, tx_full tells whether the four descriptors are used,  *)
(* even when an interrupt has come in while start_xmit was setting it; but *)
(* not from the line of open that clears tx_full to the one that clears    *)
(* the last counter.                                                       *)
FullIsFull ==
  Quiet => \A d \in Devs :
    \/ InOpen(d, "cur_tx") \/ InOpen(d, "dirty_tx")
    \/ priv[d].tx_full <=> Used(d) >= NUM_TX_DESC

(* start_xmit and the interrupt routine return: the loop on the            *)
(* descriptors, whose condition is a difference of unsigned numbers, ends. *)
HandlersReturn ==
  \A t \in Threads : ~Idle(t) ~> (Idle(t) \/ fault # "none")

(* The simulated interfaces are a RioChannel: no packet is lost without    *)
(* being counted, made up, delivered twice or out of order; a big one is   *)
(* cut, any other is whole.                                                *)
Channel == INSTANCE RioChannel WITH
  Packets <- Skbs, Long <- Big, Cut <- Junk,
  dropped <- [d \in Devs |-> priv[d].rx_dropped]
ImplementsChannel == Channel!Spec

(* What comments of old_rocketIO.c say, and the driver does not do.        *)

(* "si la file etait pleine, on la relance": the queue of an interface     *)
(* that is up waits only while its descriptors are all used.               *)
WaitsOnlyIfFull ==
  Quiet => \A d \in Devs : dev[d].up /\ dev[d].tbusy => priv[d].tx_full

(* There are NUM_TX_DESC descriptors, and no other is used.                *)
DescriptorInRange == fault # "slot_overrun"

-----------------------------------------------------------------------------
(* The inductive invariant.                                                *)

IsrLabels == {"isr_lock", "isr_rx", "isr_tx"}

XmitLabels ==
  IF loopback = 1
  THEN {"mark_rx", "copy", "mark_tx"} \cup IsrLabels
  ELSE {"post", "program", "check_full", "set_full", "recheck", "stop"}
IrqLabels == IF loopback = 1 THEN {} ELSE IsrLabels

\* Each thread is at a place of its own code, and one transmission at most
\* is in progress.
ThreadsInv ==
  /\ \A d \in Devs : /\ thr[Irq(d)].dev = d
                     /\ thr[Irq(d)].pc \in {"idle"} \cup IrqLabels
                     /\ thr[Xmit(d)].pc \in {"idle"} \cup XmitLabels
  /\ \A d, e \in Devs : d = e \/ Idle(Xmit(d)) \/ Idle(Xmit(e))

\* An interface is down until the call of open in progress has returned.
OpeningInv ==
  opening.pc # "none" =>
    ~dev[opening.dev].up /\ Idle(Xmit(opening.dev))

(* With hardware.                                                          *)

\* The descriptors in use: an interrupt that is freeing them has got to its
\* entry, otherwise they begin at dirty_tx.
First(d) ==
  IF thr[Irq(d)].pc = "isr_tx" THEN thr[Irq(d)].i ELSE priv[d].dirty_tx
Pending(d) == First(d)..priv[d].cur_tx-1
InUse(d) == priv[d].cur_tx - First(d)
Slot(d, i) == priv[d].tx_skbuff[i % NUM_TX_DESC]

WindowInv(d) ==
  /\ priv[d].dirty_tx <= First(d) /\ First(d) <= priv[d].cur_tx
  /\ InUse(d) <= NUM_TX_DESC
  /\ thr[Irq(d)].pc = "isr_tx" /\ TX \notin thr[Irq(d)].word =>
       thr[Irq(d)].i = priv[d].dirty_tx

\* They hold different packets, which the driver owns.
PendingInv(d) ==
  \A i \in Pending(d) :
    /\ Slot(d, i) # NULL
    /\ own[Slot(d, i)] = "driver"
    /\ \A j \in Pending(d) : Slot(d, i) = Slot(d, j) => i = j

\* What start_xmit remembers while an interrupt may come in.
PostInv(d) ==
  LET x == thr[Xmit(d)] IN
  /\ x.pc = "post" =>
       /\ x.skb # NULL /\ own[x.skb] = "driver"
       /\ x.entry = priv[d].cur_tx % NUM_TX_DESC
       /\ Slot(d, priv[d].cur_tx) = x.skb
       /\ InUse(d) < NUM_TX_DESC
       /\ \A i \in Pending(d) : Slot(d, i) # x.skb
  /\ x.pc = "program" =>
       /\ priv[d].cur_tx > 0
       /\ x.entry = (priv[d].cur_tx - 1) % NUM_TX_DESC
       /\ First(d) < priv[d].cur_tx => priv[d].tx_skbuff[x.entry] = x.skb

\* tx_full is exact whenever start_xmit is not between its two tests and open
\* has not just cleared it, and the queue of an interface that is up runs only
\* if a descriptor is free.
FullInv(d) ==
  LET x == thr[Xmit(d)] IN
  /\ priv[d].tx_full /\ x.pc # "recheck" => InUse(d) >= NUM_TX_DESC
  /\ InUse(d) >= NUM_TX_DESC /\ x.pc \in {"idle", "recheck", "stop"} =>
       priv[d].tx_full \/ InOpen(d, "cur_tx")
  /\ x.pc \in {"post", "program", "check_full", "set_full"} => ~priv[d].tx_full
  /\ InOpen(d, "cur_tx") => ~priv[d].tx_full
  /\ x.pc = "idle" /\ dev[d].up /\ ~dev[d].tbusy => InUse(d) < NUM_TX_DESC

HardwareAt(d) == WindowInv(d) /\ PendingInv(d) /\ PostInv(d) /\ FullInv(d)

\* A packet too short is never the driver's.
ShortInv == \A s \in Short : own[s] = "stack"

\* What is not in use yet is empty, but for a packet too short or one that
\* start_xmit is storing.
RestInv(d) ==
  /\ \A i \in Slots : i > priv[d].cur_tx => priv[d].tx_skbuff[i] = NULL
  /\ priv[d].cur_tx \in Slots /\ thr[Xmit(d)].pc # "post" =>
       priv[d].tx_skbuff[priv[d].cur_tx] \in Short \cup {NULL}

\* Between the two stores of line 411 an interrupt that completes
\* transmissions frees what lies from dirty_tx on, until it crashes.
Unread(d) == {i \in Slots : i >= First(d) /\ priv[d].tx_skbuff[i] # NULL}
ResetAt(d) ==
  LET p == priv[d]
      x == thr[Irq(d)]
  IN
  /\ p.cur_tx = 0 /\ ~p.tx_full
  /\ p.dirty_tx <= First(d)
  /\ x.pc = "isr_tx" /\ (TX \notin x.word \/ p.dirty_tx = 0) =>
       x.i = p.dirty_tx
  /\ First(d) = p.dirty_tx => ShortInv
  /\ \A i \in Unread(d) :
       /\ own[p.tx_skbuff[i]] # "freed"
       /\ \A j \in Unread(d) : p.tx_skbuff[i] = p.tx_skbuff[j] => i = j

DeviceInv(d) ==
  IF InOpen(d, "dirty_tx") THEN ResetAt(d)
  ELSE /\ HardwareAt(d) /\ ShortInv
       /\ InOpen(d, "tx_skbuff") \/ RestInv(d)
       /\ InOpen(d, "tx_skbuff") \/ InOpen(d, "start") =>
            priv[d].cur_tx = 0

HardwareInv ==
  loopback = 0 => \A d \in Devs : DeviceInv(d)

(* In loopback.                                                            *)

\* start_xmit of d is in the interrupt routine for its own device.
Completing(d) ==
  thr[Xmit(d)].pc \in IsrLabels /\ thr[Xmit(d)].dev = d

\* Before its packet has been freed the last descriptor holds it, and no
\* other holds anything, but for a packet too short that lies in the next.
RingInv(d) ==
  LET x == thr[Xmit(d)]
      p == priv[d]
  IN
  /\ ~Idle(Xmit(d)) => x.skb \in Small \cup Big
  /\ ~Completing(d) =>
       /\ p.cur_tx = IF InOpen(d, "dirty_tx") THEN 0 ELSE p.dirty_tx
       /\ \/ InOpen(d, "dirty_tx") \/ InOpen(d, "tx_skbuff")
          \/ \A i \in Slots :
               i # p.cur_tx % NUM_TX_DESC => p.tx_skbuff[i] = NULL
       /\ ~Idle(Xmit(d)) => /\ x.entry = p.cur_tx % NUM_TX_DESC
                            /\ p.tx_skbuff[x.entry] = x.skb
                            /\ own[x.skb] = "driver"
  /\ Completing(d) =>
       /\ p.cur_tx > 0 /\ x.entry = (p.cur_tx - 1) % NUM_TX_DESC
       /\ \A i \in Slots : i # x.entry => p.tx_skbuff[i] = NULL
       /\ x.pc # "isr_tx" => /\ p.dirty_tx = x.entry
                             /\ p.tx_skbuff[x.entry] = x.skb
                             /\ own[x.skb] = "driver"
       /\ x.pc = "isr_tx" =>
            \/ /\ x.i = x.entry
               /\ p.tx_skbuff[x.entry] = x.skb
               /\ own[x.skb] = "driver"
            \/ /\ x.i = x.entry + 1
               /\ p.tx_skbuff[x.entry] = NULL
               /\ own[x.skb] = "freed"

\* The simulated interrupt is RX for the peer, then TX for the device.
IsrInv(d) ==
  LET x == thr[Xmit(d)]
      intr == IF x.dev = d THEN {TX} ELSE {RX}
  IN
  /\ x.pc = "copy" => priv[Peer(d)].status = {RX}
  /\ x.pc = "isr_lock" => priv[x.dev].status = intr
  /\ x.pc \in {"isr_rx", "isr_tx"} => x.word = intr
  /\ x.pc \in {"isr_lock", "isr_rx"} /\ x.dev # d => priv[x.dev].ring = x.skb

\* All that was accepted is freed, but for the packet in progress.
SentInv(d) ==
  LET n == Len(sent[d]) IN
  /\ \A i \in 1..n-1 : own[sent[d][i]] = "freed"
  /\ IF Idle(Xmit(d)) THEN n > 0 => own[sent[d][n]] = "freed"
                      ELSE n > 0 /\ sent[d][n] = thr[Xmit(d)].skb

\* All that was accepted is delivered or dropped, but for the packet in
\* progress until the interrupt routine has run for the peer.
Underway(d) ==
  \/ thr[Xmit(d)].pc \in {"mark_rx", "copy"}
  \/ thr[Xmit(d)].pc \in {"isr_lock", "isr_rx"} /\ thr[Xmit(d)].dev # d
SettledInv(d) ==
  Len(rcvd[Peer(d)]) + priv[Peer(d)].rx_dropped =
    Len(sent[d]) - (IF Underway(d) THEN 1 ELSE 0)

LoopbackAt(d) == RingInv(d) /\ IsrInv(d) /\ SentInv(d) /\ SettledInv(d)
LoopbackInv ==
  loopback = 1 => \A d \in Devs : LoopbackAt(d)

IInv ==
  /\ TypeOK /\ ThreadsInv /\ OpeningInv
  /\ HardwareInv /\ LoopbackInv
  /\ NullInv /\ NoDoubleFree
=============================================================================
