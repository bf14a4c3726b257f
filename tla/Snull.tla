--------------------------------- MODULE Snull ---------------------------------
(***************************************************************************)
(* The two network interfaces of snull (snull/snull.c): what one sends the *)
(* other receives.  The packet buffers of the sender's pool lie in the     *)
(* receive queue of the other until it has taken them; the interrupts are  *)
(* calls, made within snull_hw_tx.                                         *)
(*                                                                         *)
(* One processor: softirqs do not preempt each other, so that snull_tx is  *)
(* one step, and what can happen in the middle of snull_poll is a packet   *)
(* that netif_receive_skb makes the stack send.                            *)
(***************************************************************************)
EXTENDS Integers, Sequences

CONSTANT PoolSizes  \* how many of pool_size buffers kmalloc may give

Devs == {0, 1}
Twin(d) == 1 - d

VARIABLES
  use_napi, lockup,
  net,      \* of each interface, the fields below
  polling,  \* whose packet snull_poll has in hand, or None
  fault     \* what stopped the kernel, or "none"

vars == <<use_napi, lockup, net, polling, fault>>

None == 2

\* total: what kmalloc gave to the pool.  skb: "none", "held", or "freed" once
\* or twice.  starter: what last started the queue.  shut: an interrupt was
\* taken for a packet while the interface was closed.
Interface(n) ==
  [state |-> "down", stopped |-> FALSE, starter |-> "none",
   total |-> n, ppool |-> n, rx_queue |-> 0, rx_int_enabled |-> TRUE,
   scheduled |-> FALSE, shut |-> FALSE, status |-> {}, skb |-> "none"]

\* kmalloc may run out in the middle of a pool.
Pools == [Devs -> PoolSizes]

Init ==
  /\ use_napi \in BOOLEAN /\ lockup \in BOOLEAN
  /\ \E n \in Pools : net = [d \in Devs |-> Interface(n[d])]
  /\ polling = None /\ fault = "none"

-----------------------------------------------------------------------------
(* The functions of snull, on the state of the two interfaces.             *)

\* Mutation of StopsAt: the queue is stopped when the pool is found empty.
StopsNever(left) == FALSE
StopsAt(left) == left = 0

\* Mutation of GetTxBuffer: the buffer stays in the pool.
GetTxBufferKeeps(s, d) == [s EXCEPT ![d].stopped = @ \/ StopsAt(s[d].ppool - 1)]
GetTxBuffer(s, d) ==
  [s EXCEPT ![d].ppool = @ - 1,
            ![d].stopped = @ \/ StopsAt(s[d].ppool - 1)]

\* Mutation of ReleaseBuffer: the queue is not woken.
ReleaseQuietly(s, d) == [s EXCEPT ![d].ppool = @ + 1]
ReleaseBuffer(s, d) ==
  LET wake == s[d].stopped /\ s[d].ppool = 0
  IN  [s EXCEPT ![d].ppool = @ + 1,
                ![d].stopped = @ /\ ~wake,
                ![d].starter = IF wake THEN "release" ELSE @]

Enqueue(s, d) == [s EXCEPT ![d].rx_queue = @ + 1]
Dequeue(s, d) == [s EXCEPT ![d].rx_queue = @ - 1]

KfreeSkb(s, d, by) ==
  [s EXCEPT ![d].skb = IF @ = "held" THEN "freed"
                       ELSE IF by = "timeout" THEN "freed_again_by_the_timeout"
                       ELSE "freed_again"]

\* Mutation of ClearStatus: the status is read and kept.
KeepStatus(s, d) == s
ClearStatus(s, d) == [s EXCEPT ![d].status = {}]

\* snull_rx gives the packet to the stack or drops it: the buffer is free.
RegularInterrupt(s, d, by) ==
  LET t == ClearStatus(s, d)
      receives == "rx" \in s[d].status /\ s[d].rx_queue > 0
      u == IF receives THEN Dequeue(t, d) ELSE t
      v == IF "tx" \in s[d].status THEN KfreeSkb(u, d, by) ELSE u
  IN  IF receives THEN ReleaseBuffer(v, Twin(d)) ELSE v

\* netif_rx_schedule does nothing if the interface is not up.
NapiInterrupt(s, d, by) ==
  LET t == ClearStatus(s, d)
      up == s[d].state = "up"
      u == IF "rx" \notin s[d].status THEN t
           ELSE [t EXCEPT ![d].rx_int_enabled = FALSE,
                          ![d].scheduled = @ \/ up, ![d].shut = @ \/ ~up]
  IN  IF "tx" \in s[d].status THEN KfreeSkb(u, d, by) ELSE u

Interrupt(s, d, by) ==
  IF use_napi THEN NapiInterrupt(s, d, by) ELSE RegularInterrupt(s, d, by)

Raise(s, d, what) == [s EXCEPT ![d].status = @ \cup {what}]

\* The packet to the twin, with its interrupt if it takes any.
Deliver(s, d) ==
  LET t == Enqueue(GetTxBuffer(s, d), Twin(d))
  IN  IF t[Twin(d)].rx_int_enabled
      THEN Interrupt(Raise(t, Twin(d), "rx"), Twin(d), "interrupt") ELSE t

\* snull_hw_tx: the end of the transmission is lost, or is an interrupt.
HwTx(s, d, lost) ==
  LET t == Raise(Deliver(s, d), d, "tx")
  IN  IF lost THEN [t EXCEPT ![d].stopped = TRUE] ELSE Interrupt(t, d, "interrupt")

-----------------------------------------------------------------------------
\* The kernel sends while the interface is up and its queue runs.
Tx(d) ==
  /\ net[d].state = "up" /\ ~net[d].stopped
  /\ net[d].ppool > 0 /\ net[Twin(d)].state # "freed"
  /\ \E lost \in {FALSE, lockup} :
       net' = HwTx([net EXCEPT ![d].skb = "held"], d, lost)
  /\ UNCHANGED <<use_napi, lockup, polling, fault>>

\* The kernel stops, and the rest is forgotten.
Crash(why) ==
  /\ fault' = why
  /\ net' = [d \in Devs |-> Interface(0)] /\ polling' = None

\* The pool is empty although the queue runs: who has started it.
Empty(d) ==
  IF net[d].starter = "release" THEN "pool_empty_started_by_release" ELSE "pool_empty"

TxFault(d) ==
  /\ net[d].state = "up" /\ ~net[d].stopped
  /\ \/ net[Twin(d)].state = "freed" /\ Crash("freed_twin")
     \/ net[d].ppool = 0 /\ Crash(Empty(d))
  /\ UNCHANGED <<use_napi, lockup>>

\* The watchdog, when the queue has been stopped for long.
TxTimeout(d) ==
  /\ polling = None /\ net[d].state = "up" /\ net[d].stopped
  /\ LET s == Interrupt([net EXCEPT ![d].status = {"tx"}], d, "timeout")
     IN  net' = [s EXCEPT ![d].stopped = FALSE, ![d].starter = "timeout"]
  /\ UNCHANGED <<use_napi, lockup, polling, fault>>

PollTake(d) ==
  /\ net[d].scheduled /\ polling = None /\ net[d].rx_queue > 0
  /\ net' = Dequeue(net, d) /\ polling' = d
  /\ UNCHANGED <<use_napi, lockup, fault>>

\* The packet has been given to the stack, or dropped.
PollRelease(d) ==
  /\ polling = d
  /\ IF net[Twin(d)].state = "freed" THEN Crash("freed_twin")
     ELSE /\ net' = ReleaseBuffer(net, Twin(d))
          /\ polling' = None /\ UNCHANGED fault
  /\ UNCHANGED <<use_napi, lockup>>

\* Mutation of Complete: the interrupts stay disabled.
CompleteOnly(d) == net' = [net EXCEPT ![d].scheduled = FALSE]
Complete(d) ==
  net' = [net EXCEPT ![d].scheduled = FALSE, ![d].rx_int_enabled = TRUE]

PollDone(d) ==
  /\ net[d].scheduled /\ polling = None /\ net[d].rx_queue = 0
  /\ Complete(d)
  /\ UNCHANGED <<use_napi, lockup, polling, fault>>

Open(d) ==
  /\ polling = None /\ net[d].state = "down"
  /\ net' = [net EXCEPT ![d].state = "up", ![d].stopped = FALSE,
                        ![d].starter = "open"]
  /\ UNCHANGED <<use_napi, lockup, polling, fault>>

\* dev_close waits for the poll to end before it calls snull_release.
Close(d) ==
  /\ polling = None /\ net[d].state = "up"
  /\ net' = [net EXCEPT ![d].state = "closing"]
  /\ UNCHANGED <<use_napi, lockup, polling, fault>>
Release(d) ==
  /\ polling = None /\ net[d].state = "closing" /\ ~net[d].scheduled
  /\ net' = [net EXCEPT ![d].state = "down", ![d].stopped = TRUE]
  /\ UNCHANGED <<use_napi, lockup, polling, fault>>

\* rmmod, sn0 first.  The buffers in the queue of the other are forgotten.
TornDown == [Interface(0) EXCEPT !.state = "freed"]
Cleanup(d) ==
  /\ polling = None /\ net[d].state = "down"
  /\ d = 0 \/ net[0].state = "freed"
  /\ net' = [net EXCEPT ![d] = TornDown]
  /\ UNCHANGED <<use_napi, lockup, polling, fault>>

Stop ==
  /\ fault # "none" \/ \A d \in Devs : net[d].state = "freed"
  /\ UNCHANGED vars

Step(d) ==
  \/ Tx(d) \/ TxFault(d) \/ TxTimeout(d)
  \/ PollTake(d) \/ PollRelease(d) \/ PollDone(d)
  \/ Open(d) \/ Close(d) \/ Release(d) \/ Cleanup(d)

Next ==
  \/ fault = "none" /\ \E d \in Devs : Step(d)
  \/ Stop

Spec == Init /\ [][Next]_vars

(* net_rx_action goes on with the poll, and polls the interfaces that are  *)
(* scheduled in turn.  The watchdog is not needed, and nobody has to send, *)
(* open or close.                                                          *)
Fairness ==
  \A d \in Devs :
    /\ WF_vars(PollRelease(d) /\ fault = "none")
    /\ SF_vars((PollTake(d) \/ PollDone(d)) /\ fault = "none")

-----------------------------------------------------------------------------
(* Properties.                                                             *)

Alive == fault = "none" /\ \A d \in Devs : net[d].state # "freed"
InHand(d) == IF polling = d THEN 1 ELSE 0

(* No packet buffer is lost or is in two places, whatever crosses a poll.  *)
BuffersConserved ==
  Alive => \A d \in Devs :
    net[d].ppool + net[Twin(d)].rx_queue + InHand(Twin(d)) = net[d].total

(* The flow control works: snull_tx finds the pool empty, and follows a    *)
(* null pointer, only if an open or a timeout has started the queue, which *)
(* do not look at the pool; never after release_buffer has.                *)
EmptyPoolNotSent == fault # "pool_empty_started_by_release"

(* The interrupt handlers free a packet that was sent once ("a             *)
(* transmission is over: free the skb"), also if a lost interrupt is found *)
(* in the status when the next comes.  The timeout may free it again.      *)
SkbFreedOnce == \A d \in Devs : net[d].skb # "freed_again"

(* In NAPI mode a packet that is received with the interrupts disabled is  *)
(* found by a poll that is still to come or goes on, unless an interrupt   *)
(* came while the interface was closed: that one disables them for good.   *)
NothingStranded ==
  \A d \in Devs :
    Alive /\ net[d].rx_queue > 0 => net[d].scheduled \/ net[d].shut

(* A sender that has used its last buffer gets one back, and its queue is  *)
(* woken: unless interrupts are lost, it need not wait for the watchdog.   *)
Refilled(d) == net[d].ppool > 0 /\ (lockup \/ ~net[d].stopped)
PoolRefills ==
  \A d \in Devs :
    Alive /\ net[d].ppool = 0 ~>
      ~Alive \/ Refilled(d) \/ net[d].total = 0 \/ net[Twin(d)].shut

(* The packets of snull and their buffers, through interrupts, polls,      *)
(* timeouts, opens and closes; with the exceptions named above: a queue    *)
(* started on an empty pool, the second free of a timeout, and an          *)
(* interface whose interrupts one that came too late has shut off.         *)
PacketsSafe == BuffersConserved /\ EmptyPoolNotSent /\ SkbFreedOnce /\ NothingStranded

-----------------------------------------------------------------------------
(* The inductive invariant.                                                *)

Interfaces ==
  [state : {"down", "up", "closing", "freed"}, stopped : BOOLEAN,
   starter : {"none", "open", "timeout", "release"},
   total : Nat, ppool : Nat, rx_queue : Nat, rx_int_enabled : BOOLEAN,
   scheduled : BOOLEAN, shut : BOOLEAN, status : SUBSET {"tx", "rx"},
   skb : {"none", "held", "freed", "freed_again_by_the_timeout"}]

\* What snull_tx and the interrupts keep to at each of their lines: the queue
\* that release_buffer has started has a buffer, and a transmission whose end
\* is in the status still has its packet.
Sound(i) ==
  /\ i.starter = "release" /\ ~i.stopped => i.ppool > 0
  /\ "tx" \in i.status => i.skb = "held"

\* What they restore: the packets received are taken at once, or by a poll
\* that is scheduled while the interrupts are disabled.
Received(i) ==
  /\ "rx" \notin i.status
  /\ i.rx_queue > 0 \/ ~i.rx_int_enabled => i.scheduled \/ i.shut
  /\ ~use_napi => i.rx_queue = 0 /\ i.rx_int_enabled /\ ~i.scheduled

IInv ==
  /\ use_napi \in BOOLEAN /\ net \in [Devs -> Interfaces]
  /\ polling \in {0, 1, None} /\ (~use_napi => polling = None)
  /\ \A d \in Devs : Sound(net[d]) /\ Received(net[d])
  /\ BuffersConserved /\ EmptyPoolNotSent
=============================================================================
