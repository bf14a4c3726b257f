------------------------------ MODULE RioChannel ------------------------------
(***************************************************************************)
(* What the two loopback interfaces promise the network stack: a packet    *)
(* that one of them accepts is delivered by the other, in order, or        *)
(* counted as dropped, before the next packet of its sender.  It is        *)
(* delivered whole, unless it is long.                                     *)
(***************************************************************************)
EXTENDS Integers, Sequences

CONSTANTS
  Devs,    \* the two interfaces, 0 and 1
  Packets,
  Long,    \* those that are delivered cut,
  Cut      \* as this

VARIABLES
  sent,    \* per interface, the packets it accepted from the stack
  rcvd,    \* per interface, the packets it delivered to the stack
  dropped  \* per interface, how many incoming packets it dropped

cvars == <<sent, rcvd, dropped>>

Other(d) == 1 - d
Settled(d) == Len(rcvd[Other(d)]) + dropped[Other(d)]

Init ==
  /\ sent = [d \in Devs |-> <<>>]
  /\ rcvd = [d \in Devs |-> <<>>]
  /\ dropped = [d \in Devs |-> 0]

Delivery(s) == IF s \in Long THEN Cut ELSE s

Accept(d) ==
  /\ Settled(d) = Len(sent[d])
  /\ \E s \in Packets : sent' = [sent EXCEPT ![d] = Append(@, s)]
  /\ UNCHANGED <<rcvd, dropped>>

Deliver(d) ==
  /\ Settled(d) < Len(sent[d])
  /\ rcvd' = [rcvd EXCEPT ![Other(d)] =
                 Append(@, Delivery(sent[d][Settled(d) + 1]))]
  /\ UNCHANGED <<sent, dropped>>

Drop(d) ==
  /\ Settled(d) < Len(sent[d])
  /\ dropped' = [dropped EXCEPT ![Other(d)] = @ + 1]
  /\ UNCHANGED <<sent, rcvd>>

Next == \E d \in Devs : Accept(d) \/ Deliver(d) \/ Drop(d)

Spec == Init /\ [][Next]_cvars
=============================================================================
