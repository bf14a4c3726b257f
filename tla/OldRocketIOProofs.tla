-------------------------- MODULE OldRocketIOProofs --------------------------
(***************************************************************************)
(* The inductive invariant of OldRocketIO, with hardware and in loopback,  *)
(* for any packets and any number of opens and interrupts; and the safety  *)
(* properties that follow from it.                                         *)
(***************************************************************************)
EXTENDS OldRocketIO, TLAPS

-----------------------------------------------------------------------------
(* Types: what a field may be given, then one lemma per action.            *)

(* A flag of a device stays a flag.                                        *)
LEMMA DevField ==
  ASSUME NEW r \in DevStates, NEW b \in BOOLEAN
  PROVE  /\ [r EXCEPT !.up = b] \in DevStates
         /\ [r EXCEPT !.irq = b] \in DevStates
         /\ [r EXCEPT !.tbusy = b] \in DevStates
BY DEF DevStates

(* Each field of struct rio_priv may be set to any value of its type.      *)
LEMMA PrivField ==
  ASSUME NEW p \in PrivStates
  PROVE  /\ \A v \in SUBSET {RX, TX} : [p EXCEPT !.status = v] \in PrivStates
         /\ \A v \in Threads \cup {NULL} : [p EXCEPT !.lock = v] \in PrivStates
         /\ \A v \in Skbs \cup NoRing \cup {Junk} :
              [p EXCEPT !.ring = v] \in PrivStates
         /\ \A v \in 0..MaxCurTx : [p EXCEPT !.cur_tx = v] \in PrivStates
         /\ \A v \in 0..NUM_TX_DESC : [p EXCEPT !.dirty_tx = v] \in PrivStates
         /\ \A v \in BOOLEAN : [p EXCEPT !.tx_full = v] \in PrivStates
         /\ \A v \in [Slots -> Skbs \cup {NULL}] :
              [p EXCEPT !.tx_skbuff = v] \in PrivStates
         /\ \A v \in Nat : [p EXCEPT !.rx_dropped = v] \in PrivStates
BY DEF PrivStates

(* So does a descriptor.                                                   *)
LEMMA SkbuffField ==
  ASSUME NEW p \in PrivStates, NEW i \in Slots, NEW s \in Skbs \cup {NULL}
  PROVE  [p EXCEPT !.tx_skbuff[i] = s] \in PrivStates
BY DEF PrivStates

(* And each local variable of a thread.                                    *)
LEMMA ThreadField ==
  ASSUME NEW x \in ThreadStates
  PROVE  /\ \A v \in Labels : [x EXCEPT !.pc = v] \in ThreadStates
         /\ \A v \in Skbs \cup {NULL} : [x EXCEPT !.skb = v] \in ThreadStates
         /\ \A v \in Slots : [x EXCEPT !.entry = v] \in ThreadStates
         /\ \A v \in Devs : [x EXCEPT !.dev = v] \in ThreadStates
         /\ \A v \in SUBSET {RX, TX} : [x EXCEPT !.word = v] \in ThreadStates
         /\ \A v \in 0..NUM_TX_DESC : [x EXCEPT !.i = v] \in ThreadStates
BY DEF ThreadStates

(* Going to a label of the code.                                           *)
LEMMA GoToTyped ==
  ASSUME thr \in [Threads -> ThreadStates], NEW t \in Threads,
         NEW l \in Labels, GoTo(t, l)
  PROVE  thr' \in [Threads -> ThreadStates]
BY ThreadField DEF GoTo

LEMMA ThreadsAre ==
  ASSUME NEW d \in Devs
  PROVE  Xmit(d) \in Threads /\ Irq(d) \in Threads
BY DEF Threads, Xmit, Irq

(* The counters and the descriptors' indices.                              *)
LEMMA Sizes ==
  /\ NUM_TX_DESC = 4 /\ Slots = 0..3
  /\ MaxCurTx \in {5, 8} /\ 0..NUM_TX_DESC = 0..4
BY DEF MaxCurTx, NUM_TX_DESC, Slots

LEMMA Entry == ASSUME NEW n \in Int PROVE n % NUM_TX_DESC \in Slots
BY DEF NUM_TX_DESC, Slots

LEMMA OpenRequestIrqTyped ==
  ASSUME TypeOK, NEW d \in Devs, OpenRequestIrq(d) PROVE TypeOK'
<1>1. dev' \in [Devs -> DevStates]
  BY DevField DEF OpenRequestIrq, TypeOK
<1>2. count' \in [opens : 0..MaxOpens, irqs : 0..MaxIrqs]
  <2>1. count \in [opens : 0..MaxOpens, irqs : 0..MaxIrqs]
    BY DEF TypeOK
  <2>2. count.opens < MaxOpens /\ count' = [count EXCEPT !.opens = @ + 1]
    BY DEF OpenRequestIrq
  <2> QED
    BY <2>1, <2>2, BoundAssumption
<1>3. opening' \in [dev : Devs, pc : OpenLabels]
  BY DEF OpenRequestIrq, OpenLabels
<1> QED
  BY <1>1, <1>2, <1>3 DEF OpenRequestIrq, TypeOK

LEMMA RaiseIrqTyped ==
  ASSUME TypeOK, NEW d \in Devs, RaiseIrq(d) PROVE TypeOK'
<1>1. thr' \in [Threads -> ThreadStates]
  BY ThreadsAre, GoToTyped DEF RaiseIrq, TypeOK, Labels
<1>2. count' \in [opens : 0..MaxOpens, irqs : 0..MaxIrqs]
  <2>1. count \in [opens : 0..MaxOpens, irqs : 0..MaxIrqs]
    BY DEF TypeOK
  <2>2. count.irqs < MaxIrqs /\ count' = [count EXCEPT !.irqs = @ + 1]
    BY DEF RaiseIrq
  <2> QED
    BY <2>1, <2>2, BoundAssumption
<1> QED
  BY <1>1, <1>2 DEF RaiseIrq, TypeOK

(* The steps of open after request_irq: each sets one field.              *)
LEMMA OpenSets ==
  ASSUME TypeOK, NEW d \in Devs,
         \/ SetBufLen(d) \/ AllocRing(d) \/ ClearFull(d) \/ ClearCurTx(d)
         \/ ClearDirtyTx(d) \/ ClearSkbuffs(d) \/ StartQueue(d)
  PROVE  /\ priv' \in [Devs -> PrivStates]
         /\ dev' \in [Devs -> DevStates]
         /\ opening' \in [dev : Devs, pc : OpenLabels]
         /\ UNCHANGED <<thr, own, sent, rcvd, count, fault>>
<1>1. priv \in [Devs -> PrivStates] /\ dev \in [Devs -> DevStates]
  BY DEF TypeOK
<1>2. NoSkbs \in [Slots -> Skbs \cup {NULL}]
  BY DEF NoSkbs
<1>3. 0 \in 0..MaxCurTx /\ 0 \in 0..NUM_TX_DESC
  BY Sizes
<1>4. priv' \in [Devs -> PrivStates]
  <2>1. CASE SetBufLen(d)
    <3>1. priv[d].ring \in Skbs \cup NoRing \cup {Junk} /\ "no_ring" \in NoRing
      BY <1>1 DEF PrivStates, NoRing
    <3>2. PICK v \in Skbs \cup NoRing \cup {Junk} :
            priv' = [priv EXCEPT ![d].ring = v]
      BY <2>1, <3>1 DEF SetBufLen
    <3> QED
      BY <1>1, <3>2, PrivField
  <2>2. CASE AllocRing(d)
    <3>1. Junk \in Skbs \cup NoRing \cup {Junk}
          /\ "no_ring" \in Skbs \cup NoRing \cup {Junk}
      BY DEF NoRing
    <3>2. priv' = [priv EXCEPT ![d].ring = Junk]
          \/ priv' = [priv EXCEPT ![d].ring = "no_ring"]
      BY <2>2 DEF AllocRing
    <3> QED
      BY <1>1, <3>1, <3>2, PrivField
  <2>3. CASE ClearFull(d)
    BY <1>1, <2>3, PrivField DEF ClearFull
  <2>4. CASE ClearCurTx(d)
    BY <1>1, <1>3, <2>4, PrivField DEF ClearCurTx
  <2>5. CASE ClearDirtyTx(d)
    BY <1>1, <1>3, <2>5, PrivField DEF ClearDirtyTx
  <2>6. CASE ClearSkbuffs(d)
    BY <1>1, <1>2, <2>6, PrivField DEF ClearSkbuffs
  <2>7. CASE StartQueue(d)
    BY <1>1, <2>7 DEF StartQueue
  <2> QED
    BY <2>1, <2>2, <2>3, <2>4, <2>5, <2>6, <2>7
<1>5. dev' \in [Devs -> DevStates]
  <2>1. CASE StartQueue(d)
    BY <1>1, <2>1, DevField DEF StartQueue
  <2>2. CASE UNCHANGED dev
    BY <1>1, <2>2
  <2> QED
    BY <2>1, <2>2
    DEF SetBufLen, AllocRing, ClearFull, ClearCurTx, ClearDirtyTx, ClearSkbuffs
<1>6. opening' \in [dev : Devs, pc : OpenLabels]
  <2>1. opening \in [dev : Devs, pc : OpenLabels]
    BY DEF TypeOK
  <2>2. \E l \in OpenLabels : opening' = [opening EXCEPT !.pc = l]
    BY DEF SetBufLen, AllocRing, ClearFull, ClearCurTx, ClearDirtyTx,
           ClearSkbuffs, StartQueue, OpenAt, OpenLabels
  <2> QED
    BY <2>1, <2>2
<1>7. UNCHANGED <<thr, own, sent, rcvd, count, fault>>
  BY DEF SetBufLen, AllocRing, ClearFull, ClearCurTx, ClearDirtyTx,
         ClearSkbuffs, StartQueue
<1> QED
  BY <1>4, <1>5, <1>6, <1>7

LEMMA OpenSetsTyped ==
  ASSUME TypeOK, NEW d \in Devs,
         \/ SetBufLen(d) \/ AllocRing(d) \/ ClearFull(d) \/ ClearCurTx(d)
         \/ ClearDirtyTx(d) \/ ClearSkbuffs(d) \/ StartQueue(d)
  PROVE  TypeOK'
BY OpenSets DEF TypeOK

LEMMA ReleaseTyped ==
  ASSUME TypeOK, NEW d \in Devs, Release(d) PROVE TypeOK'
<1>1. dev' \in [Devs -> DevStates]
  BY DevField DEF Release, TypeOK
<1> QED
  BY <1>1 DEF Release, TypeOK

LEMMA StartXmitTyped ==
  ASSUME TypeOK, NEW d \in Devs, NEW s \in Skbs, StartXmit(d, s) PROVE TypeOK'
<1> DEFINE entry == priv[d].cur_tx % NUM_TX_DESC
<1>1. entry \in Slots
  <2>1. priv[d].cur_tx \in 0..MaxCurTx
    BY DEF TypeOK, PrivStates
  <2> QED
    BY <2>1, Sizes, Entry
<1>2. priv' \in [Devs -> PrivStates]
  <2>1. priv \in [Devs -> PrivStates]
    BY DEF TypeOK
  <2>2. [priv[d] EXCEPT !.tx_skbuff[entry] = s] \in PrivStates
    BY <1>1, <2>1, SkbuffField
  <2>3. priv' = [priv EXCEPT ![d].tx_skbuff[entry] = s]
    BY DEF StartXmit
  <2> QED
    BY <2>1, <2>2, <2>3
<1>3. CASE UNCHANGED <<dev, thr, own, sent>>
  BY <1>2, <1>3 DEF StartXmit, TypeOK
<1>4. CASE s \notin Short
  <2>1. dev' \in [Devs -> DevStates]
    <3>1. dev \in [Devs -> DevStates] /\ dev' = [dev EXCEPT ![d].tbusy = TRUE]
      BY <1>4 DEF StartXmit, TypeOK
    <3> QED
      BY <3>1, DevField
  <2>2. own' \in [Skbs -> {"stack", "driver", "freed"}]
    BY <1>4 DEF StartXmit, TypeOK
  <2>3. sent' \in [Devs -> Seq(Skbs)]
    <3>1. sent \in [Devs -> Seq(Skbs)] /\ sent' = [sent EXCEPT ![d] = Append(@, s)]
      BY <1>4 DEF StartXmit, TypeOK
    <3> QED
      BY <3>1
  <2>4. thr' \in [Threads -> ThreadStates]
    <3> DEFINE l == IF loopback = 1 THEN "mark_rx" ELSE "post"
    <3>1. /\ thr \in [Threads -> ThreadStates]
          /\ thr' = [thr EXCEPT ![Xmit(d)].skb = s, ![Xmit(d)].entry = entry,
                                ![Xmit(d)].pc = l]
      BY <1>4 DEF StartXmit, TypeOK
    <3>2. Xmit(d) \in Threads /\ l \in Labels
      BY ThreadsAre DEF Labels
    <3> HIDE DEF l, entry
    <3> QED
      BY <1>1, <3>1, <3>2, ThreadField
  <2> QED
    BY <1>2, <2>1, <2>2, <2>3, <2>4 DEF StartXmit, TypeOK
<1> QED
  BY <1>3, <1>4 DEF StartXmit

LEMMA MarkRxTyped ==
  ASSUME TypeOK, NEW d \in Devs, MarkRx(d) PROVE TypeOK'
<1>1. thr' \in [Threads -> ThreadStates]
  BY ThreadsAre, GoToTyped DEF MarkRx, TypeOK, Labels
<1>2. priv' \in [Devs -> PrivStates]
  BY PrivField DEF MarkRx, TypeOK
<1> QED
  BY <1>1, <1>2 DEF MarkRx, TypeOK

LEMMA CopyToRingTyped ==
  ASSUME TypeOK, NEW d \in Devs, CopyToRing(d), Peer(d) \in Devs,
         thr[Xmit(d)].skb \in Skbs
  PROVE  TypeOK'
<1>1. thr' \in [Threads -> ThreadStates]
  <2>1. CASE UNCHANGED thr
    BY <2>1 DEF TypeOK
  <2>2. CASE thr' = [thr EXCEPT ![Xmit(d)].pc = "isr_lock",
                                ![Xmit(d)].dev = Peer(d)]
    BY <2>2, ThreadsAre, ThreadField DEF TypeOK, Labels
  <2> QED
    BY <2>1, <2>2 DEF CopyToRing
<1>2. priv' \in [Devs -> PrivStates]
  <2>1. CASE UNCHANGED priv
    BY <2>1 DEF TypeOK
  <2>2. CASE priv' = [priv EXCEPT ![Peer(d)].ring = thr[Xmit(d)].skb]
    BY <2>2, PrivField DEF TypeOK
  <2> QED
    BY <2>1, <2>2 DEF CopyToRing
<1>3. fault' \in {fault} \cup NoRing
  BY DEF CopyToRing, Oops
<1> QED
  BY <1>1, <1>2, <1>3 DEF CopyToRing, TypeOK

LEMMA MarkTxTyped ==
  ASSUME TypeOK, NEW d \in Devs, MarkTx(d), priv[d].cur_tx < MaxCurTx
  PROVE  TypeOK'
<1>1. thr' \in [Threads -> ThreadStates]
  <2>1. thr' = [thr EXCEPT ![Xmit(d)].pc = "isr_lock", ![Xmit(d)].dev = d]
    BY DEF MarkTx
  <2> QED
    BY <2>1, ThreadsAre, ThreadField DEF TypeOK, Labels
<1>2. priv' \in [Devs -> PrivStates]
  <2>1. priv \in [Devs -> PrivStates]
    BY DEF TypeOK
  <2>a. thr[Xmit(d)].entry \in Slots
    BY ThreadsAre DEF TypeOK, ThreadStates
  <2>b. thr[Xmit(d)].entry \in 0..NUM_TX_DESC
    BY <2>a, Sizes
  <2>2. priv[d].cur_tx + 1 \in 0..MaxCurTx
    BY <2>1, Sizes DEF PrivStates
  <2>3. CountTx(priv[d]) \in PrivStates
    BY <2>1, <2>2, PrivField DEF CountTx
  <2>4. [CountTx(priv[d]) EXCEPT !.status = {TX},
           !.dirty_tx = thr[Xmit(d)].entry] \in PrivStates
    BY <2>b, <2>3, PrivField
  <2> QED
    BY <2>1, <2>4 DEF MarkTx
<1> QED
  BY <1>1, <1>2 DEF MarkTx, TypeOK

LEMMA PostTyped ==
  ASSUME TypeOK, NEW d \in Devs, Post(d), priv[d].cur_tx < MaxCurTx
  PROVE  TypeOK'
<1>1. thr' \in [Threads -> ThreadStates]
  BY ThreadsAre, GoToTyped DEF Post, TypeOK, Labels
<1>2. priv' \in [Devs -> PrivStates]
  <2>1. priv \in [Devs -> PrivStates]
    BY DEF TypeOK
  <2>2. priv[d].cur_tx + 1 \in 0..MaxCurTx
    BY <2>1, Sizes DEF PrivStates
  <2>3. CountTx(priv[d]) \in PrivStates
    BY <2>1, <2>2, PrivField DEF CountTx
  <2> QED
    BY <2>1, <2>3 DEF Post
<1> QED
  BY <1>1, <1>2 DEF Post, TypeOK

LEMMA ProgramTyped ==
  ASSUME TypeOK, NEW d \in Devs, Program(d) PROVE TypeOK'
<1>1. thr' \in [Threads -> ThreadStates]
  BY ThreadsAre, GoToTyped DEF Program, TypeOK, Labels
<1>2. priv' \in [Devs -> PrivStates]
  <2>1. priv \in [Devs -> PrivStates]
    BY DEF TypeOK
  <2>2. /\ thr[Xmit(d)].entry \in Slots
        /\ thr[Xmit(d)].skb \in Skbs \cup {NULL}
    BY ThreadsAre DEF TypeOK, ThreadStates
  <2> QED
    BY <2>1, <2>2, SkbuffField DEF Program
<1> QED
  BY <1>1, <1>2 DEF Program, TypeOK

LEMMA CheckFullTyped ==
  ASSUME TypeOK, NEW d \in Devs, CheckFull(d) PROVE TypeOK'
<1>1. thr' \in [Threads -> ThreadStates]
  BY ThreadsAre, GoToTyped DEF CheckFull, TypeOK, Labels
<1>2. dev' \in [Devs -> DevStates]
  <2>1. CASE UNCHANGED dev
    BY <2>1 DEF TypeOK
  <2>2. CASE dev' = [dev EXCEPT ![d].tbusy = FALSE]
    BY <2>2, DevField DEF TypeOK
  <2> QED
    BY <2>1, <2>2 DEF CheckFull
<1> QED
  BY <1>1, <1>2 DEF CheckFull, TypeOK

LEMMA SetFullTyped ==
  ASSUME TypeOK, NEW d \in Devs, SetFull(d) PROVE TypeOK'
<1>1. thr' \in [Threads -> ThreadStates]
  BY ThreadsAre, GoToTyped DEF SetFull, TypeOK, Labels
<1>2. priv' \in [Devs -> PrivStates]
  BY PrivField DEF SetFull, TypeOK
<1> QED
  BY <1>1, <1>2 DEF SetFull, TypeOK

LEMMA RecheckTyped ==
  ASSUME TypeOK, NEW d \in Devs, Recheck(d) PROVE TypeOK'
<1>1. thr' \in [Threads -> ThreadStates]
  BY ThreadsAre, GoToTyped DEF Recheck, GiveUp, TypeOK, Labels
<1>2. priv' \in [Devs -> PrivStates]
  <2>1. CASE UNCHANGED priv
    BY <2>1 DEF TypeOK
  <2>2. CASE priv' = [priv EXCEPT ![d].tx_full = FALSE]
    BY <2>2, PrivField DEF TypeOK
  <2> QED
    BY <2>1, <2>2 DEF Recheck
<1>3. dev' \in [Devs -> DevStates]
  <2>1. CASE UNCHANGED dev
    BY <2>1 DEF TypeOK
  <2>2. CASE dev' = [dev EXCEPT ![d].tbusy = FALSE]
    BY <2>2, DevField DEF TypeOK
  <2> QED
    BY <2>1, <2>2 DEF Recheck
<1> QED
  BY <1>1, <1>2, <1>3 DEF Recheck, TypeOK

LEMMA StopQueueTyped ==
  ASSUME TypeOK, NEW d \in Devs, StopQueue(d) PROVE TypeOK'
<1>1. thr' \in [Threads -> ThreadStates]
  BY ThreadsAre, GoToTyped DEF StopQueue, TypeOK, Labels
<1>2. dev' \in [Devs -> DevStates]
  BY DevField DEF StopQueue, TypeOK
<1> QED
  BY <1>1, <1>2 DEF StopQueue, TypeOK

LEMMA IsrLockTyped ==
  ASSUME TypeOK, NEW t \in Threads, IsrLock(t) PROVE TypeOK'
<1>1. thr[t].dev \in Devs
  BY DEF TypeOK, ThreadStates
<1>2. priv' \in [Devs -> PrivStates]
  BY <1>1, PrivField DEF IsrLock, TypeOK
<1>3. thr' \in [Threads -> ThreadStates]
  <2>1. priv[thr[t].dev].status \in SUBSET {RX, TX}
    BY <1>1 DEF TypeOK, PrivStates
  <2>2. PICK w \in SUBSET {RX, TX} :
          thr' = [thr EXCEPT ![t].word = w, ![t].pc = "isr_rx"]
    BY <2>1 DEF IsrLock
  <2> QED
    BY <2>2, ThreadField DEF TypeOK, Labels
<1> QED
  BY <1>2, <1>3 DEF IsrLock, TypeOK

LEMMA IsrRxTyped ==
  ASSUME TypeOK, NEW t \in Threads, IsrRx(t) PROVE TypeOK'
<1> DEFINE d == thr[t].dev
<1>1. d \in Devs
  BY DEF TypeOK, ThreadStates
<1>2. thr' \in [Threads -> ThreadStates]
  <2>1. thr' = [thr EXCEPT ![t].i = priv[d].dirty_tx, ![t].pc = "isr_tx"]
    BY DEF IsrRx
  <2>2. priv[d].dirty_tx \in 0..NUM_TX_DESC
    BY <1>1 DEF TypeOK, PrivStates
  <2> QED
    BY <2>1, <2>2, ThreadField DEF TypeOK, Labels
<1>3. \/ UNCHANGED priv
      \/ priv' = [priv EXCEPT ![d].ring = IF @ \in NoRing THEN @ ELSE Junk]
      \/ priv' = [priv EXCEPT ![d].rx_dropped = @ + 1]
  BY DEF IsrRx, Receive, DropPacket
<1>4. priv' \in [Devs -> PrivStates]
  <2>1. priv \in [Devs -> PrivStates]
    BY DEF TypeOK
  <2>2. /\ priv[d].rx_dropped + 1 \in Nat
        /\ priv[d].ring \in Skbs \cup NoRing \cup {Junk}
    BY <1>1, <2>1 DEF PrivStates
  <2>3. /\ [priv[d] EXCEPT !.ring = IF @ \in NoRing THEN @ ELSE Junk]
             \in PrivStates
        /\ [priv[d] EXCEPT !.rx_dropped = @ + 1] \in PrivStates
    BY <1>1, <2>1, <2>2, PrivField
  <2> QED
    BY <1>1, <1>3, <2>1, <2>3
<1>5. rcvd' \in [Devs -> Seq(Skbs \cup {Junk})]
  <2>1. UNCHANGED rcvd \/ rcvd' = [rcvd EXCEPT ![d] = Append(@, PacketAt(d))]
    BY DEF IsrRx, Receive
  <2>2. PacketAt(d) \in Skbs \cup {Junk}
    BY DEF PacketAt, Skbs
  <2>3. rcvd \in [Devs -> Seq(Skbs \cup {Junk})]
    BY DEF TypeOK
  <2>4. Append(rcvd[d], PacketAt(d)) \in Seq(Skbs \cup {Junk})
    BY <1>1, <2>2, <2>3
  <2> HIDE DEF d
  <2> QED
    BY <1>1, <2>1, <2>3, <2>4
<1>6. fault' \in {fault} \cup NoRing
  BY DEF IsrRx, Receive, Oops, MayOops, NoRing
<1> QED
  BY <1>2, <1>4, <1>5, <1>6 DEF IsrRx, TypeOK

LEMMA IsrFreeTyped ==
  ASSUME TypeOK, NEW t \in Threads, IsrFree(t) PROVE TypeOK'
<1> DEFINE d == thr[t].dev
           i == thr[t].i
<1>1. d \in Devs
  BY DEF TypeOK, ThreadStates
<1>2. CASE /\ UNCHANGED <<dev, priv, thr, own>>
           /\ fault' \in {"null_skb", "slot_overrun", "double_free"}
  BY <1>2 DEF IsrFree, TypeOK
<1>3. CASE /\ i \in Slots
           /\ own' = [own EXCEPT ![priv[d].tx_skbuff[i]] = "freed"]
           /\ priv' = [priv EXCEPT ![d].tx_skbuff[i] = NULL,
                                   ![d].tx_full = FALSE]
           /\ dev' = [dev EXCEPT ![d].tbusy = @ /\ ~priv[d].tx_full]
           /\ thr' = [thr EXCEPT ![t].i = NextEntry(i)]
           /\ UNCHANGED fault
  <2>1. dev' \in [Devs -> DevStates]
    <3>1. dev \in [Devs -> DevStates]
      BY DEF TypeOK
    <3>2. dev' = dev \/ dev' = [dev EXCEPT ![d].tbusy = FALSE]
      <4>1. CASE priv[d].tx_full
        BY <1>3, <4>1
      <4>2. CASE ~priv[d].tx_full
        BY <1>1, <1>3, <3>1, <4>2 DEF DevStates
      <4> QED
        BY <4>1, <4>2
    <3> QED
      BY <1>1, <3>1, <3>2, DevField
  <2>2. priv' \in [Devs -> PrivStates]
    <3>1. priv \in [Devs -> PrivStates]
      BY DEF TypeOK
    <3>2. [priv[d] EXCEPT !.tx_skbuff[i] = NULL] \in PrivStates
      BY <1>1, <1>3, <3>1, SkbuffField
    <3>3. [priv[d] EXCEPT !.tx_skbuff[i] = NULL, !.tx_full = FALSE]
            \in PrivStates
      BY <3>2, PrivField
    <3> QED
      BY <1>1, <1>3, <3>1, <3>3
  <2>3. thr' \in [Threads -> ThreadStates]
    <3>1. i + 1 \in 0..NUM_TX_DESC
      BY <1>3, Sizes
    <3> QED
      BY <1>3, <3>1, ThreadField DEF TypeOK, NextEntry
  <2>4. own' \in [Skbs -> {"stack", "driver", "freed"}]
    BY <1>3 DEF TypeOK
  <2> QED
    BY <1>3, <2>1, <2>2, <2>3, <2>4 DEF IsrFree, TypeOK
<1> QED
  BY <1>2, <1>3 DEF IsrFree, Oops

LEMMA IsrExitTyped ==
  ASSUME TypeOK, NEW t \in Threads, IsrExit(t) PROVE TypeOK'
<1> DEFINE d == thr[t].dev
<1>1. d \in Devs /\ thr[t].i \in 0..NUM_TX_DESC
  BY DEF TypeOK, ThreadStates
<1>2. thr' \in [Threads -> ThreadStates]
  BY GoToTyped DEF IsrExit, TypeOK, Labels
<1>3. priv' \in [Devs -> PrivStates]
  <2>1. priv \in [Devs -> PrivStates]
    BY DEF TypeOK
  <2>2. /\ [priv[d] EXCEPT !.dirty_tx = @] \in PrivStates
        /\ [priv[d] EXCEPT !.dirty_tx = thr[t].i] \in PrivStates
    BY <1>1, <2>1, PrivField DEF PrivStates
  <2>3. Leave(priv[d], t) \in PrivStates
    BY <2>2, PrivField DEF Leave
  <2> QED
    BY <1>1, <2>1, <2>3 DEF IsrExit
<1> QED
  BY <1>2, <1>3 DEF IsrExit, TypeOK

-----------------------------------------------------------------------------
(* With hardware: the window of the descriptors in use.                    *)

(* There is one device, with two threads.                                  *)
LEMMA OneDevice ==
  ASSUME loopback = 0, NEW d \in Devs
  PROVE  /\ \A e \in Devs : e = d
         /\ \A t \in Threads : t = Xmit(d) \/ t = Irq(d)
         /\ Xmit(d) # Irq(d)
         /\ Irq(d)[1] = "irq" /\ Xmit(d)[1] = "xmit" /\ Irq(d)[2] = d
         /\ MaxCurTx = 8
BY Sizes DEF Devs, Threads, Xmit, Irq, MaxCurTx, NUM_TX_DESC

(* What lies where, for one device.                                        *)
LEMMA Fields ==
  ASSUME TypeOK, NEW d \in Devs
  PROVE  /\ priv[d].cur_tx \in 0..MaxCurTx
         /\ priv[d].dirty_tx \in 0..4
         /\ First(d) \in 0..4
         /\ priv[d].tx_skbuff \in [Slots -> Skbs \cup {NULL}]
         /\ thr[Xmit(d)].skb \in Skbs \cup {NULL}
         /\ thr[Xmit(d)].entry \in Slots
         /\ thr[Xmit(d)].pc \in Labels /\ thr[Irq(d)].pc \in Labels
<1>1. priv[d] \in PrivStates
  BY DEF TypeOK
<1>2. thr[Xmit(d)] \in ThreadStates /\ thr[Irq(d)] \in ThreadStates
  BY ThreadsAre DEF TypeOK
<1>3. /\ priv[d].cur_tx \in 0..MaxCurTx
      /\ priv[d].dirty_tx \in 0..4
      /\ priv[d].tx_skbuff \in [Slots -> Skbs \cup {NULL}]
  BY <1>1, Sizes DEF PrivStates
<1>4. /\ thr[Xmit(d)].skb \in Skbs \cup {NULL}
      /\ thr[Xmit(d)].entry \in Slots
      /\ thr[Xmit(d)].pc \in Labels /\ thr[Irq(d)].pc \in Labels
      /\ thr[Irq(d)].i \in 0..4
  BY <1>2, Sizes DEF ThreadStates
<1> QED
  BY <1>3, <1>4 DEF First

(* Four consecutive counters designate four descriptors.                   *)
LEMMA Distinct ==
  ASSUME NEW i \in Nat, NEW j \in Nat, i < j, j < i + 4
  PROVE  i % NUM_TX_DESC # j % NUM_TX_DESC
BY DEF NUM_TX_DESC

(* When no interrupt is being handled, the driver's difference of counters *)
(* is the number of descriptors in use.                                    *)
LEMMA UsedIsInUse ==
  ASSUME TypeOK, NEW d \in Devs, WindowInv(d), thr[Irq(d)].pc # "isr_tx"
  PROVE  Used(d) = InUse(d)
<1>1. First(d) = priv[d].dirty_tx
  BY DEF First
<1>2. priv[d].cur_tx - priv[d].dirty_tx \in 0..4
  BY <1>1, Fields, Sizes DEF WindowInv, InUse, NUM_TX_DESC
<1> QED
  BY <1>1, <1>2 DEF Used, InUse, Width

(* A step that leaves the descriptors, their owners, the flags of the queue *)
(* and both threads alone.                                                 *)
LEMMA HardwareFrame ==
  ASSUME NEW d \in Devs, HardwareAt(d),
         InOpen(d, "cur_tx")' <=> InOpen(d, "cur_tx"),
         priv'[d].cur_tx = priv[d].cur_tx, priv'[d].dirty_tx = priv[d].dirty_tx,
         priv'[d].tx_skbuff = priv[d].tx_skbuff,
         priv'[d].tx_full = priv[d].tx_full, UNCHANGED own,
         dev'[d].up /\ ~dev'[d].tbusy => dev[d].up /\ ~dev[d].tbusy,
         thr'[Xmit(d)] = thr[Xmit(d)],
         First(d)' = First(d), 
         thr'[Irq(d)].pc = "isr_tx" /\ TX \notin thr'[Irq(d)].word =>
           thr'[Irq(d)].i = priv[d].dirty_tx
  PROVE  HardwareAt(d)'
<1>1. InUse(d)' = InUse(d) /\ Pending(d)' = Pending(d)
  BY DEF InUse, Pending
<1>2. WindowInv(d)'
  BY <1>1 DEF HardwareAt, WindowInv
<1>3. PendingInv(d)'
  BY <1>1 DEF HardwareAt, PendingInv, Slot
<1>4. PostInv(d)'
  BY <1>1 DEF HardwareAt, PostInv, Slot
<1>5. FullInv(d)'
  BY <1>1 DEF HardwareAt, FullInv
<1> QED
  BY <1>2, <1>3, <1>4, <1>5 DEF HardwareAt

(* A process runs when neither a transmission nor an interrupt does.       *)
LEMMA ProcessAlone ==
  ASSUME ProcessMayRun, NEW d \in Devs
  PROVE  /\ thr[Irq(d)].pc = "idle" /\ thr[Xmit(d)].pc = "idle"
         /\ fault = "none" /\ First(d) = priv[d].dirty_tx
BY ThreadsAre DEF ProcessMayRun, Quiet, Idle, First

(* The same for the descriptors that are not in use.                       *)
LEMMA RestFrame ==
  ASSUME NEW d \in Devs, RestInv(d),
         priv'[d].cur_tx = priv[d].cur_tx,
         priv'[d].tx_skbuff = priv[d].tx_skbuff,
         thr[Xmit(d)].pc = "post" => thr'[Xmit(d)].pc = "post"
  PROVE  RestInv(d)'
BY DEF RestInv

LEMMA OpenMoves ==
  ASSUME NEW d \in Devs, NEW k, NEW l, Opening(d, k), OpenAt(l)
  PROVE  /\ opening = [dev |-> d, pc |-> k] /\ opening' = [dev |-> d, pc |-> l]
         /\ \A m \in OpenLabels : /\ InOpen(d, m) <=> m = k
                                  /\ InOpen(d, m)' <=> m = l
BY DEF Opening, OpenAt, InOpen

(* And between the two stores of line 411.                                 *)
LEMMA ResetFrame ==
  ASSUME NEW d \in Devs, ResetAt(d),
         priv'[d].cur_tx = priv[d].cur_tx, priv'[d].dirty_tx = priv[d].dirty_tx,
         priv'[d].tx_skbuff = priv[d].tx_skbuff,
         priv'[d].tx_full = priv[d].tx_full, UNCHANGED own,
         First(d)' = First(d),
         thr'[Irq(d)].pc = "isr_tx" /\
           (TX \notin thr'[Irq(d)].word \/ priv[d].dirty_tx = 0) =>
             thr'[Irq(d)].i = priv[d].dirty_tx
  PROVE  ResetAt(d)'
<1>1. Unread(d)' = Unread(d)
  BY DEF Unread
<1>2. ShortInv' <=> ShortInv
  BY DEF ShortInv
<1> QED
  BY <1>1, <1>2 DEF ResetAt

(* open: up to line 410 and after the queue has been started nothing of    *)
(* this changes.                                                           *)
LEMMA RingSetHw ==
  ASSUME TypeOK, NEW d \in Devs, SetBufLen(d) \/ AllocRing(d),
         HardwareAt(d), RestInv(d)
  PROVE  HardwareAt(d)' /\ RestInv(d)'
<1>1. UNCHANGED <<dev, thr, own>> /\ ProcessMayRun
  BY DEF SetBufLen, AllocRing, Opening
<1>2. /\ priv'[d].cur_tx = priv[d].cur_tx
      /\ priv'[d].dirty_tx = priv[d].dirty_tx
      /\ priv'[d].tx_skbuff = priv[d].tx_skbuff
      /\ priv'[d].tx_full = priv[d].tx_full
  BY DEF SetBufLen, AllocRing, TypeOK, PrivStates
<1>3. First(d)' = First(d)
  BY <1>1, <1>2 DEF First
<1>4. InOpen(d, "cur_tx")' <=> InOpen(d, "cur_tx")
  BY DEF SetBufLen, AllocRing, Opening, OpenAt, InOpen, TypeOK
<1>5. thr'[Irq(d)].pc # "isr_tx"
  BY <1>1, ProcessAlone
<1> QED
  BY <1>1, <1>2, <1>3, <1>4, <1>5, HardwareFrame, RestFrame

LEMMA ClearFullHw ==
  ASSUME TypeOK, NEW d \in Devs, ClearFull(d), HardwareAt(d), RestInv(d)
  PROVE  HardwareAt(d)' /\ RestInv(d)'
<1>1. /\ UNCHANGED <<dev, thr, own>> /\ ProcessMayRun
      /\ InOpen(d, "cur_tx")'
  BY DEF ClearFull, Opening, OpenAt, InOpen
<1>2. /\ priv'[d].cur_tx = priv[d].cur_tx
      /\ priv'[d].dirty_tx = priv[d].dirty_tx
      /\ priv'[d].tx_skbuff = priv[d].tx_skbuff
      /\ priv'[d].tx_full = FALSE
  BY DEF ClearFull, TypeOK, PrivStates
<1>3. First(d)' = First(d) /\ InUse(d)' = InUse(d) /\ Pending(d)' = Pending(d)
  BY <1>1, <1>2 DEF First, InUse, Pending
<1>4. thr[Irq(d)].pc = "idle" /\ thr[Xmit(d)].pc = "idle"
  BY <1>1, ProcessAlone
<1>5. WindowInv(d)' /\ PendingInv(d)'
  BY <1>1, <1>2, <1>3 DEF HardwareAt, WindowInv, PendingInv, Slot
<1>6. PostInv(d)'
  BY <1>1, <1>4 DEF PostInv
<1>7. FullInv(d)'
  BY <1>1, <1>2, <1>3, <1>4 DEF HardwareAt, FullInv
<1> QED
  BY <1>1, <1>2, <1>5, <1>6, <1>7, RestFrame DEF HardwareAt

(* Four different packets at most lie from dirty_tx on: those in use, and  *)
(* one that was too short.                                                 *)
LEMMA ClearCurTxHw ==
  ASSUME TypeOK, NEW d \in Devs, loopback = 0, ClearCurTx(d),
         HardwareAt(d), RestInv(d), ShortInv
  PROVE  ResetAt(d)'
<1> DEFINE p == priv[d]
<1>1. /\ UNCHANGED <<dev, thr, own>> /\ ProcessMayRun
      /\ InOpen(d, "cur_tx")
  BY DEF ClearCurTx, Opening, InOpen
<1>2. /\ priv'[d].cur_tx = 0
      /\ priv'[d].dirty_tx = p.dirty_tx
      /\ priv'[d].tx_skbuff = p.tx_skbuff
      /\ priv'[d].tx_full = p.tx_full
  BY DEF ClearCurTx, TypeOK, PrivStates
<1>3. /\ thr[Irq(d)].pc = "idle" /\ thr[Xmit(d)].pc = "idle"
      /\ First(d) = p.dirty_tx
  BY <1>1, ProcessAlone
<1>4. First(d)' = First(d) /\ Unread(d)' = Unread(d)
  BY <1>1, <1>2, <1>3 DEF First, Unread
<1>5. /\ p.cur_tx \in 0..8 /\ First(d) \in 0..4
      /\ First(d) <= p.cur_tx /\ p.cur_tx - First(d) <= 4
      /\ p.tx_skbuff \in [Slots -> Skbs \cup {NULL}]
  BY Fields, OneDevice DEF HardwareAt, WindowInv, InUse, NUM_TX_DESC
<1>6. ASSUME NEW i \in Unread(d)
      PROVE  \/ i \in Pending(d) /\ Slot(d, i) = p.tx_skbuff[i]
             \/ i = p.cur_tx /\ p.tx_skbuff[i] \in Short
  <2>1. i \in 0..3 /\ i >= First(d) /\ p.tx_skbuff[i] # NULL /\ i \in Slots
    BY <1>6, Sizes DEF Unread
  <2>2. ~(i > p.cur_tx)
    BY <2>1 DEF RestInv
  <2>3. CASE i < p.cur_tx
    <3>1. i \in Pending(d)
      BY <1>5, <2>1, <2>3 DEF Pending
    <3>2. i % NUM_TX_DESC = i
      BY <2>1 DEF NUM_TX_DESC
    <3> QED
      BY <3>1, <3>2 DEF Slot
  <2>4. CASE i = p.cur_tx
    BY <1>3, <2>1, <2>4 DEF RestInv
  <2> QED
    BY <1>5, <2>1, <2>2, <2>3, <2>4
<1>7. ASSUME NEW i \in Unread(d)
      PROVE  /\ own[p.tx_skbuff[i]] # "freed"
             /\ \A j \in Unread(d) : p.tx_skbuff[i] = p.tx_skbuff[j] => i = j
  <2>1. CASE i \in Pending(d) /\ Slot(d, i) = p.tx_skbuff[i]
    <3>1. /\ own[p.tx_skbuff[i]] = "driver"
          /\ \A j \in Pending(d) : p.tx_skbuff[i] = Slot(d, j) => i = j
      BY <2>1 DEF HardwareAt, PendingInv
    <3>2. p.tx_skbuff[i] \notin Short
      BY <3>1 DEF ShortInv
    <3> QED
      BY <1>6, <3>1, <3>2
  <2>2. CASE i = p.cur_tx /\ p.tx_skbuff[i] \in Short
    <3>1. own[p.tx_skbuff[i]] = "stack"
      BY <2>2 DEF ShortInv
    <3>2. ASSUME NEW j \in Unread(d), p.tx_skbuff[i] = p.tx_skbuff[j]
          PROVE  i = j
      <4>1. CASE j \in Pending(d) /\ Slot(d, j) = p.tx_skbuff[j]
        <5>1. own[Slot(d, j)] = "driver"
          BY <4>1 DEF HardwareAt, PendingInv
        <5> QED
          BY <3>1, <3>2, <4>1, <5>1
      <4>2. CASE j = p.cur_tx
        BY <2>2, <4>2
      <4> QED
        BY <1>6, <4>1, <4>2
    <3> QED
      BY <3>1, <3>2
  <2> QED
    BY <1>6, <2>1, <2>2
<1>8. ~p.tx_full
  BY <1>1, <1>3 DEF HardwareAt, FullInv, ClearCurTx
<1> QED
  BY <1>1, <1>2, <1>3, <1>4, <1>5, <1>7, <1>8 DEF ResetAt, ShortInv

(* Both counters are 0: nothing is in use, whatever the descriptors hold.  *)
LEMMA ClearDirtyTxHw ==
  ASSUME TypeOK, NEW d \in Devs, ClearDirtyTx(d), ResetAt(d)
  PROVE  HardwareAt(d)' /\ ShortInv' /\ priv'[d].cur_tx = 0
<1>1. UNCHANGED <<dev, thr, own>> /\ ProcessMayRun
  BY DEF ClearDirtyTx, Opening
<1>2. /\ priv'[d].cur_tx = 0 /\ priv'[d].dirty_tx = 0
      /\ priv'[d].tx_full = FALSE
  BY DEF ClearDirtyTx, ResetAt, TypeOK, PrivStates
<1>3. /\ thr[Irq(d)].pc = "idle" /\ thr[Xmit(d)].pc = "idle"
      /\ First(d) = priv[d].dirty_tx
  BY <1>1, ProcessAlone
<1>4. First(d)' = 0 /\ InUse(d)' = 0 /\ Pending(d)' = {}
  BY <1>1, <1>2, <1>3 DEF First, InUse, Pending
<1>5. HardwareAt(d)'
  BY <1>1, <1>2, <1>3, <1>4, Sizes
  DEF HardwareAt, WindowInv, PendingInv, PostInv, FullInv
<1>6. ShortInv'
  BY <1>1, <1>3 DEF ResetAt, ShortInv
<1> QED
  BY <1>2, <1>5, <1>6

LEMMA ClearSkbuffsHw ==
  ASSUME TypeOK, NEW d \in Devs, ClearSkbuffs(d), HardwareAt(d),
         priv[d].cur_tx = 0
  PROVE  HardwareAt(d)' /\ RestInv(d)' /\ priv'[d].cur_tx = 0
<1>1. UNCHANGED <<dev, thr, own>> /\ ProcessMayRun
  BY DEF ClearSkbuffs, Opening
<1>2. /\ priv'[d].cur_tx = 0 /\ priv'[d].dirty_tx = priv[d].dirty_tx
      /\ priv'[d].tx_full = priv[d].tx_full
      /\ priv'[d].tx_skbuff = NoSkbs
  BY DEF ClearSkbuffs, TypeOK, PrivStates
<1>3. thr[Irq(d)].pc = "idle" /\ thr[Xmit(d)].pc = "idle"
  BY <1>1, ProcessAlone
<1>4. First(d) \in 0..4 /\ First(d) <= 0 /\ First(d) = priv[d].dirty_tx
  BY <1>1, Fields, ProcessAlone DEF HardwareAt, WindowInv
<1>5. First(d)' = 0 /\ InUse(d)' = 0 /\ InUse(d) = 0 /\ Pending(d)' = {}
  BY <1>1, <1>2, <1>3, <1>4 DEF First, InUse, Pending
<1>6. ~priv[d].tx_full
  BY <1>3, <1>5 DEF HardwareAt, FullInv, NUM_TX_DESC
<1>7. HardwareAt(d)'
  <2>1. ~InOpen(d, "cur_tx")'
    BY OpenMoves DEF ClearSkbuffs, OpenLabels
  <2>2. /\ priv'[d].cur_tx = 0 /\ priv'[d].dirty_tx = 0 /\ ~priv'[d].tx_full
        /\ thr'[Irq(d)].pc = "idle" /\ thr'[Xmit(d)].pc = "idle"
    BY <1>1, <1>2, <1>3, <1>4, <1>6
  <2>3. WindowInv(d)' /\ PendingInv(d)'
    BY <1>5, <2>2 DEF WindowInv, PendingInv, NUM_TX_DESC
  <2>4. PostInv(d)'
    BY <2>2 DEF PostInv
  <2>5. FullInv(d)'
    BY <1>5, <2>1, <2>2 DEF FullInv, NUM_TX_DESC
  <2> QED
    BY <2>3, <2>4, <2>5 DEF HardwareAt
<1>8. RestInv(d)'
  BY <1>2 DEF RestInv, NoSkbs
<1> QED
  BY <1>2, <1>7, <1>8

LEMMA StartQueueHw ==
  ASSUME TypeOK, NEW d \in Devs, StartQueue(d), HardwareAt(d), RestInv(d),
         priv[d].cur_tx = 0
  PROVE  HardwareAt(d)' /\ RestInv(d)'
<1>1. UNCHANGED <<priv, thr, own>> /\ ProcessMayRun
  BY DEF StartQueue, Opening
<1>2. thr[Irq(d)].pc = "idle" /\ thr[Xmit(d)].pc = "idle"
  BY <1>1, ProcessAlone
<1>4. First(d) \in 0..4 /\ First(d) <= 0 /\ First(d) = priv[d].dirty_tx
  BY <1>1, Fields, ProcessAlone DEF HardwareAt, WindowInv
<1>5. First(d)' = 0 /\ InUse(d)' = 0 /\ InUse(d) = 0 /\ Pending(d)' = {}
  BY <1>1, <1>2, <1>4 DEF First, InUse, Pending
<1>6. ~priv[d].tx_full
  BY <1>2, <1>5 DEF HardwareAt, FullInv, NUM_TX_DESC
<1>7. HardwareAt(d)'
  BY <1>1, <1>2, <1>4, <1>5, <1>6, Sizes
  DEF HardwareAt, WindowInv, PendingInv, PostInv, FullInv
<1> QED
  BY <1>1, <1>7, RestFrame

(* The packet is stored in the descriptor that follows those in use.       *)
LEMMA StartXmitHw ==
  ASSUME TypeOK, NEW d \in Devs, loopback = 0, NEW s \in Skbs,
         StartXmit(d, s), HardwareAt(d),
         InOpen(d, "cur_tx")' <=> InOpen(d, "cur_tx")
  PROVE  HardwareAt(d)'
<1> DEFINE p == priv[d]
           entry == p.cur_tx % NUM_TX_DESC
<1>1. /\ thr[Xmit(d)].pc = "idle" /\ InUse(d) < NUM_TX_DESC
      /\ ~p.tx_full
  <2>1. thr[Xmit(d)].pc = "idle" /\ dev[d].up /\ ~dev[d].tbusy
    BY DEF StartXmit, At
  <2>2. InUse(d) < NUM_TX_DESC
    BY <2>1 DEF HardwareAt, FullInv
  <2>3. InUse(d) \in Int
    BY Fields, OneDevice DEF InUse
  <2> QED
    BY <2>1, <2>2, <2>3 DEF HardwareAt, FullInv, NUM_TX_DESC
<1>2. /\ p.cur_tx \in 0..8 /\ First(d) \in 0..4 /\ entry \in Slots
      /\ First(d) <= p.cur_tx
  BY Fields, OneDevice, Entry DEF HardwareAt, WindowInv
<1>3. /\ priv'[d].cur_tx = p.cur_tx /\ priv'[d].dirty_tx = p.dirty_tx
      /\ priv'[d].tx_full = p.tx_full
      /\ priv'[d].tx_skbuff = [p.tx_skbuff EXCEPT ![entry] = s]
  BY DEF StartXmit, TypeOK, PrivStates
<1>4. thr'[Irq(d)] = thr[Irq(d)]
  BY OneDevice, ThreadsAre DEF StartXmit, TypeOK
<1>5. First(d)' = First(d) /\ InUse(d)' = InUse(d) /\ Pending(d)' = Pending(d)
  BY <1>3, <1>4 DEF First, InUse, Pending
<1>6. WindowInv(d)'
  BY <1>3, <1>4, <1>5 DEF HardwareAt, WindowInv
<1>7. \A i \in Pending(d) : /\ i \in Nat /\ i % NUM_TX_DESC \in Slots
                            /\ Slot(d, i)' = Slot(d, i)
  <2> SUFFICES ASSUME NEW i \in Pending(d)
               PROVE  /\ i \in Nat /\ i % NUM_TX_DESC \in Slots
                      /\ Slot(d, i)' = Slot(d, i)
    OBVIOUS
  <2>1. i \in Nat /\ i < p.cur_tx /\ p.cur_tx < i + 4
    BY <1>1, <1>2 DEF Pending, InUse, NUM_TX_DESC
  <2>2. i % NUM_TX_DESC \in Slots /\ i % NUM_TX_DESC # entry
    BY <1>2, <2>1, Entry, Distinct
  <2>3. p.tx_skbuff \in [Slots -> Skbs \cup {NULL}]
    BY Fields
  <2> HIDE DEF entry
  <2> QED
    BY <1>3, <2>1, <2>2, <2>3 DEF Slot
<1>8. Slot(d, p.cur_tx)' = s
  BY <1>2, <1>3, Fields DEF Slot
<1>9. CASE UNCHANGED <<dev, thr, own>>
  <2>1. PendingInv(d)'
    BY <1>5, <1>7, <1>9 DEF HardwareAt, PendingInv
  <2>2. PostInv(d)' /\ FullInv(d)'
    BY <1>1, <1>3, <1>5, <1>9 DEF HardwareAt, PostInv, FullInv
  <2> QED
    BY <1>6, <2>1, <2>2 DEF HardwareAt
<1>10. CASE s \notin Short
  <2>1. /\ own[s] = "stack" /\ own' = [own EXCEPT ![s] = "driver"]
        /\ own \in [Skbs -> {"stack", "driver", "freed"}]
    BY <1>10 DEF StartXmit, TypeOK
  <2>2. /\ thr'[Xmit(d)].pc = "post" /\ thr'[Xmit(d)].skb = s
        /\ thr'[Xmit(d)].entry = entry
    <3>1. thr' = [thr EXCEPT ![Xmit(d)].skb = s, ![Xmit(d)].entry = entry,
                             ![Xmit(d)].pc = "post"]
      BY <1>10 DEF StartXmit
    <3>2. thr \in [Threads -> ThreadStates] /\ Xmit(d) \in Threads
      BY ThreadsAre DEF TypeOK
    <3> HIDE DEF entry
    <3> QED
      BY <3>1, <3>2 DEF ThreadStates
  <2>3. \A i \in Pending(d) : /\ Slot(d, i) \in Skbs /\ Slot(d, i) # s
                              /\ own'[Slot(d, i)] = own[Slot(d, i)]
    <3> SUFFICES ASSUME NEW i \in Pending(d)
                 PROVE  /\ Slot(d, i) \in Skbs /\ Slot(d, i) # s
                        /\ own'[Slot(d, i)] = own[Slot(d, i)]
      OBVIOUS
    <3>1. Slot(d, i) # NULL /\ own[Slot(d, i)] = "driver"
      BY DEF HardwareAt, PendingInv
    <3>2. Slot(d, i) \in Skbs
      BY <1>7, <3>1, Fields DEF Slot
    <3> QED
      BY <2>1, <3>1, <3>2
  <2>4. PendingInv(d)'
    BY <1>5, <1>7, <2>3 DEF HardwareAt, PendingInv
  <2>5. PostInv(d)'
    <3>1. s # NULL /\ own'[s] = "driver"
      BY <2>1, PacketAssumption DEF Skbs
    <3>2. \A i \in Pending(d)' : Slot(d, i)' # s
      BY <1>5, <1>7, <2>3
    <3>3. InUse(d)' < NUM_TX_DESC
      BY <1>1, <1>5
    <3> QED
      BY <1>3, <1>8, <2>2, <3>1, <3>2, <3>3 DEF PostInv
  <2>6. FullInv(d)'
    BY <1>1, <1>3, <1>5, <2>2 DEF FullInv
  <2> QED
    BY <1>6, <2>4, <2>5, <2>6 DEF HardwareAt
<1> QED
  BY <1>9, <1>10 DEF StartXmit

(* The packet comes into use.                                              *)
LEMMA PostHw ==
  ASSUME TypeOK, NEW d \in Devs, loopback = 0, Post(d), HardwareAt(d),
         InOpen(d, "cur_tx")' <=> InOpen(d, "cur_tx")
  PROVE  HardwareAt(d)'
<1> DEFINE p == priv[d]
           x == thr[Xmit(d)]
<1>1. /\ x.pc = "post" /\ x.skb # NULL /\ own[x.skb] = "driver"
      /\ x.entry = p.cur_tx % NUM_TX_DESC
      /\ Slot(d, p.cur_tx) = x.skb
      /\ InUse(d) < NUM_TX_DESC
      /\ \A i \in Pending(d) : Slot(d, i) # x.skb
  BY DEF Post, At, HardwareAt, PostInv
<1>2. /\ p.cur_tx \in 0..8 /\ First(d) \in 0..4 /\ First(d) <= p.cur_tx
  BY Fields, OneDevice DEF HardwareAt, WindowInv
<1>3. /\ priv'[d].cur_tx = p.cur_tx + 1 /\ priv'[d].dirty_tx = p.dirty_tx
      /\ priv'[d].tx_full = p.tx_full /\ priv'[d].tx_skbuff = p.tx_skbuff
  BY DEF Post, CountTx, TypeOK, PrivStates
<1>4. /\ thr'[Irq(d)] = thr[Irq(d)] /\ thr'[Xmit(d)].pc = "program"
      /\ thr'[Xmit(d)].skb = x.skb /\ thr'[Xmit(d)].entry = x.entry
  BY OneDevice, ThreadsAre DEF Post, GoTo, TypeOK, ThreadStates
<1>5. UNCHANGED <<dev, own>>
  BY DEF Post
<1>6. /\ First(d)' = First(d) /\ InUse(d)' = InUse(d) + 1
      /\ Pending(d)' = Pending(d) \cup {p.cur_tx}
      /\ \A i : Slot(d, i)' = Slot(d, i)
  <2>1. First(d)' = First(d)
    BY <1>3, <1>4 DEF First
  <2>2. InUse(d)' = InUse(d) + 1
    BY <1>2, <1>3, <2>1 DEF InUse
  <2>3. Pending(d)' = Pending(d) \cup {p.cur_tx}
    BY <1>2, <1>3, <2>1 DEF Pending
  <2>4. \A i : Slot(d, i)' = Slot(d, i)
    BY <1>3 DEF Slot
  <2> QED
    BY <2>1, <2>2, <2>3, <2>4
<1>7. WindowInv(d)'
  BY <1>1, <1>2, <1>3, <1>4, <1>6 DEF HardwareAt, WindowInv, InUse, NUM_TX_DESC
<1>8. PendingInv(d)'
  BY <1>1, <1>5, <1>6 DEF HardwareAt, PendingInv
<1>9. PostInv(d)'
  BY <1>1, <1>2, <1>3, <1>4 DEF PostInv, Slot
<1>10. FullInv(d)'
  BY <1>1, <1>3, <1>4, <1>5 DEF HardwareAt, FullInv
<1> QED
  BY <1>7, <1>8, <1>9, <1>10 DEF HardwareAt

(* The pointer is stored again: in the last descriptor, unless an interrupt *)
(* has freed them all in between.                                          *)
LEMMA ProgramHw ==
  ASSUME TypeOK, NEW d \in Devs, loopback = 0, Program(d), HardwareAt(d),
         InOpen(d, "cur_tx")' <=> InOpen(d, "cur_tx")
  PROVE  HardwareAt(d)'
<1> DEFINE p == priv[d]
           x == thr[Xmit(d)]
<1>1. /\ x.pc = "program" /\ p.cur_tx > 0
      /\ x.entry = (p.cur_tx - 1) % NUM_TX_DESC
      /\ First(d) < p.cur_tx => p.tx_skbuff[x.entry] = x.skb
  BY DEF Program, At, HardwareAt, PostInv
<1>2. /\ p.cur_tx \in 0..8 /\ First(d) \in 0..4 /\ First(d) <= p.cur_tx
      /\ x.entry \in Slots /\ p.tx_skbuff \in [Slots -> Skbs \cup {NULL}]
  BY Fields, OneDevice DEF HardwareAt, WindowInv
<1>3. /\ priv'[d].cur_tx = p.cur_tx /\ priv'[d].dirty_tx = p.dirty_tx
      /\ priv'[d].tx_full = p.tx_full
      /\ priv'[d].tx_skbuff = [p.tx_skbuff EXCEPT ![x.entry] = x.skb]
  BY DEF Program, TypeOK, PrivStates
<1>4. thr'[Irq(d)] = thr[Irq(d)] /\ thr'[Xmit(d)].pc = "check_full"
  BY OneDevice, ThreadsAre DEF Program, GoTo, TypeOK, ThreadStates
<1>5. UNCHANGED <<dev, own>>
  BY DEF Program
<1>6. First(d)' = First(d) /\ InUse(d)' = InUse(d) /\ Pending(d)' = Pending(d)
  BY <1>3, <1>4 DEF First, InUse, Pending
<1>7. \A i \in Pending(d) : Slot(d, i)' = Slot(d, i)
  <2>1. CASE First(d) < p.cur_tx
    <3>1. priv'[d].tx_skbuff = p.tx_skbuff
      BY <1>1, <1>2, <1>3, <2>1
    <3> QED
      BY <3>1 DEF Slot
  <2>2. CASE First(d) = p.cur_tx
    BY <1>2, <2>2 DEF Pending
  <2> QED
    BY <1>2, <2>1, <2>2
<1>8. WindowInv(d)'
  BY <1>3, <1>4, <1>6 DEF HardwareAt, WindowInv
<1>9. PendingInv(d)'
  BY <1>5, <1>6, <1>7 DEF HardwareAt, PendingInv
<1>10. PostInv(d)'
  BY <1>4 DEF PostInv
<1>11. FullInv(d)'
  BY <1>1, <1>3, <1>4, <1>5, <1>6 DEF HardwareAt, FullInv
<1> QED
  BY <1>8, <1>9, <1>10, <1>11 DEF HardwareAt

(* A step of start_xmit that changes no descriptor: only FullInv needs a   *)
(* look.                                                                   *)
LEMMA NoDescriptor ==
  ASSUME TypeOK, NEW d \in Devs, HardwareAt(d),
         InOpen(d, "cur_tx")' <=> InOpen(d, "cur_tx"),
         priv'[d].cur_tx = priv[d].cur_tx, priv'[d].dirty_tx = priv[d].dirty_tx,
         priv'[d].tx_skbuff = priv[d].tx_skbuff, UNCHANGED own,
         thr'[Irq(d)] = thr[Irq(d)],
         thr'[Xmit(d)].pc \notin {"post", "program"}
  PROVE  /\ InUse(d)' = InUse(d)
         /\ FullInv(d)' => HardwareAt(d)'
<1>1. First(d)' = First(d) /\ InUse(d)' = InUse(d) /\ Pending(d)' = Pending(d)
  BY DEF First, InUse, Pending
<1>2. WindowInv(d)'
  BY <1>1 DEF HardwareAt, WindowInv
<1>3. PendingInv(d)'
  BY <1>1 DEF HardwareAt, PendingInv, Slot
<1>4. PostInv(d)'
  BY DEF PostInv
<1> QED
  BY <1>1, <1>2, <1>3, <1>4 DEF HardwareAt

(* While start_xmit runs, no interrupt is being handled.                   *)
LEMMA XmitAlone ==
  ASSUME NEW d \in Devs, NEW l, At(Xmit(d), l), loopback = 0
  PROVE  thr[Irq(d)].pc = "idle" /\ thr[Xmit(d)].pc = l
BY OneDevice, ThreadsAre DEF At, MayRun, Idle

LEMMA CheckFullHw ==
  ASSUME TypeOK, NEW d \in Devs, loopback = 0, CheckFull(d), HardwareAt(d),
         InOpen(d, "cur_tx")' <=> InOpen(d, "cur_tx")
  PROVE  HardwareAt(d)'
<1>1. thr[Irq(d)].pc = "idle" /\ thr[Xmit(d)].pc = "check_full"
  BY XmitAlone DEF CheckFull
<1>2. Used(d) = InUse(d)
  BY <1>1, UsedIsInUse DEF HardwareAt
<1>3. UNCHANGED <<priv, own>> /\ thr'[Irq(d)] = thr[Irq(d)]
  BY OneDevice, ThreadsAre DEF CheckFull, GoTo, TypeOK
<1>4. CASE Used(d) >= NUM_TX_DESC /\ GoTo(Xmit(d), "set_full")
  <2>1. thr'[Xmit(d)].pc = "set_full"
    BY <1>4, ThreadsAre DEF GoTo, TypeOK, ThreadStates
  <2>2. InUse(d)' = InUse(d) /\ (FullInv(d)' => HardwareAt(d)')
    BY <1>3, <2>1, NoDescriptor
  <2>3. FullInv(d)'
    BY <1>1, <1>3, <2>1, <2>2 DEF HardwareAt, FullInv
  <2> QED
    BY <2>2, <2>3
<1>5. CASE Used(d) < NUM_TX_DESC /\ GoTo(Xmit(d), "idle")
  <2>1. thr'[Xmit(d)].pc = "idle"
    BY <1>5, ThreadsAre DEF GoTo, TypeOK, ThreadStates
  <2>2. InUse(d)' = InUse(d) /\ (FullInv(d)' => HardwareAt(d)')
    BY <1>3, <2>1, NoDescriptor
  <2>3. InUse(d) \in Int
    BY Fields, OneDevice DEF InUse
  <2>4. FullInv(d)'
    BY <1>1, <1>2, <1>3, <1>5, <2>1, <2>2, <2>3
    DEF HardwareAt, FullInv, NUM_TX_DESC
  <2> QED
    BY <2>2, <2>4
<1> QED
  BY <1>4, <1>5 DEF CheckFull

LEMMA SetFullHw ==
  ASSUME TypeOK, NEW d \in Devs, loopback = 0, SetFull(d), HardwareAt(d),
         ~InOpen(d, "cur_tx"),
         InOpen(d, "cur_tx")' <=> InOpen(d, "cur_tx")
  PROVE  HardwareAt(d)'
<1>1. thr[Irq(d)].pc = "idle" /\ thr[Xmit(d)].pc = "set_full"
  BY XmitAlone DEF SetFull
<1>2. /\ priv'[d].cur_tx = priv[d].cur_tx
      /\ priv'[d].dirty_tx = priv[d].dirty_tx
      /\ priv'[d].tx_skbuff = priv[d].tx_skbuff
      /\ priv'[d].tx_full = TRUE
  BY DEF SetFull, TypeOK, PrivStates
<1>3. /\ UNCHANGED own /\ thr'[Irq(d)] = thr[Irq(d)]
      /\ thr'[Xmit(d)].pc = "recheck"
  BY OneDevice, ThreadsAre DEF SetFull, GoTo, TypeOK, ThreadStates
<1>4. InUse(d)' = InUse(d) /\ (FullInv(d)' => HardwareAt(d)')
  BY <1>2, <1>3, NoDescriptor
<1>5. FullInv(d)'
  BY <1>2, <1>3 DEF FullInv
<1> QED
  BY <1>4, <1>5

(* After the second test tx_full is right, and so is the queue.            *)
LEMMA RecheckHw ==
  ASSUME TypeOK, NEW d \in Devs, loopback = 0, Recheck(d), HardwareAt(d),
         InOpen(d, "cur_tx")' <=> InOpen(d, "cur_tx")
  PROVE  HardwareAt(d)'
<1>1. thr[Irq(d)].pc = "idle" /\ thr[Xmit(d)].pc = "recheck"
  BY XmitAlone DEF Recheck
<1>2. Used(d) = InUse(d) /\ InUse(d) \in Int
  BY <1>1, UsedIsInUse, Fields, OneDevice DEF HardwareAt, InUse
<1>3. UNCHANGED own /\ thr'[Irq(d)] = thr[Irq(d)]
  BY OneDevice, ThreadsAre DEF Recheck, GiveUp, GoTo, TypeOK
<1>4. CASE /\ ~StillFull(d)
           /\ priv' = [priv EXCEPT ![d].tx_full = FALSE]
           /\ GoTo(Xmit(d), "idle")
  <2>1. /\ priv'[d].cur_tx = priv[d].cur_tx
        /\ priv'[d].dirty_tx = priv[d].dirty_tx
        /\ priv'[d].tx_skbuff = priv[d].tx_skbuff
        /\ priv'[d].tx_full = FALSE
    BY <1>4 DEF TypeOK, PrivStates
  <2>2. thr'[Xmit(d)].pc = "idle"
    BY <1>4, ThreadsAre DEF GoTo, TypeOK, ThreadStates
  <2>3. InUse(d)' = InUse(d) /\ (FullInv(d)' => HardwareAt(d)')
    BY <1>3, <2>1, <2>2, NoDescriptor
  <2>4. FullInv(d)'
    BY <1>2, <1>4, <2>1, <2>2, <2>3 DEF FullInv, StillFull, NUM_TX_DESC
  <2> QED
    BY <2>3, <2>4
<1>5. CASE StillFull(d) /\ GoTo(Xmit(d), "stop") /\ UNCHANGED priv
  <2>1. thr'[Xmit(d)].pc = "stop"
    BY <1>5, ThreadsAre DEF GoTo, TypeOK, ThreadStates
  <2>2. InUse(d)' = InUse(d) /\ (FullInv(d)' => HardwareAt(d)')
    BY <1>3, <1>5, <2>1, NoDescriptor
  <2>3. FullInv(d)'
    BY <1>1, <1>2, <1>5, <2>1, <2>2 DEF HardwareAt, FullInv, StillFull
  <2> QED
    BY <2>2, <2>3
<1> QED
  BY <1>4, <1>5 DEF Recheck, GiveUp

LEMMA StopQueueHw ==
  ASSUME TypeOK, NEW d \in Devs, loopback = 0, StopQueue(d), HardwareAt(d),
         InOpen(d, "cur_tx")' <=> InOpen(d, "cur_tx")
  PROVE  HardwareAt(d)'
<1>1. thr[Xmit(d)].pc = "stop"
  BY DEF StopQueue, At
<1>2. /\ UNCHANGED <<own, priv>> /\ thr'[Irq(d)] = thr[Irq(d)]
      /\ thr'[Xmit(d)].pc = "idle"
  BY OneDevice, ThreadsAre DEF StopQueue, GoTo, TypeOK, ThreadStates
<1>3. dev'[d].tbusy = TRUE
  BY DEF StopQueue, TypeOK, DevStates
<1>4. InUse(d)' = InUse(d) /\ (FullInv(d)' => HardwareAt(d)')
  BY <1>2, NoDescriptor
<1>5. FullInv(d)'
  BY <1>1, <1>2, <1>3, <1>4 DEF HardwareAt, FullInv
<1> QED
  BY <1>4, <1>5

(* The interrupt, in the middle of start_xmit or not.                      *)
LEMMA RaiseIrqHw ==
  ASSUME TypeOK, NEW d \in Devs, loopback = 0, RaiseIrq(d), HardwareAt(d),
         InOpen(d, "cur_tx")' <=> InOpen(d, "cur_tx")
  PROVE  HardwareAt(d)'
<1>1. thr[Irq(d)].pc = "idle" /\ UNCHANGED <<priv, own, dev>>
  BY DEF RaiseIrq, At
<1>2. thr'[Xmit(d)] = thr[Xmit(d)] /\ thr'[Irq(d)].pc = "isr_lock"
  BY OneDevice, ThreadsAre DEF RaiseIrq, GoTo, TypeOK, ThreadStates
<1>3. First(d)' = First(d)
  BY <1>1, <1>2 DEF First
<1> QED
  BY <1>1, <1>2, <1>3, HardwareFrame

LEMMA IsrLockHw ==
  ASSUME TypeOK, NEW d \in Devs, loopback = 0, IsrLock(Irq(d)),
         HardwareAt(d), thr[Irq(d)].dev = d,
         InOpen(d, "cur_tx")' <=> InOpen(d, "cur_tx")
  PROVE  HardwareAt(d)'
<1>1. thr[Irq(d)].pc = "isr_lock" /\ UNCHANGED <<own, dev>>
  BY DEF IsrLock, At
<1>2. thr'[Xmit(d)] = thr[Xmit(d)] /\ thr'[Irq(d)].pc = "isr_rx"
  BY OneDevice, ThreadsAre DEF IsrLock, TypeOK, ThreadStates
<1>3. /\ priv'[d].cur_tx = priv[d].cur_tx
      /\ priv'[d].dirty_tx = priv[d].dirty_tx
      /\ priv'[d].tx_skbuff = priv[d].tx_skbuff
      /\ priv'[d].tx_full = priv[d].tx_full
  BY DEF IsrLock, TypeOK, PrivStates
<1>4. First(d)' = First(d)
  BY <1>1, <1>2, <1>3 DEF First
<1> QED
  BY <1>1, <1>2, <1>3, <1>4, HardwareFrame

(* The loop on the descriptors begins at dirty_tx.                         *)
LEMMA IsrRxHw ==
  ASSUME TypeOK, NEW d \in Devs, loopback = 0, IsrRx(Irq(d)),
         HardwareAt(d), thr[Irq(d)].dev = d,
         InOpen(d, "cur_tx")' <=> InOpen(d, "cur_tx")
  PROVE  HardwareAt(d)'
<1>1. thr[Irq(d)].pc = "isr_rx" /\ UNCHANGED <<own, dev>>
  BY DEF IsrRx, At
<1>2. /\ thr'[Xmit(d)] = thr[Xmit(d)] /\ thr'[Irq(d)].pc = "isr_tx"
      /\ thr'[Irq(d)].i = priv[d].dirty_tx
  BY OneDevice, ThreadsAre DEF IsrRx, TypeOK, ThreadStates
<1>3. \/ UNCHANGED priv
      \/ priv' = [priv EXCEPT ![d].ring = IF @ \in NoRing THEN @ ELSE Junk]
      \/ priv' = [priv EXCEPT ![d].rx_dropped = @ + 1]
  BY DEF IsrRx, Receive, DropPacket
<1>4. /\ priv'[d].cur_tx = priv[d].cur_tx
      /\ priv'[d].dirty_tx = priv[d].dirty_tx
      /\ priv'[d].tx_skbuff = priv[d].tx_skbuff
      /\ priv'[d].tx_full = priv[d].tx_full
  BY <1>3 DEF TypeOK, PrivStates
<1>5. First(d)' = First(d)
  BY <1>1, <1>2, <1>4 DEF First
<1> QED
  BY <1>1, <1>2, <1>4, <1>5, HardwareFrame

(* A turn of the loop: the packet it finds is the driver's, so that it is  *)
(* freed for the first time, and the other descriptors keep theirs.        *)
LEMMA IsrFreeHw ==
  ASSUME TypeOK, NEW d \in Devs, loopback = 0, IsrFree(Irq(d)),
         HardwareAt(d), thr[Irq(d)].dev = d,
         InOpen(d, "cur_tx")' <=> InOpen(d, "cur_tx")
  PROVE  HardwareAt(d)' /\ fault' \notin {"double_free", "null_skb"}
<1> DEFINE p == priv[d]
           i == thr[Irq(d)].i
           s == p.tx_skbuff[i]
<1>1. /\ thr[Irq(d)].pc = "isr_tx" /\ TX \in thr[Irq(d)].word
      /\ p.cur_tx # i /\ fault = "none" /\ First(d) = i
  BY DEF IsrFree, At, MayRun, MoreToFree, First
<1>2. /\ p.cur_tx \in 0..8 /\ i \in 0..4 /\ i < p.cur_tx
      /\ p.cur_tx - i <= 4 /\ p.dirty_tx <= i /\ p.dirty_tx \in 0..4
      /\ p.tx_skbuff \in [Slots -> Skbs \cup {NULL}]
  BY <1>1, Fields, OneDevice DEF HardwareAt, WindowInv, InUse, NUM_TX_DESC
<1>3. i \in Pending(d)
  BY <1>1, <1>2 DEF Pending
<1>4. i \in Slots => s = Slot(d, i)
  BY DEF Slot, Slots, NUM_TX_DESC
<1>5. i \in Slots => s # NULL /\ own[s] = "driver" /\ s \in Skbs
  BY <1>2, <1>3, <1>4 DEF HardwareAt, PendingInv
<1>6. CASE /\ UNCHANGED <<dev, priv, thr, own>>
           /\ fault' = "slot_overrun"
  <2>1. First(d)' = First(d)
    BY <1>6 DEF First
  <2> QED
    BY <1>1, <1>6, <2>1, HardwareFrame
<1>7. CASE /\ i \in Slots
           /\ own' = [own EXCEPT ![s] = "freed"]
           /\ priv' = [priv EXCEPT ![d].tx_skbuff[i] = NULL,
                                   ![d].tx_full = FALSE]
           /\ dev' = [dev EXCEPT ![d].tbusy = @ /\ ~priv[d].tx_full]
           /\ thr' = [thr EXCEPT ![Irq(d)].i = NextEntry(i)]
           /\ UNCHANGED fault
  <2>1. /\ priv'[d].cur_tx = p.cur_tx /\ priv'[d].dirty_tx = p.dirty_tx
        /\ priv'[d].tx_full = FALSE
        /\ priv'[d].tx_skbuff = [p.tx_skbuff EXCEPT ![i] = NULL]
    BY <1>7 DEF TypeOK, PrivStates
  <2>2. /\ thr'[Xmit(d)] = thr[Xmit(d)] /\ thr'[Irq(d)].pc = "isr_tx"
        /\ thr'[Irq(d)].i = i + 1 /\ TX \in thr'[Irq(d)].word
    BY <1>1, <1>7, OneDevice, ThreadsAre DEF NextEntry, TypeOK, ThreadStates
  <2>3. /\ First(d)' = i + 1 /\ InUse(d)' = p.cur_tx - (i + 1)
        /\ Pending(d)' = Pending(d) \ {i}
    BY <1>1, <1>2, <2>1, <2>2 DEF First, InUse, Pending
  <2>4. InUse(d)' < NUM_TX_DESC
    BY <1>2, <2>3 DEF NUM_TX_DESC
  <2>5. \A j \in Pending(d)' : Slot(d, j)' = Slot(d, j)
    <3> SUFFICES ASSUME NEW j \in Pending(d), j # i
                 PROVE  Slot(d, j)' = Slot(d, j)
      BY <2>3
    <3>1. j \in Nat /\ i \in Nat /\ i < j /\ j < i + 4
      BY <1>1, <1>2 DEF Pending
    <3>2. j % NUM_TX_DESC # i % NUM_TX_DESC /\ i % NUM_TX_DESC = i
      BY <1>7, <3>1, Distinct DEF Slots, NUM_TX_DESC
    <3>3. j % NUM_TX_DESC \in Slots
      BY <3>1, Entry
    <3> QED
      BY <1>2, <1>7, <2>1, <3>2, <3>3 DEF Slot
  <2>6. \A j \in Pending(d)' : /\ Slot(d, j) # s
                               /\ Slot(d, j) # NULL
                               /\ own'[Slot(d, j)] = "driver"
    <3> SUFFICES ASSUME NEW j \in Pending(d), j # i
                 PROVE  /\ Slot(d, j) # s
                        /\ Slot(d, j) # NULL
                        /\ own'[Slot(d, j)] = "driver"
      BY <2>3
    <3>1. /\ Slot(d, j) # s /\ Slot(d, j) # NULL
          /\ own[Slot(d, j)] = "driver"
      BY <1>3, <1>4, <1>7 DEF HardwareAt, PendingInv
    <3>2. j % NUM_TX_DESC \in Slots
      BY <1>2, <1>1, Entry DEF Pending
    <3>3. Slot(d, j) \in Skbs
      BY <1>2, <3>1, <3>2 DEF Slot
    <3>4. own \in [Skbs -> {"stack", "driver", "freed"}]
      BY DEF TypeOK
    <3> QED
      BY <1>7, <3>1, <3>3, <3>4
  <2>7. WindowInv(d)'
    BY <1>2, <2>1, <2>2, <2>3 DEF WindowInv, NUM_TX_DESC
  <2>8. PendingInv(d)'
    BY <2>3, <2>5, <2>6 DEF HardwareAt, PendingInv
  <2>9. PostInv(d)'
    <3> DEFINE x == thr[Xmit(d)]
    <3>1. ASSUME x.pc = "post"
          PROVE  /\ x.skb # NULL /\ own'[x.skb] = "driver"
                 /\ x.entry = p.cur_tx % NUM_TX_DESC
                 /\ Slot(d, p.cur_tx)' = x.skb
                 /\ \A j \in Pending(d)' : Slot(d, j)' # x.skb
      <4>1. /\ x.skb # NULL /\ own[x.skb] = "driver"
            /\ x.entry = p.cur_tx % NUM_TX_DESC
            /\ Slot(d, p.cur_tx) = x.skb
            /\ InUse(d) < NUM_TX_DESC
            /\ \A j \in Pending(d) : Slot(d, j) # x.skb
        BY <3>1 DEF HardwareAt, PostInv
      <4>2. x.skb # s
        BY <1>3, <1>4, <1>7, <4>1
      <4>3. own'[x.skb] = "driver"
        BY <1>7, <4>1, <4>2, Fields DEF TypeOK
      <4>4. /\ p.cur_tx % NUM_TX_DESC # i % NUM_TX_DESC
            /\ i % NUM_TX_DESC = i
            /\ p.cur_tx % NUM_TX_DESC \in Slots
        BY <1>1, <1>2, <1>7, <4>1, Distinct, Entry
        DEF Slots, InUse, NUM_TX_DESC
      <4>5. Slot(d, p.cur_tx)' = x.skb
        BY <1>2, <2>1, <4>1, <4>4 DEF Slot
      <4> QED
        BY <2>3, <2>5, <4>1, <4>3, <4>5
    <3>2. ASSUME x.pc = "program"
          PROVE  /\ p.cur_tx > 0
                 /\ x.entry = (p.cur_tx - 1) % NUM_TX_DESC
                 /\ i + 1 < p.cur_tx => priv'[d].tx_skbuff[x.entry] = x.skb
      <4>1. /\ p.cur_tx > 0
            /\ x.entry = (p.cur_tx - 1) % NUM_TX_DESC
            /\ p.tx_skbuff[x.entry] = x.skb
        BY <1>1, <1>2, <3>2 DEF HardwareAt, PostInv
      <4>2. ASSUME i + 1 < p.cur_tx PROVE x.entry # i /\ x.entry \in Slots
        <5>1. p.cur_tx \in Int /\ i \in Nat /\ p.cur_tx - i <= 4
          BY <1>1, <1>2 DEF InUse, NUM_TX_DESC
        <5>2. /\ p.cur_tx - 1 \in Nat /\ i < p.cur_tx - 1
              /\ p.cur_tx - 1 < i + 4
          BY <4>2, <5>1
        <5> QED
          BY <1>7, <4>1, <5>1, <5>2, Distinct, Entry DEF Slots, NUM_TX_DESC
      <4> QED
        BY <1>2, <2>1, <4>1, <4>2
    <3> QED
      BY <2>1, <2>2, <2>3, <2>4, <3>1, <3>2 DEF PostInv
  <2>10. FullInv(d)'
    BY <1>2, <2>1, <2>2, <2>3, <2>4 DEF FullInv, NUM_TX_DESC
  <2> QED
    BY <1>1, <1>7, <2>7, <2>8, <2>9, <2>10 DEF HardwareAt
<1> QED
  BY <1>2, <1>5, <1>6, <1>7 DEF IsrFree, Oops

(* The loop ends at cur_tx, and dirty_tx follows it.                       *)
LEMMA IsrExitHw ==
  ASSUME TypeOK, NEW d \in Devs, loopback = 0, IsrExit(Irq(d)),
         HardwareAt(d), thr[Irq(d)].dev = d,
         InOpen(d, "cur_tx")' <=> InOpen(d, "cur_tx")
  PROVE  HardwareAt(d)'
<1> DEFINE p == priv[d]
           q == thr[Irq(d)]
<1>1. /\ q.pc = "isr_tx" /\ First(d) = q.i /\ UNCHANGED <<dev, own>>
      /\ TX \notin q.word => q.i = p.dirty_tx
  BY DEF IsrExit, At, First, HardwareAt, WindowInv
<1>2. /\ priv'[d].cur_tx = p.cur_tx
      /\ priv'[d].tx_skbuff = p.tx_skbuff /\ priv'[d].tx_full = p.tx_full
      /\ priv'[d].dirty_tx = IF TX \in q.word THEN q.i ELSE p.dirty_tx
  BY DEF IsrExit, Leave, TypeOK, PrivStates
<1>3. thr'[Xmit(d)] = thr[Xmit(d)] /\ thr'[Irq(d)].pc = "idle"
  BY OneDevice, ThreadsAre DEF IsrExit, GoTo, TypeOK, ThreadStates
<1>4. First(d)' = First(d) /\ priv'[d].dirty_tx = First(d)
  BY <1>1, <1>2, <1>3 DEF First
<1>5. InUse(d)' = InUse(d) /\ Pending(d)' = Pending(d)
  BY <1>2, <1>4 DEF InUse, Pending
<1>6. WindowInv(d)'
  BY <1>2, <1>3, <1>4, <1>5, Fields DEF HardwareAt, WindowInv
<1>7. PendingInv(d)'
  BY <1>1, <1>2, <1>5 DEF HardwareAt, PendingInv, Slot
<1>8. PostInv(d)'
  BY <1>1, <1>2, <1>3, <1>4, <1>5 DEF HardwareAt, PostInv, Slot
<1>9. FullInv(d)'
  BY <1>1, <1>2, <1>3, <1>5 DEF HardwareAt, FullInv
<1> QED
  BY <1>6, <1>7, <1>8, <1>9 DEF HardwareAt

-----------------------------------------------------------------------------
(* With hardware: the descriptors that are not in use.                     *)

LEMMA StartXmitRest ==
  ASSUME TypeOK, NEW d \in Devs, loopback = 0, NEW s \in Skbs,
         StartXmit(d, s), RestInv(d), ShortInv
  PROVE  RestInv(d)' /\ ShortInv'
<1> DEFINE p == priv[d]
           entry == p.cur_tx % NUM_TX_DESC
<1>1. p.cur_tx \in 0..8 /\ p.tx_skbuff \in [Slots -> Skbs \cup {NULL}]
  BY Fields, OneDevice
<1>2. /\ priv'[d].cur_tx = p.cur_tx
      /\ priv'[d].tx_skbuff = [p.tx_skbuff EXCEPT ![entry] = s]
  BY DEF StartXmit, TypeOK, PrivStates
<1>3. entry <= p.cur_tx /\ (p.cur_tx \in Slots => entry = p.cur_tx)
  BY <1>1 DEF Slots, NUM_TX_DESC
<1>4. \A i \in Slots : i > p.cur_tx => priv'[d].tx_skbuff[i] = NULL
  BY <1>1, <1>2, <1>3, Sizes DEF RestInv
<1>5. CASE s \in Short /\ UNCHANGED own
  BY <1>1, <1>2, <1>3, <1>4, <1>5 DEF RestInv, ShortInv
<1>6. CASE s \notin Short
  <2>1. thr'[Xmit(d)].pc = "post"
    <3>1. thr' = [thr EXCEPT ![Xmit(d)].skb = s, ![Xmit(d)].entry = entry,
                             ![Xmit(d)].pc = "post"]
      BY <1>6 DEF StartXmit
    <3>2. thr \in [Threads -> ThreadStates] /\ Xmit(d) \in Threads
      BY ThreadsAre DEF TypeOK
    <3> HIDE DEF entry
    <3> QED
      BY <3>1, <3>2 DEF ThreadStates
  <2>2. ShortInv'
    BY <1>6 DEF StartXmit, ShortInv, TypeOK, Skbs
  <2> QED
    BY <1>2, <1>4, <2>1, <2>2 DEF RestInv
<1> QED
  BY <1>5, <1>6 DEF StartXmit

LEMMA PostRest ==
  ASSUME TypeOK, NEW d \in Devs, loopback = 0, Post(d), RestInv(d)
  PROVE  RestInv(d)'
<1>1. priv[d].cur_tx \in 0..8
  BY Fields, OneDevice
<1>2. /\ priv'[d].cur_tx = priv[d].cur_tx + 1
      /\ priv'[d].tx_skbuff = priv[d].tx_skbuff
  BY DEF Post, CountTx, TypeOK, PrivStates
<1> QED
  BY <1>1, <1>2, Sizes DEF RestInv

LEMMA ProgramRest ==
  ASSUME TypeOK, NEW d \in Devs, loopback = 0, Program(d), RestInv(d),
         HardwareAt(d)
  PROVE  RestInv(d)'
<1> DEFINE p == priv[d]
           x == thr[Xmit(d)]
<1>1. /\ p.cur_tx \in 0..8 /\ p.cur_tx > 0
      /\ p.tx_skbuff \in [Slots -> Skbs \cup {NULL}]
      /\ x.pc = "program" /\ x.entry = (p.cur_tx - 1) % NUM_TX_DESC
  BY Fields, OneDevice DEF Program, At, HardwareAt, PostInv
<1>2. x.entry \in Slots /\ x.entry < p.cur_tx
  BY <1>1 DEF Slots, NUM_TX_DESC
<1>3. /\ priv'[d].cur_tx = p.cur_tx
      /\ priv'[d].tx_skbuff = [p.tx_skbuff EXCEPT ![x.entry] = x.skb]
  BY DEF Program, TypeOK, PrivStates
<1>4. \A i \in Slots : i >= p.cur_tx =>
        priv'[d].tx_skbuff[i] = p.tx_skbuff[i]
  BY <1>1, <1>2, <1>3, Sizes
<1> QED
  BY <1>1, <1>3, <1>4, Sizes DEF RestInv

LEMMA IsrFreeRest ==
  ASSUME TypeOK, NEW d \in Devs, loopback = 0, IsrFree(Irq(d)),
         HardwareAt(d), thr[Irq(d)].dev = d, ShortInv
  PROVE  ShortInv' /\ (RestInv(d) => RestInv(d)')
<1> DEFINE p == priv[d]
           i == thr[Irq(d)].i
           s == p.tx_skbuff[i]
<1>1. /\ thr[Irq(d)].pc = "isr_tx" /\ p.cur_tx # i /\ First(d) = i
  BY DEF IsrFree, At, MoreToFree, First
<1>2. /\ p.cur_tx \in 0..8 /\ i \in 0..4 /\ i < p.cur_tx
      /\ p.tx_skbuff \in [Slots -> Skbs \cup {NULL}]
  BY <1>1, Fields, OneDevice DEF HardwareAt, WindowInv
<1>3. CASE UNCHANGED <<priv, thr, own>>
  BY <1>3, RestFrame DEF ShortInv
<1>4. CASE /\ i \in Slots
           /\ own' = [own EXCEPT ![s] = "freed"]
           /\ priv' = [priv EXCEPT ![d].tx_skbuff[i] = NULL,
                                   ![d].tx_full = FALSE]
           /\ thr' = [thr EXCEPT ![Irq(d)].i = NextEntry(i)]
  <2>1. /\ priv'[d].cur_tx = p.cur_tx
        /\ priv'[d].tx_skbuff = [p.tx_skbuff EXCEPT ![i] = NULL]
    BY <1>4 DEF TypeOK, PrivStates
  <2>2. thr'[Xmit(d)] = thr[Xmit(d)]
    BY <1>4, OneDevice, ThreadsAre DEF TypeOK
  <2>3. \A j \in Slots : j >= p.cur_tx =>
          priv'[d].tx_skbuff[j] = p.tx_skbuff[j]
    BY <1>2, <2>1, Sizes
  <2>4. RestInv(d) => RestInv(d)'
    BY <1>2, <2>1, <2>2, <2>3, Sizes DEF RestInv
  <2>5. own[s] = "driver"
    <3>1. i \in Pending(d)
      BY <1>1, <1>2 DEF Pending
    <3>2. s = Slot(d, i)
      BY <1>4 DEF Slot, Slots, NUM_TX_DESC
    <3> QED
      BY <3>1, <3>2 DEF HardwareAt, PendingInv
  <2>6. ShortInv'
    BY <1>4, <2>5 DEF ShortInv, TypeOK, Skbs
  <2> QED
    BY <2>4, <2>6
<1> QED
  BY <1>3, <1>4 DEF IsrFree

(* Between the two stores of line 411 the interrupt frees what it finds,   *)
(* each packet for the first time.                                         *)
LEMMA IsrFreeReset ==
  ASSUME TypeOK, NEW d \in Devs, loopback = 0, IsrFree(Irq(d)),
         ResetAt(d), thr[Irq(d)].dev = d
  PROVE  ResetAt(d)' /\ fault' # "double_free"
<1> DEFINE p == priv[d]
           i == thr[Irq(d)].i
           s == p.tx_skbuff[i]
<1>1. /\ thr[Irq(d)].pc = "isr_tx" /\ TX \in thr[Irq(d)].word
      /\ p.cur_tx # i /\ fault = "none" /\ First(d) = i
  BY DEF IsrFree, At, MayRun, MoreToFree, First
<1>2. /\ i \in 0..4 /\ p.dirty_tx \in 0..4 /\ p.dirty_tx <= i
      /\ p.cur_tx = 0 /\ p.dirty_tx # 0 /\ ~p.tx_full
      /\ p.tx_skbuff \in [Slots -> Skbs \cup {NULL}]
  BY <1>1, Fields DEF ResetAt
<1>3. CASE UNCHANGED <<priv, thr, own>> /\ fault' # "double_free"
  <2>1. First(d)' = First(d)
    BY <1>3 DEF First
  <2>2. TX \notin thr[Irq(d)].word \/ p.dirty_tx = 0 => i = p.dirty_tx
    BY <1>1 DEF ResetAt
  <2> QED
    BY <1>3, <2>1, <2>2, ResetFrame
<1>4. CASE i \in Slots /\ s # NULL /\ own[s] = "freed"
  <2>1. i \in Unread(d)
    BY <1>1, <1>2, <1>4 DEF Unread
  <2> QED
    BY <1>4, <2>1 DEF ResetAt
<1>5. CASE /\ i \in Slots /\ s # NULL
           /\ own' = [own EXCEPT ![s] = "freed"]
           /\ priv' = [priv EXCEPT ![d].tx_skbuff[i] = NULL,
                                   ![d].tx_full = FALSE]
           /\ thr' = [thr EXCEPT ![Irq(d)].i = NextEntry(i)]
           /\ UNCHANGED fault
  <2>1. /\ priv'[d].cur_tx = 0 /\ priv'[d].dirty_tx = p.dirty_tx
        /\ priv'[d].tx_full = FALSE
        /\ priv'[d].tx_skbuff = [p.tx_skbuff EXCEPT ![i] = NULL]
    BY <1>2, <1>5 DEF TypeOK, PrivStates
  <2>2. /\ thr'[Irq(d)].pc = "isr_tx" /\ thr'[Irq(d)].i = i + 1
        /\ TX \in thr'[Irq(d)].word
    BY <1>1, <1>5, ThreadsAre DEF NextEntry, TypeOK, ThreadStates
  <2>3. First(d)' = i + 1
    BY <2>2 DEF First
  <2>4. i \in Unread(d)
    BY <1>1, <1>2, <1>5 DEF Unread
  <2>5. \A j \in Unread(d)' : /\ j \in Unread(d) /\ j # i
                              /\ priv'[d].tx_skbuff[j] = p.tx_skbuff[j]
    BY <1>1, <1>2, <2>1, <2>3, Sizes DEF Unread
  <2>6. \A j \in Unread(d)' : own'[priv'[d].tx_skbuff[j]] # "freed"
    <3> SUFFICES ASSUME NEW j \in Unread(d)'
                 PROVE  own'[p.tx_skbuff[j]] # "freed"
      BY <2>5
    <3>1. /\ j \in Unread(d) /\ j # i /\ j \in Slots /\ p.tx_skbuff[j] # NULL
      BY <2>5 DEF Unread
    <3>2. p.tx_skbuff[j] # s /\ own[p.tx_skbuff[j]] # "freed"
      BY <2>4, <3>1 DEF ResetAt
    <3>3. p.tx_skbuff[j] \in Skbs /\ own \in [Skbs -> {"stack", "driver", "freed"}]
      BY <1>2, <3>1 DEF TypeOK
    <3> QED
      BY <1>5, <3>2, <3>3
  <2>7. \A j, k \in Unread(d)' :
          priv'[d].tx_skbuff[j] = priv'[d].tx_skbuff[k] => j = k
    BY <2>5 DEF ResetAt
  <2>8. p.dirty_tx <= First(d)' /\ First(d)' # p.dirty_tx
    BY <1>2, <2>3
  <2> QED
    BY <1>1, <1>2, <1>5, <2>1, <2>2, <2>6, <2>7, <2>8 DEF ResetAt
<1> QED
  BY <1>3, <1>4, <1>5 DEF IsrFree, Oops

(* It leaves only if it completes no transmission, or none was ever        *)
(* completed.                                                              *)
LEMMA IsrExitReset ==
  ASSUME TypeOK, NEW d \in Devs, loopback = 0, IsrExit(Irq(d)),
         ResetAt(d), thr[Irq(d)].dev = d
  PROVE  ResetAt(d)'
<1> DEFINE p == priv[d]
           q == thr[Irq(d)]
<1>1. /\ q.pc = "isr_tx" /\ First(d) = q.i /\ UNCHANGED own
      /\ TX \notin q.word \/ p.cur_tx = q.i
  BY DEF IsrExit, At, First, MoreToFree
<1>2. p.cur_tx = 0 /\ p.dirty_tx \in 0..4 /\ q.i \in 0..4 /\ p.dirty_tx <= q.i
  BY <1>1, Fields DEF ResetAt
<1>3. q.i = p.dirty_tx
  BY <1>1, <1>2 DEF ResetAt
<1>4. /\ priv'[d].cur_tx = p.cur_tx /\ priv'[d].dirty_tx = p.dirty_tx
      /\ priv'[d].tx_skbuff = p.tx_skbuff /\ priv'[d].tx_full = p.tx_full
  BY <1>3 DEF IsrExit, Leave, TypeOK, PrivStates
<1>5. thr'[Irq(d)].pc = "idle"
  BY OneDevice, ThreadsAre DEF IsrExit, GoTo, TypeOK, ThreadStates
<1>6. First(d)' = First(d)
  BY <1>1, <1>3, <1>4, <1>5 DEF First
<1> QED
  BY <1>1, <1>4, <1>5, <1>6, ResetFrame

(* The other steps of the interrupt touch none of this.                    *)
LEMMA IsrBegins ==
  ASSUME TypeOK, NEW d \in Devs, loopback = 0, thr[Irq(d)].dev = d,
         RaiseIrq(d) \/ IsrLock(Irq(d)) \/ IsrRx(Irq(d))
  PROVE  /\ UNCHANGED own /\ thr'[Xmit(d)] = thr[Xmit(d)]
         /\ priv'[d].cur_tx = priv[d].cur_tx
         /\ priv'[d].dirty_tx = priv[d].dirty_tx
         /\ priv'[d].tx_skbuff = priv[d].tx_skbuff
         /\ priv'[d].tx_full = priv[d].tx_full
         /\ First(d)' = First(d)
         /\ thr'[Irq(d)].pc = "isr_tx" => thr'[Irq(d)].i = priv[d].dirty_tx
<1>1. CASE RaiseIrq(d)
  <2>1. thr[Irq(d)].pc = "idle" /\ UNCHANGED <<priv, own>>
    BY <1>1 DEF RaiseIrq, At
  <2>2. thr'[Xmit(d)] = thr[Xmit(d)] /\ thr'[Irq(d)].pc = "isr_lock"
    BY <1>1, OneDevice, ThreadsAre DEF RaiseIrq, GoTo, TypeOK, ThreadStates
  <2> QED
    BY <2>1, <2>2 DEF First
<1>2. CASE IsrLock(Irq(d))
  <2>1. thr[Irq(d)].pc = "isr_lock" /\ UNCHANGED own
    BY <1>2 DEF IsrLock, At
  <2>2. thr'[Xmit(d)] = thr[Xmit(d)] /\ thr'[Irq(d)].pc = "isr_rx"
    BY <1>2, OneDevice, ThreadsAre DEF IsrLock, TypeOK, ThreadStates
  <2>3. /\ priv'[d].cur_tx = priv[d].cur_tx
        /\ priv'[d].dirty_tx = priv[d].dirty_tx
        /\ priv'[d].tx_skbuff = priv[d].tx_skbuff
        /\ priv'[d].tx_full = priv[d].tx_full
    BY <1>2 DEF IsrLock, TypeOK, PrivStates
  <2> QED
    BY <2>1, <2>2, <2>3 DEF First
<1>3. CASE IsrRx(Irq(d))
  <2>1. thr[Irq(d)].pc = "isr_rx" /\ UNCHANGED own
    BY <1>3 DEF IsrRx, At
  <2>2. /\ thr'[Xmit(d)] = thr[Xmit(d)] /\ thr'[Irq(d)].pc = "isr_tx"
        /\ thr'[Irq(d)].i = priv[d].dirty_tx
    BY <1>3, OneDevice, ThreadsAre DEF IsrRx, TypeOK, ThreadStates
  <2>3. \/ UNCHANGED priv
        \/ priv' = [priv EXCEPT ![d].ring = IF @ \in NoRing THEN @ ELSE Junk]
        \/ priv' = [priv EXCEPT ![d].rx_dropped = @ + 1]
    BY <1>3 DEF IsrRx, Receive, DropPacket
  <2>4. /\ priv'[d].cur_tx = priv[d].cur_tx
        /\ priv'[d].dirty_tx = priv[d].dirty_tx
        /\ priv'[d].tx_skbuff = priv[d].tx_skbuff
        /\ priv'[d].tx_full = priv[d].tx_full
    BY <2>3 DEF TypeOK, PrivStates
  <2> QED
    BY <2>1, <2>2, <2>4 DEF First
<1> QED
  BY <1>1, <1>2, <1>3

-----------------------------------------------------------------------------
(* The threads.                                                            *)

(* One thread moves to a label of its own code, when it may run.           *)
LEMMA ThreadMoves ==
  ASSUME TypeOK, ThreadsInv, NEW t \in Threads, MayRun(t),
         thr' \in [Threads -> ThreadStates],
         \A u \in Threads \ {t} : thr'[u] = thr[u],
         t[1] = "irq" => /\ thr'[t].dev = thr[t].dev
                         /\ thr'[t].pc \in {"idle"} \cup IrqLabels,
         t[1] = "xmit" => thr'[t].pc \in {"idle"} \cup XmitLabels
  PROVE  ThreadsInv'
<1>1. PICK d \in Devs : t = Xmit(d) \/ t = Irq(d)
  BY DEF Threads, Xmit, Irq
<1>2. \A e, f \in Devs : /\ Xmit(e) # Irq(f)
                         /\ Xmit(e) = Xmit(f) => e = f
                         /\ Irq(e) = Irq(f) => e = f
                         /\ Xmit(e)[1] = "xmit" /\ Irq(e)[1] = "irq"
  BY DEF Xmit, Irq
<1>3. CASE t = Irq(d)
  <2>1. \A e \in Devs : /\ thr'[Xmit(e)] = thr[Xmit(e)]
                        /\ e # d => thr'[Irq(e)] = thr[Irq(e)]
    BY <1>2, <1>3, ThreadsAre
  <2> QED
    BY <1>2, <1>3, <2>1 DEF ThreadsInv, Idle, XmitLabels, IrqLabels
<1>4. CASE t = Xmit(d)
  <2>1. \A e \in Devs : /\ thr'[Irq(e)] = thr[Irq(e)]
                        /\ e # d => thr'[Xmit(e)] = thr[Xmit(e)]
    BY <1>2, <1>4, ThreadsAre
  <2>2. \A e \in Devs \ {d} : Idle(Xmit(e))
    BY <1>2, <1>4, ThreadsAre DEF MayRun
  <2>3. \A e \in Devs \ {d} : Idle(Xmit(e))'
    BY <2>1, <2>2 DEF Idle
  <2> QED
    BY <1>2, <1>4, <2>1, <2>3 DEF ThreadsInv, XmitLabels, IrqLabels
<1> QED
  BY <1>1, <1>3, <1>4

(* A move that changes nothing else of the thread.                         *)
LEMMA GoToMoves ==
  ASSUME TypeOK, ThreadsInv, NEW t \in Threads, MayRun(t), NEW l \in Labels,
         GoTo(t, l),
         t[1] = "irq" => l \in {"idle"} \cup IrqLabels,
         t[1] = "xmit" => l \in {"idle"} \cup XmitLabels
  PROVE  ThreadsInv'
<1>1. thr' \in [Threads -> ThreadStates]
  BY GoToTyped DEF TypeOK
<1>2. /\ \A u \in Threads \ {t} : thr'[u] = thr[u]
      /\ thr'[t].dev = thr[t].dev /\ thr'[t].pc = l
  BY DEF GoTo, TypeOK, ThreadStates
<1> QED
  BY <1>1, <1>2, ThreadMoves

(* Each step of start_xmit belongs to one of the two modes.                *)
LEMMA XmitStepThreads ==
  ASSUME TypeOK, ThreadsInv, NEW d \in Devs, XmitStep(d),
         thr' \in [Threads -> ThreadStates]
  PROVE  ThreadsInv'
<1>1. /\ Xmit(d) \in Threads /\ Xmit(d)[1] = "xmit"
      /\ thr[Xmit(d)].pc \in {"idle"} \cup XmitLabels
  BY ThreadsAre DEF ThreadsInv, Xmit
<1>2. CASE MarkRx(d)
  <2>1. loopback = 1 /\ MayRun(Xmit(d)) /\ GoTo(Xmit(d), "copy")
    BY <1>1, <1>2 DEF MarkRx, At, XmitLabels
  <2> QED
    BY <1>1, <2>1, GoToMoves DEF XmitLabels, Labels
<1>3. CASE CopyToRing(d) /\ UNCHANGED thr
  BY <1>3 DEF ThreadsInv, Idle, XmitLabels, IrqLabels
<1>4. CASE /\ CopyToRing(d) \/ MarkTx(d)
           /\ \E e : thr' = [thr EXCEPT ![Xmit(d)].pc = "isr_lock",
                                        ![Xmit(d)].dev = e]
  <2>1. loopback = 1 /\ MayRun(Xmit(d))
    BY <1>1, <1>4 DEF CopyToRing, MarkTx, At, XmitLabels
  <2>2. /\ \A u \in Threads \ {Xmit(d)} : thr'[u] = thr[u]
        /\ thr'[Xmit(d)].pc = "isr_lock"
    BY <1>1, <1>4 DEF TypeOK, ThreadStates
  <2> QED
    BY <1>1, <2>1, <2>2, ThreadMoves DEF XmitLabels, IsrLabels
<1>5. CASE Post(d)
  <2>1. loopback # 1 /\ MayRun(Xmit(d)) /\ GoTo(Xmit(d), "program")
    BY <1>1, <1>5 DEF Post, At, XmitLabels, IsrLabels
  <2> QED
    BY <1>1, <2>1, GoToMoves DEF XmitLabels, Labels
<1>6. CASE Program(d)
  <2>1. loopback # 1 /\ MayRun(Xmit(d)) /\ GoTo(Xmit(d), "check_full")
    BY <1>1, <1>6 DEF Program, At, XmitLabels, IsrLabels
  <2> QED
    BY <1>1, <2>1, GoToMoves DEF XmitLabels, Labels
<1>7. CASE CheckFull(d)
  <2>1. /\ loopback # 1 /\ MayRun(Xmit(d))
        /\ GoTo(Xmit(d), "set_full") \/ GoTo(Xmit(d), "idle")
    BY <1>1, <1>7 DEF CheckFull, At, XmitLabels, IsrLabels
  <2> QED
    BY <1>1, <2>1, GoToMoves DEF XmitLabels, Labels
<1>8. CASE SetFull(d)
  <2>1. loopback # 1 /\ MayRun(Xmit(d)) /\ GoTo(Xmit(d), "recheck")
    BY <1>1, <1>8 DEF SetFull, At, XmitLabels, IsrLabels
  <2> QED
    BY <1>1, <2>1, GoToMoves DEF XmitLabels, Labels
<1>9. CASE Recheck(d)
  <2>1. /\ loopback # 1 /\ MayRun(Xmit(d))
        /\ GoTo(Xmit(d), "stop") \/ GoTo(Xmit(d), "idle")
    BY <1>1, <1>9 DEF Recheck, GiveUp, At, XmitLabels, IsrLabels
  <2> QED
    BY <1>1, <2>1, GoToMoves DEF XmitLabels, Labels
<1>10. CASE StopQueue(d)
  <2>1. MayRun(Xmit(d)) /\ GoTo(Xmit(d), "idle")
    BY <1>10 DEF StopQueue, At
  <2> QED
    BY <1>1, <2>1, GoToMoves DEF Labels
<1> QED
  BY <1>2, <1>3, <1>4, <1>5, <1>6, <1>7, <1>8, <1>9, <1>10
  DEF XmitStep, CopyToRing, MarkTx

(* So does a new packet.                                                   *)
LEMMA StartXmitThreads ==
  ASSUME TypeOK, ThreadsInv, NEW d \in Devs, NEW s \in Skbs, StartXmit(d, s),
         thr' \in [Threads -> ThreadStates]
  PROVE  ThreadsInv'
<1>1. CASE UNCHANGED thr
  BY <1>1 DEF ThreadsInv, Idle, XmitLabels, IrqLabels
<1>2. CASE s \notin Short
  <2> DEFINE entry == priv[d].cur_tx % NUM_TX_DESC
             l == IF loopback = 1 THEN "mark_rx" ELSE "post"
  <2>1. /\ MayRun(Xmit(d))
        /\ thr' = [thr EXCEPT ![Xmit(d)].skb = s, ![Xmit(d)].entry = entry,
                              ![Xmit(d)].pc = l]
    BY <1>2 DEF StartXmit, At
  <2>2. Xmit(d) \in Threads /\ Xmit(d)[1] = "xmit" /\ l \in XmitLabels
    BY ThreadsAre DEF XmitLabels, Xmit
  <2> HIDE DEF entry, l
  <2>3. /\ \A u \in Threads \ {Xmit(d)} : thr'[u] = thr[u]
        /\ thr'[Xmit(d)].pc = l
    BY <2>1, <2>2 DEF TypeOK, ThreadStates
  <2> QED
    BY <2>1, <2>2, <2>3, ThreadMoves
<1> QED
  BY <1>1, <1>2 DEF StartXmit

(* And the interrupt routine, whichever thread runs it.                    *)
LEMMA IsrStepThreads ==
  ASSUME TypeOK, ThreadsInv, NEW t \in Threads, IsrStep(t),
         thr' \in [Threads -> ThreadStates]
  PROVE  ThreadsInv'
<1>1. MayRun(t) /\ thr[t].pc \in IsrLabels
  BY DEF IsrStep, IsrLock, IsrRx, IsrFree, IsrExit, At, IsrLabels
<1>2. /\ t[1] = "irq" => IsrLabels = IrqLabels
      /\ t[1] = "xmit" => IsrLabels \subseteq XmitLabels /\ loopback = 1
  <2>1. PICK d \in Devs : t = Xmit(d) \/ t = Irq(d)
    BY DEF Threads, Xmit, Irq
  <2>2. Xmit(d)[1] = "xmit" /\ Irq(d)[1] = "irq"
    BY DEF Xmit, Irq
  <2> QED
    BY <1>1, <2>1, <2>2 DEF ThreadsInv, IrqLabels, XmitLabels, IsrLabels
<1>3. CASE UNCHANGED thr
  BY <1>3 DEF ThreadsInv, Idle, XmitLabels, IrqLabels
<1>4. CASE \E w : thr' = [thr EXCEPT ![t].word = w, ![t].pc = "isr_rx"]
  <2>1. /\ \A u \in Threads \ {t} : thr'[u] = thr[u]
        /\ thr'[t].pc = "isr_rx" /\ thr'[t].dev = thr[t].dev
    BY <1>4 DEF TypeOK, ThreadStates
  <2> QED
    BY <1>1, <1>2, <2>1, ThreadMoves DEF IsrLabels
<1>5. CASE \E i : thr' = [thr EXCEPT ![t].i = i, ![t].pc = "isr_tx"]
  <2>1. /\ \A u \in Threads \ {t} : thr'[u] = thr[u]
        /\ thr'[t].pc = "isr_tx" /\ thr'[t].dev = thr[t].dev
    BY <1>5 DEF TypeOK, ThreadStates
  <2> QED
    BY <1>1, <1>2, <2>1, ThreadMoves DEF IsrLabels
<1>6. CASE \E i : thr' = [thr EXCEPT ![t].i = i]
  <2>1. /\ \A u \in Threads \ {t} : thr'[u] = thr[u]
        /\ thr'[t].pc = thr[t].pc /\ thr'[t].dev = thr[t].dev
    BY <1>6 DEF TypeOK, ThreadStates
  <2> QED
    BY <1>1, <1>2, <2>1, ThreadMoves
<1>7. CASE GoTo(t, IF t[1] = "xmit" /\ thr[t].dev # t[2]
                   THEN "mark_tx" ELSE "idle")
  <2>1. CASE GoTo(t, "idle")
    BY <1>1, <2>1, GoToMoves DEF Labels
  <2>2. CASE t[1] = "xmit" /\ GoTo(t, "mark_tx")
    BY <1>1, <1>2, <2>2, GoToMoves DEF Labels, XmitLabels
  <2> QED
    BY <1>7, <2>1, <2>2
<1> QED
  BY <1>3, <1>4, <1>5, <1>6, <1>7 DEF IsrStep, IsrLock, IsrRx, IsrFree, IsrExit

-----------------------------------------------------------------------------
(* In loopback: the simulated interrupts of a transmission.                *)

(* There are two devices.                                                  *)
LEMMA TwoDevices ==
  ASSUME loopback = 1, NEW d \in Devs
  PROVE  /\ Peer(d) \in Devs /\ Peer(d) # d /\ Peer(Peer(d)) = d
         /\ \A e \in Devs : e = d \/ e = Peer(d)
         /\ Xmit(d) # Xmit(Peer(d)) /\ Xmit(d)[1] = "xmit" /\ Xmit(d)[2] = d
         /\ Xmit(d) \in Threads /\ Xmit(Peer(d)) \in Threads
         /\ MaxCurTx = 5
BY Sizes DEF Devs, Peer, Xmit, Threads, MaxCurTx, NUM_TX_DESC

(* While a transmission runs, the peer transmits nothing.                  *)
LEMMA PeerIdle ==
  ASSUME loopback = 1, NEW d \in Devs, MayRun(Xmit(d)) PROVE Idle(Xmit(Peer(d)))
BY TwoDevices DEF MayRun

(* The thread of an interrupt routine that runs in loopback.               *)
LEMMA IsrOfXmit ==
  ASSUME loopback = 1, ThreadsInv, NEW t \in Threads, thr[t].pc \in IsrLabels
  PROVE  \E d \in Devs : t = Xmit(d)
<1>1. PICK d \in Devs : t = Xmit(d) \/ t = Irq(d)
  BY DEF Threads, Xmit, Irq
<1> QED
  BY <1>1 DEF ThreadsInv, IrqLabels, IsrLabels

(* A device that transmits nothing is not concerned by a step that leaves  *)
(* its descriptors alone, frees what it frees for good, and delivers       *)
(* nothing to its peer.                                                    *)
LEMMA LoopbackFrame ==
  ASSUME NEW e \in Devs, Idle(Xmit(e)), LoopbackAt(e), TypeOK,
         InOpen(e, "dirty_tx")' <=> InOpen(e, "dirty_tx"),
         InOpen(e, "tx_skbuff")' <=> InOpen(e, "tx_skbuff"),
         thr'[Xmit(e)] = thr[Xmit(e)],
         priv'[e].cur_tx = priv[e].cur_tx, priv'[e].dirty_tx = priv[e].dirty_tx,
         priv'[e].tx_skbuff = priv[e].tx_skbuff,
         sent'[e] = sent[e],
         \A s \in Skbs : own[s] = "freed" => own'[s] = "freed",
         rcvd'[Peer(e)] = rcvd[Peer(e)],
         priv'[Peer(e)].rx_dropped = priv[Peer(e)].rx_dropped
  PROVE  LoopbackAt(e)'
<1>1. thr'[Xmit(e)].pc = "idle" /\ thr[Xmit(e)].pc = "idle"
  BY DEF Idle
<1>2. ~Completing(e) /\ ~Completing(e)' /\ ~Underway(e) /\ ~Underway(e)'
  BY <1>1 DEF Completing, Underway, IsrLabels
<1>3. RingInv(e)'
  BY <1>1, <1>2 DEF LoopbackAt, RingInv, Idle
<1>4. IsrInv(e)'
  BY <1>1 DEF IsrInv
<1>5. SentInv(e)'
  <2>1. sent[e] \in Seq(Skbs)
    BY DEF TypeOK
  <2>2. \A i \in 1..Len(sent[e]) : own[sent[e][i]] = "freed"
    BY <1>1, <2>1 DEF LoopbackAt, SentInv, Idle
  <2>3. \A i \in 1..Len(sent[e]) : own'[sent'[e][i]] = "freed"
    BY <2>1, <2>2
  <2> QED
    BY <1>1, <2>1, <2>3 DEF SentInv, Idle
<1>6. SettledInv(e)'
  BY <1>2 DEF LoopbackAt, SettledInv
<1> QED
  BY <1>3, <1>4, <1>5, <1>6 DEF LoopbackAt

(* open changes nothing but the descriptors, when nothing is in progress.  *)
LEMMA OpenFrame ==
  ASSUME TypeOK, loopback = 1, UNCHANGED <<thr, own, sent, rcvd>>,
         \A f \in Devs : priv'[f].rx_dropped = priv[f].rx_dropped,
         NEW e \in Devs, LoopbackAt(e), Idle(Xmit(e)), RingInv(e)'
  PROVE  LoopbackAt(e)'
<1>1. Idle(Xmit(e))' /\ thr'[Xmit(e)].pc = "idle" /\ Peer(e) \in Devs
  BY TwoDevices DEF Idle
<1>2. Underway(e)' = Underway(e)
  BY DEF Underway
<1>3. IsrInv(e)'
  BY <1>1 DEF IsrInv
<1>4. SentInv(e)'
  BY DEF LoopbackAt, SentInv, Idle
<1>5. SettledInv(e)'
  BY <1>1, <1>2 DEF LoopbackAt, SettledInv
<1> QED
  BY <1>3, <1>4, <1>5 DEF LoopbackAt

LEMMA OpenSetsLoop ==
  ASSUME TypeOK, loopback = 1, NEW d \in Devs,
         \/ SetBufLen(d) \/ AllocRing(d) \/ ClearFull(d) \/ ClearCurTx(d)
         \/ ClearDirtyTx(d) \/ ClearSkbuffs(d) \/ StartQueue(d),
         NEW e \in Devs, LoopbackAt(e)
  PROVE  LoopbackAt(e)'
<1>1. /\ UNCHANGED <<thr, own, sent, rcvd>>
      /\ Idle(Xmit(e)) /\ opening.dev = d
  BY OpenSets, ThreadsAre
  DEF SetBufLen, AllocRing, ClearFull, ClearCurTx, ClearDirtyTx, ClearSkbuffs,
      StartQueue, Opening, ProcessMayRun, Quiet
<1>2. /\ priv \in [Devs -> PrivStates]
      /\ opening \in [dev : Devs, pc : OpenLabels]
  BY DEF TypeOK
<1>3. \A f \in Devs : priv'[f].rx_dropped = priv[f].rx_dropped
  BY <1>2
  DEF SetBufLen, AllocRing, ClearFull, ClearCurTx, ClearDirtyTx, ClearSkbuffs,
      StartQueue, PrivStates
<1>4. Idle(Xmit(e))' /\ ~Completing(e) /\ ~Completing(e)'
  BY <1>1 DEF Idle, Completing, IsrLabels
<1>5. CASE e # d
  <2>1. opening'.dev = d
    BY <1>1, <1>2
    DEF SetBufLen, AllocRing, ClearFull, ClearCurTx, ClearDirtyTx,
        ClearSkbuffs, StartQueue, OpenAt
  <2>2. priv'[e] = priv[e]
    BY <1>2, <1>5
    DEF SetBufLen, AllocRing, ClearFull, ClearCurTx, ClearDirtyTx,
        ClearSkbuffs, StartQueue
  <2>3. /\ InOpen(e, "dirty_tx")' <=> InOpen(e, "dirty_tx")
        /\ InOpen(e, "tx_skbuff")' <=> InOpen(e, "tx_skbuff")
    BY <1>1, <1>5, <2>1 DEF InOpen
  <2> QED
    BY <1>1, <1>3, <2>2, <2>3, TwoDevices, LoopbackFrame
<1>6. CASE e = d /\ (SetBufLen(d) \/ AllocRing(d) \/ ClearFull(d) \/ StartQueue(d))
  <2>1. /\ priv'[e].cur_tx = priv[e].cur_tx
        /\ priv'[e].dirty_tx = priv[e].dirty_tx
        /\ priv'[e].tx_skbuff = priv[e].tx_skbuff
    BY <1>2, <1>6 DEF SetBufLen, AllocRing, ClearFull, StartQueue, PrivStates
  <2>2. /\ ~InOpen(e, "dirty_tx")' /\ ~InOpen(e, "dirty_tx")
        /\ ~InOpen(e, "tx_skbuff")' /\ ~InOpen(e, "tx_skbuff")
    BY <1>2, <1>6
    DEF SetBufLen, AllocRing, ClearFull, StartQueue, Opening, OpenAt, InOpen
  <2> QED
    BY <1>1, <1>3, <2>1, <2>2, TwoDevices, LoopbackFrame
<1>7. CASE e = d /\ ClearCurTx(d)
  <2>1. priv'[e].cur_tx = 0 /\ InOpen(e, "dirty_tx")'
    BY <1>2, <1>7 DEF ClearCurTx, Opening, OpenAt, InOpen, PrivStates
  <2>2. RingInv(e)'
    BY <1>4, <2>1 DEF RingInv
  <2> QED
    BY <1>1, <1>3, <2>2, OpenFrame
<1>8. CASE e = d /\ ClearDirtyTx(d)
  <2>1. /\ InOpen(e, "dirty_tx") /\ InOpen(e, "tx_skbuff")'
        /\ ~InOpen(e, "dirty_tx")'
    BY <1>2, <1>8 DEF ClearDirtyTx, Opening, OpenAt, InOpen
  <2>2. priv[e].cur_tx = 0
    BY <1>4, <2>1 DEF LoopbackAt, RingInv
  <2>3. priv'[e].cur_tx = 0 /\ priv'[e].dirty_tx = 0
    BY <1>2, <1>8, <2>2 DEF ClearDirtyTx, PrivStates
  <2>4. RingInv(e)'
    BY <1>4, <2>1, <2>3 DEF RingInv
  <2> QED
    BY <1>1, <1>3, <2>4, OpenFrame
<1>9. CASE e = d /\ ClearSkbuffs(d)
  <2>1. ~InOpen(e, "dirty_tx") /\ ~InOpen(e, "dirty_tx")'
    BY <1>2, <1>9 DEF ClearSkbuffs, Opening, OpenAt, InOpen
  <2>2. /\ priv'[e].cur_tx = priv[e].cur_tx
        /\ priv'[e].dirty_tx = priv[e].dirty_tx
        /\ \A i \in Slots : priv'[e].tx_skbuff[i] = NULL
    BY <1>2, <1>9 DEF ClearSkbuffs, NoSkbs, PrivStates
  <2>3. RingInv(e)'
    BY <1>4, <2>1, <2>2 DEF LoopbackAt, RingInv
  <2> QED
    BY <1>1, <1>3, <2>3, OpenFrame
<1> QED
  BY <1>5, <1>6, <1>7, <1>8, <1>9

(* The packet is stored in the next descriptor; it may be too short.       *)
LEMMA StartXmitLoop ==
  ASSUME TypeOK, loopback = 1, NEW d \in Devs, NEW s \in Skbs,
         StartXmit(d, s), LoopbackAt(d), LoopbackAt(Peer(d)),
         ~InOpen(d, "dirty_tx"), ~InOpen(d, "tx_skbuff"),
         \A f \in Devs : /\ InOpen(f, "dirty_tx")' <=> InOpen(f, "dirty_tx")
                         /\ InOpen(f, "tx_skbuff")' <=> InOpen(f, "tx_skbuff")
  PROVE  LoopbackAt(d)' /\ LoopbackAt(Peer(d))'
<1> DEFINE p == priv[d]
           x == thr[Xmit(d)]
           entry == p.cur_tx % NUM_TX_DESC
<1>1. MayRun(Xmit(d)) /\ x.pc = "idle" /\ Idle(Xmit(d)) /\ own[s] = "stack"
  BY DEF StartXmit, At, Idle
<1>2. /\ priv'[d].cur_tx = p.cur_tx /\ priv'[d].dirty_tx = p.dirty_tx
      /\ priv'[d].tx_skbuff = [p.tx_skbuff EXCEPT ![entry] = s]
      /\ priv'[d].rx_dropped = p.rx_dropped /\ priv'[Peer(d)] = priv[Peer(d)]
  BY TwoDevices DEF StartXmit, TypeOK, PrivStates
<1>3. /\ p.cur_tx \in Nat /\ entry \in Slots
      /\ p.tx_skbuff \in [Slots -> Skbs \cup {NULL}]
  BY Fields, TwoDevices, Entry
<1>4. ~Completing(d) /\ ~Underway(d)
  BY <1>1 DEF Completing, Underway, IsrLabels
<1>5. /\ p.dirty_tx = p.cur_tx
      /\ \A i \in Slots : i # entry => p.tx_skbuff[i] = NULL
  BY <1>4 DEF LoopbackAt, RingInv
<1> HIDE DEF entry
<1>6. \A i \in Slots : i # entry => priv'[d].tx_skbuff[i] = NULL
  BY <1>2, <1>3, <1>5
<1>7. rcvd' = rcvd
  BY DEF StartXmit
<1>8. CASE UNCHANGED <<thr, own, sent>>
  <2>1. RingInv(d)'
    BY <1>1, <1>2, <1>4, <1>5, <1>6, <1>8
    DEF RingInv, Completing, Idle, entry
  <2>2. IsrInv(d)'
    BY <1>1, <1>8 DEF IsrInv
  <2>3. SentInv(d)'
    BY <1>8 DEF LoopbackAt, SentInv, Idle
  <2>4. SettledInv(d)'
    BY <1>2, <1>7, <1>8 DEF LoopbackAt, SettledInv, Underway
  <2>5. LoopbackAt(Peer(d))'
    BY <1>1, <1>2, <1>7, <1>8, TwoDevices, PeerIdle, LoopbackFrame
  <2> QED
    BY <2>1, <2>2, <2>3, <2>4, <2>5 DEF LoopbackAt
<1>9. CASE s \notin Short
  <2>1. /\ own' = [own EXCEPT ![s] = "driver"]
        /\ own \in [Skbs -> {"stack", "driver", "freed"}]
        /\ sent' = [sent EXCEPT ![d] = Append(@, s)]
        /\ sent \in [Devs -> Seq(Skbs)]
    BY <1>9 DEF StartXmit, TypeOK
  <2>2. /\ thr'[Xmit(d)].pc = "mark_rx" /\ thr'[Xmit(d)].skb = s
        /\ thr'[Xmit(d)].entry = entry
        /\ thr'[Xmit(Peer(d))] = thr[Xmit(Peer(d))]
    <3>1. thr' = [thr EXCEPT ![Xmit(d)].skb = s, ![Xmit(d)].entry = entry,
                             ![Xmit(d)].pc = "mark_rx"]
      BY <1>9 DEF StartXmit, entry
    <3> QED
      BY <3>1, TwoDevices DEF TypeOK, ThreadStates
  <2>3. s \in Small \cup Big
    BY <1>9 DEF Skbs
  <2>4. priv'[d].tx_skbuff[entry] = s /\ own'[s] = "driver"
    BY <1>2, <1>3, <2>1
  <2>5. ~Completing(d)' /\ Underway(d)' /\ ~Idle(Xmit(d))'
    BY <2>2 DEF Completing, Underway, Idle, IsrLabels
  <2>6. RingInv(d)'
    BY <1>2, <1>5, <1>6, <2>2, <2>3, <2>4, <2>5 DEF RingInv, entry
  <2>7. IsrInv(d)'
    BY <2>2 DEF IsrInv
  <2>8. SentInv(d)'
    <3>1. \A i \in 1..Len(sent[d]) : own[sent[d][i]] = "freed"
      BY <1>1, <2>1 DEF LoopbackAt, SentInv
    <3>2. \A i \in 1..Len(sent[d]) : own'[sent[d][i]] = "freed"
      BY <1>1, <2>1, <3>1
    <3>3. /\ sent'[d] = Append(sent[d], s) /\ sent[d] \in Seq(Skbs)
          /\ Len(sent'[d]) = Len(sent[d]) + 1
          /\ sent'[d][Len(sent'[d])] = s
          /\ \A i \in 1..Len(sent[d]) : sent'[d][i] = sent[d][i]
      BY <2>1
    <3> QED
      BY <2>2, <2>5, <3>2, <3>3 DEF SentInv
  <2>9. SettledInv(d)'
    <3>1. Len(sent'[d]) = Len(sent[d]) + 1 /\ Len(sent[d]) \in Nat
      BY <2>1
    <3>2. Len(rcvd[Peer(d)]) + priv[Peer(d)].rx_dropped = Len(sent[d])
      BY <1>4, <3>1 DEF LoopbackAt, SettledInv
    <3> QED
      BY <1>2, <1>7, <2>5, <3>1, <3>2 DEF SettledInv
  <2>10. LoopbackAt(Peer(d))'
    <3>1. \A v \in Skbs : own[v] = "freed" => own'[v] = "freed"
      BY <1>1, <2>1
    <3>2. sent'[Peer(d)] = sent[Peer(d)]
      BY <2>1, TwoDevices
    <3> QED
      BY <1>1, <1>2, <1>7, <2>2, <3>1, <3>2, TwoDevices, PeerIdle, LoopbackFrame
  <2> QED
    BY <2>6, <2>7, <2>8, <2>9, <2>10 DEF LoopbackAt
<1> QED
  BY <1>8, <1>9 DEF StartXmit

(* The fields of struct rio_priv that have to do with transmission are     *)
(* left alone by whoever sets another one.                                 *)
LEMMA OtherField ==
  ASSUME TypeOK, NEW e \in Devs, NEW v,
         \/ priv' = [priv EXCEPT ![e].status = v]
         \/ priv' = [priv EXCEPT ![e].lock = v]
         \/ priv' = [priv EXCEPT ![e].ring = v]
         \/ priv' = [priv EXCEPT ![e].rx_dropped = v],
         NEW f \in Devs
  PROVE  /\ priv'[f].cur_tx = priv[f].cur_tx
         /\ priv'[f].dirty_tx = priv[f].dirty_tx
         /\ priv'[f].tx_skbuff = priv[f].tx_skbuff
         /\ priv'[f].tx_full = priv[f].tx_full
<1>1. priv \in [Devs -> PrivStates]
  BY DEF TypeOK
<1>2. CASE f # e
  BY <1>1, <1>2
<1>3. CASE f = e
  <2>1. priv[e] \in PrivStates
    BY <1>1
  <2>2. \/ priv'[e] = [priv[e] EXCEPT !.status = v]
        \/ priv'[e] = [priv[e] EXCEPT !.lock = v]
        \/ priv'[e] = [priv[e] EXCEPT !.ring = v]
        \/ priv'[e] = [priv[e] EXCEPT !.rx_dropped = v]
    BY <1>1
  <2> QED
    BY <1>3, <2>1, <2>2 DEF PrivStates
<1> QED
  BY <1>2, <1>3

LEMMA OtherCount ==
  ASSUME TypeOK, NEW e \in Devs, NEW v,
         \/ priv' = [priv EXCEPT ![e].status = v]
         \/ priv' = [priv EXCEPT ![e].lock = v]
         \/ priv' = [priv EXCEPT ![e].ring = v],
         NEW f \in Devs
  PROVE  priv'[f].rx_dropped = priv[f].rx_dropped
<1>1. priv \in [Devs -> PrivStates]
  BY DEF TypeOK
<1>2. CASE f # e
  BY <1>1, <1>2
<1>3. CASE f = e
  <2>1. priv[e] \in PrivStates
    BY <1>1
  <2>2. \/ priv'[e] = [priv[e] EXCEPT !.status = v]
        \/ priv'[e] = [priv[e] EXCEPT !.lock = v]
        \/ priv'[e] = [priv[e] EXCEPT !.ring = v]
    BY <1>1
  <2> QED
    BY <1>3, <2>1, <2>2 DEF PrivStates
<1> QED
  BY <1>2, <1>3

(* What a step of start_xmit, or of the routine it has called, leaves as   *)
(* it was for its own device.                                              *)
LEMMA SameDescriptors ==
  ASSUME NEW d \in Devs, LoopbackAt(d),
         InOpen(d, "dirty_tx")' <=> InOpen(d, "dirty_tx"),
         InOpen(d, "tx_skbuff")' <=> InOpen(d, "tx_skbuff"),
         ~Completing(d), ~Completing(d)', ~Idle(Xmit(d)),
         priv'[d].cur_tx = priv[d].cur_tx, priv'[d].dirty_tx = priv[d].dirty_tx,
         priv'[d].tx_skbuff = priv[d].tx_skbuff, UNCHANGED own,
         thr'[Xmit(d)].skb = thr[Xmit(d)].skb,
         thr'[Xmit(d)].entry = thr[Xmit(d)].entry
  PROVE  RingInv(d)'
BY DEF LoopbackAt, RingInv

LEMMA SameSent ==
  ASSUME NEW d \in Devs, LoopbackAt(d), ~Idle(Xmit(d)), ~Idle(Xmit(d))',
         UNCHANGED <<own, sent>>, thr'[Xmit(d)].skb = thr[Xmit(d)].skb
  PROVE  SentInv(d)'
BY DEF LoopbackAt, SentInv

LEMMA SameSettled ==
  ASSUME loopback = 1, NEW d \in Devs, LoopbackAt(d),
         UNCHANGED <<sent, rcvd>>, Underway(d)' = Underway(d),
         priv'[Peer(d)].rx_dropped = priv[Peer(d)].rx_dropped
  PROVE  SettledInv(d)'
BY DEF LoopbackAt, SettledInv

LEMMA MarkRxLoop ==
  ASSUME TypeOK, loopback = 1, NEW d \in Devs, MarkRx(d),
         LoopbackAt(d), LoopbackAt(Peer(d)),
         ~InOpen(d, "dirty_tx"), ~InOpen(d, "tx_skbuff"),
         \A f \in Devs : /\ InOpen(f, "dirty_tx")' <=> InOpen(f, "dirty_tx")
                         /\ InOpen(f, "tx_skbuff")' <=> InOpen(f, "tx_skbuff")
  PROVE  LoopbackAt(d)' /\ LoopbackAt(Peer(d))'
<1>1. /\ MayRun(Xmit(d)) /\ thr[Xmit(d)].pc = "mark_rx"
      /\ UNCHANGED <<own, sent, rcvd>>
  BY DEF MarkRx, At
<1>2. /\ thr'[Xmit(d)].pc = "copy"
      /\ thr'[Xmit(d)].skb = thr[Xmit(d)].skb
      /\ thr'[Xmit(d)].entry = thr[Xmit(d)].entry
      /\ thr'[Xmit(Peer(d))] = thr[Xmit(Peer(d))]
  BY TwoDevices DEF MarkRx, GoTo, TypeOK, ThreadStates
<1>3. /\ priv'[Peer(d)].status = {RX}
      /\ \A f \in Devs : /\ priv'[f].cur_tx = priv[f].cur_tx
                         /\ priv'[f].dirty_tx = priv[f].dirty_tx
                         /\ priv'[f].tx_skbuff = priv[f].tx_skbuff
                         /\ priv'[f].rx_dropped = priv[f].rx_dropped
  <2>1. priv' = [priv EXCEPT ![Peer(d)].status = {RX}]
    BY DEF MarkRx
  <2>2. priv'[Peer(d)].status = {RX}
    BY <2>1, TwoDevices DEF TypeOK, PrivStates
  <2> QED
    BY <2>1, <2>2, TwoDevices, OtherField, OtherCount
<1>4. /\ ~Completing(d) /\ ~Completing(d)' /\ Underway(d) /\ Underway(d)'
      /\ ~Idle(Xmit(d)) /\ ~Idle(Xmit(d))'
  BY <1>1, <1>2 DEF Completing, Underway, Idle, IsrLabels
<1>5. RingInv(d)'
  BY <1>1, <1>2, <1>3, <1>4, SameDescriptors
<1>6. IsrInv(d)'
  BY <1>2, <1>3 DEF IsrInv
<1>7. SentInv(d)' /\ SettledInv(d)'
  BY <1>1, <1>2, <1>3, <1>4, TwoDevices, SameSent, SameSettled
<1>8. LoopbackAt(Peer(d))'
  BY <1>1, <1>2, <1>3, TwoDevices, PeerIdle, LoopbackFrame
<1> QED
  BY <1>5, <1>6, <1>7, <1>8 DEF LoopbackAt

(* The packet in progress lies in the peer's ring.                         *)
LEMMA CopyToRingLoop ==
  ASSUME TypeOK, loopback = 1, NEW d \in Devs, CopyToRing(d),
         LoopbackAt(d), LoopbackAt(Peer(d)),
         ~InOpen(d, "dirty_tx"), ~InOpen(d, "tx_skbuff"),
         \A f \in Devs : /\ InOpen(f, "dirty_tx")' <=> InOpen(f, "dirty_tx")
                         /\ InOpen(f, "tx_skbuff")' <=> InOpen(f, "tx_skbuff")
  PROVE  LoopbackAt(d)' /\ LoopbackAt(Peer(d))'
<1>1. /\ MayRun(Xmit(d)) /\ thr[Xmit(d)].pc = "copy"
      /\ UNCHANGED <<own, sent, rcvd>>
  BY DEF CopyToRing, At
<1>2. CASE UNCHANGED <<priv, thr>>
  <2>1. ~Completing(d) /\ ~Completing(d)' /\ Underway(d)' = Underway(d)
    BY <1>1, <1>2 DEF Completing, Underway, IsrLabels
  <2>2. ~Idle(Xmit(d)) /\ ~Idle(Xmit(d))'
    BY <1>1, <1>2 DEF Idle
  <2>3. RingInv(d)' /\ SentInv(d)' /\ SettledInv(d)'
    BY <1>1, <1>2, <2>1, <2>2, SameDescriptors, SameSent, SameSettled
  <2>4. IsrInv(d)'
    BY <1>2 DEF LoopbackAt, IsrInv
  <2>5. LoopbackAt(Peer(d))'
    BY <1>1, <1>2, TwoDevices, PeerIdle, LoopbackFrame
  <2> QED
    BY <2>3, <2>4, <2>5 DEF LoopbackAt
<1>3. CASE /\ priv' = [priv EXCEPT ![Peer(d)].ring = thr[Xmit(d)].skb]
           /\ thr' = [thr EXCEPT ![Xmit(d)].pc = "isr_lock",
                                 ![Xmit(d)].dev = Peer(d)]
  <2>1. /\ thr'[Xmit(d)].pc = "isr_lock" /\ thr'[Xmit(d)].dev = Peer(d)
        /\ thr'[Xmit(d)].skb = thr[Xmit(d)].skb
        /\ thr'[Xmit(d)].entry = thr[Xmit(d)].entry
        /\ thr'[Xmit(Peer(d))] = thr[Xmit(Peer(d))]
    BY <1>3, TwoDevices DEF TypeOK, ThreadStates
  <2>2. /\ priv'[Peer(d)].ring = thr[Xmit(d)].skb
        /\ priv'[Peer(d)].status = priv[Peer(d)].status
        /\ \A f \in Devs : /\ priv'[f].cur_tx = priv[f].cur_tx
                           /\ priv'[f].dirty_tx = priv[f].dirty_tx
                           /\ priv'[f].tx_skbuff = priv[f].tx_skbuff
                           /\ priv'[f].rx_dropped = priv[f].rx_dropped
    <3>1. /\ priv'[Peer(d)].ring = thr[Xmit(d)].skb
          /\ priv'[Peer(d)].status = priv[Peer(d)].status
      BY <1>3, TwoDevices DEF TypeOK, PrivStates
    <3> QED
      BY <1>3, <3>1, TwoDevices, OtherField, OtherCount
  <2>3. /\ ~Completing(d) /\ ~Completing(d)' /\ Underway(d) /\ Underway(d)'
        /\ ~Idle(Xmit(d)) /\ ~Idle(Xmit(d))'
    BY <1>1, <2>1, TwoDevices DEF Completing, Underway, Idle, IsrLabels
  <2>4. RingInv(d)'
    BY <1>1, <2>1, <2>2, <2>3, SameDescriptors
  <2>5. IsrInv(d)'
    <3>1. priv[Peer(d)].status = {RX}
      BY <1>1 DEF LoopbackAt, IsrInv
    <3> QED
      BY <2>1, <2>2, <3>1, TwoDevices DEF IsrInv
  <2>6. SentInv(d)' /\ SettledInv(d)'
    BY <1>1, <2>1, <2>2, <2>3, TwoDevices, SameSent, SameSettled
  <2>7. LoopbackAt(Peer(d))'
    BY <1>1, <2>1, <2>2, TwoDevices, PeerIdle, LoopbackFrame
  <2> QED
    BY <2>4, <2>5, <2>6, <2>7 DEF LoopbackAt
<1> QED
  BY <1>2, <1>3 DEF CopyToRing

(* The device's own interrupt is to free the descriptor just filled.       *)
LEMMA MarkTxLoop ==
  ASSUME TypeOK, loopback = 1, NEW d \in Devs, MarkTx(d),
         LoopbackAt(d), LoopbackAt(Peer(d)),
         ~InOpen(d, "dirty_tx"), ~InOpen(d, "tx_skbuff"),
         \A f \in Devs : /\ InOpen(f, "dirty_tx")' <=> InOpen(f, "dirty_tx")
                         /\ InOpen(f, "tx_skbuff")' <=> InOpen(f, "tx_skbuff")
  PROVE  LoopbackAt(d)' /\ LoopbackAt(Peer(d))'
<1> DEFINE p == priv[d]
           x == thr[Xmit(d)]
<1>1. /\ MayRun(Xmit(d)) /\ x.pc = "mark_tx"
      /\ UNCHANGED <<own, sent, rcvd>>
  BY DEF MarkTx, At
<1>2. /\ thr'[Xmit(d)].pc = "isr_lock" /\ thr'[Xmit(d)].dev = d
      /\ thr'[Xmit(d)].skb = x.skb /\ thr'[Xmit(d)].entry = x.entry
      /\ thr'[Xmit(Peer(d))] = thr[Xmit(Peer(d))]
  BY TwoDevices DEF MarkTx, TypeOK, ThreadStates
<1>3. /\ priv'[d].cur_tx = p.cur_tx + 1 /\ priv'[d].dirty_tx = x.entry
      /\ priv'[d].status = {TX} /\ priv'[d].tx_skbuff = p.tx_skbuff
      /\ priv'[d].rx_dropped = p.rx_dropped /\ priv'[Peer(d)] = priv[Peer(d)]
  BY TwoDevices DEF MarkTx, CountTx, TypeOK, PrivStates
<1>4. /\ ~Completing(d) /\ Completing(d)' /\ ~Underway(d) /\ ~Underway(d)'
      /\ ~Idle(Xmit(d)) /\ ~Idle(Xmit(d))'
  BY <1>1, <1>2 DEF Completing, Underway, Idle, IsrLabels
<1>5. /\ \A i \in Slots : i # x.entry => p.tx_skbuff[i] = NULL
      /\ x.entry = p.cur_tx % NUM_TX_DESC /\ p.tx_skbuff[x.entry] = x.skb
      /\ own[x.skb] = "driver" /\ x.skb \in Small \cup Big
  BY <1>4 DEF LoopbackAt, RingInv
<1>6. p.cur_tx \in Nat
  BY Fields, TwoDevices
<1>7. RingInv(d)'
  BY <1>1, <1>2, <1>3, <1>4, <1>5, <1>6 DEF RingInv
<1>8. IsrInv(d)'
  BY <1>2, <1>3 DEF IsrInv
<1>9. SentInv(d)' /\ SettledInv(d)'
  <2>1. SentInv(d)'
    BY <1>1, <1>2, <1>4, SameSent
  <2>2. SettledInv(d)'
    BY <1>1, <1>3, <1>4 DEF LoopbackAt, SettledInv
  <2> QED
    BY <2>1, <2>2
<1>10. LoopbackAt(Peer(d))'
  BY <1>1, <1>2, <1>3, TwoDevices, PeerIdle, LoopbackFrame
<1> QED
  BY <1>7, <1>8, <1>9, <1>10 DEF LoopbackAt

(* The routine takes the lock and reads the simulated status.              *)
LEMMA IsrLockLoop ==
  ASSUME TypeOK, loopback = 1, NEW d \in Devs, IsrLock(Xmit(d)),
         LoopbackAt(d), LoopbackAt(Peer(d)),
         ~InOpen(d, "dirty_tx"), ~InOpen(d, "tx_skbuff"),
         \A f \in Devs : /\ InOpen(f, "dirty_tx")' <=> InOpen(f, "dirty_tx")
                         /\ InOpen(f, "tx_skbuff")' <=> InOpen(f, "tx_skbuff")
  PROVE  LoopbackAt(d)' /\ LoopbackAt(Peer(d))'
<1> DEFINE x == thr[Xmit(d)]
<1>1. /\ MayRun(Xmit(d)) /\ x.pc = "isr_lock"
      /\ UNCHANGED <<own, sent, rcvd>>
  BY DEF IsrLock, At
<1>2. x.dev \in Devs /\ (x.dev = d \/ x.dev = Peer(d))
  BY TwoDevices DEF TypeOK, ThreadStates
<1>3. /\ thr'[Xmit(d)].pc = "isr_rx" /\ thr'[Xmit(d)].dev = x.dev
      /\ thr'[Xmit(d)].skb = x.skb /\ thr'[Xmit(d)].entry = x.entry
      /\ thr'[Xmit(d)].word = priv[x.dev].status
      /\ thr'[Xmit(Peer(d))] = thr[Xmit(Peer(d))]
  BY TwoDevices DEF IsrLock, TypeOK, ThreadStates
<1>4. \A f \in Devs : /\ priv'[f].cur_tx = priv[f].cur_tx
                      /\ priv'[f].dirty_tx = priv[f].dirty_tx
                      /\ priv'[f].tx_skbuff = priv[f].tx_skbuff
                      /\ priv'[f].ring = priv[f].ring
                      /\ priv'[f].rx_dropped = priv[f].rx_dropped
  <2>1. priv' = [priv EXCEPT ![x.dev].lock = Xmit(d)]
    BY DEF IsrLock
  <2>2. \A f \in Devs : priv'[f].ring = priv[f].ring
    <3> SUFFICES ASSUME NEW f \in Devs PROVE priv'[f].ring = priv[f].ring
      OBVIOUS
    <3>1. priv \in [Devs -> PrivStates]
      BY DEF TypeOK
    <3> HIDE DEF x
    <3> QED
      BY <1>2, <2>1, <3>1 DEF PrivStates
  <2> HIDE DEF x
  <2> QED
    BY <1>2, <2>1, <2>2, OtherField, OtherCount
<1>5. /\ Completing(d)' = Completing(d) /\ Underway(d)' = Underway(d)
      /\ ~Idle(Xmit(d)) /\ ~Idle(Xmit(d))'
  BY <1>1, <1>3 DEF Completing, Underway, Idle, IsrLabels
<1>6. RingInv(d)'
  BY <1>1, <1>3, <1>4, <1>5 DEF LoopbackAt, RingInv
<1>7. IsrInv(d)'
  BY <1>1, <1>2, <1>3, <1>4 DEF LoopbackAt, IsrInv
<1>8. SentInv(d)' /\ SettledInv(d)'
  BY <1>1, <1>3, <1>4, <1>5, TwoDevices, SameSent, SameSettled
<1>9. LoopbackAt(Peer(d))'
  BY <1>1, <1>3, <1>4, TwoDevices, PeerIdle, LoopbackFrame
<1> QED
  BY <1>6, <1>7, <1>8, <1>9 DEF LoopbackAt

(* The peer's interrupt delivers the packet, or drops and counts it.       *)
LEMMA IsrRxLoop ==
  ASSUME TypeOK, loopback = 1, NEW d \in Devs, IsrRx(Xmit(d)),
         LoopbackAt(d), LoopbackAt(Peer(d)),
         ~InOpen(d, "dirty_tx"), ~InOpen(d, "tx_skbuff"),
         \A f \in Devs : /\ InOpen(f, "dirty_tx")' <=> InOpen(f, "dirty_tx")
                         /\ InOpen(f, "tx_skbuff")' <=> InOpen(f, "tx_skbuff")
  PROVE  LoopbackAt(d)' /\ LoopbackAt(Peer(d))'
<1> DEFINE x == thr[Xmit(d)]
           e == Peer(d)
<1>1. /\ MayRun(Xmit(d)) /\ x.pc = "isr_rx" /\ UNCHANGED <<own, sent>>
  BY DEF IsrRx, At
<1>2. x.dev \in Devs /\ (x.dev = d \/ x.dev = e)
  BY TwoDevices DEF TypeOK, ThreadStates
<1>3. /\ thr'[Xmit(d)].pc = "isr_tx" /\ thr'[Xmit(d)].dev = x.dev
      /\ thr'[Xmit(d)].skb = x.skb /\ thr'[Xmit(d)].entry = x.entry
      /\ thr'[Xmit(d)].word = x.word
      /\ thr'[Xmit(d)].i = priv[x.dev].dirty_tx
      /\ thr'[Xmit(e)] = thr[Xmit(e)]
  BY TwoDevices DEF IsrRx, TypeOK, ThreadStates
<1>4. /\ Completing(d)' = Completing(d) /\ ~Underway(d)'
      /\ ~Idle(Xmit(d)) /\ ~Idle(Xmit(d))'
  BY <1>1, <1>3 DEF Completing, Underway, Idle, IsrLabels
<1>5. IsrInv(d)'
  BY <1>1, <1>3 DEF LoopbackAt, IsrInv
<1>6. SentInv(d)'
  BY <1>1, <1>3, <1>4, SameSent
<1>7. CASE x.dev = d
  <2>1. UNCHANGED <<priv, rcvd>>
    <3>1. x.word = {TX}
      BY <1>1, <1>7 DEF LoopbackAt, IsrInv
    <3> QED
      BY <1>7, <3>1 DEF IsrRx, RX, TX
  <2>2. Completing(d)
    BY <1>1, <1>7 DEF Completing, IsrLabels
  <2>3. RingInv(d)'
    BY <1>1, <1>3, <1>4, <1>7, <2>1, <2>2 DEF LoopbackAt, RingInv
  <2>4. SettledInv(d)'
    BY <1>1, <1>4, <1>7, <2>1, SameSettled DEF Underway
  <2>5. LoopbackAt(e)'
    BY <1>1, <1>3, <2>1, TwoDevices, PeerIdle, LoopbackFrame
  <2> QED
    BY <1>5, <1>6, <2>3, <2>4, <2>5 DEF LoopbackAt
<1>8. CASE x.dev = e
  <2>1. x.word = {RX} /\ priv[e].ring = x.skb /\ x.skb \in Small \cup Big
    BY <1>1, <1>4, <1>8, TwoDevices DEF LoopbackAt, IsrInv, RingInv
  <2>2. Receive(e) /\ priv[e].ring \notin NoRing
    BY <1>8, <2>1, MarkAssumption DEF IsrRx, Skbs
  <2>3. ~Completing(d) /\ Underway(d)
    BY <1>1, <1>8, TwoDevices DEF Completing, Underway
  <2>4. \/ /\ rcvd' = [rcvd EXCEPT ![e] = Append(@, PacketAt(e))]
           /\ priv' = [priv EXCEPT ![e].ring = IF @ \in NoRing THEN @ ELSE Junk]
        \/ /\ priv' = [priv EXCEPT ![e].rx_dropped = @ + 1]
           /\ UNCHANGED rcvd
    BY <2>2 DEF Receive, MayOops, DropPacket, NoRing
  <2>5. /\ \A f \in Devs : /\ priv'[f].cur_tx = priv[f].cur_tx
                           /\ priv'[f].dirty_tx = priv[f].dirty_tx
                           /\ priv'[f].tx_skbuff = priv[f].tx_skbuff
        /\ priv'[d].rx_dropped = priv[d].rx_dropped
    <3>1. priv'[d].rx_dropped = priv[d].rx_dropped
      BY <2>4, TwoDevices DEF TypeOK
    <3>2. \E v : \/ priv' = [priv EXCEPT ![e].ring = v]
                 \/ priv' = [priv EXCEPT ![e].rx_dropped = v]
      BY <2>4
    <3> QED
      BY <3>1, <3>2, TwoDevices, OtherField
  <2>6. rcvd'[d] = rcvd[d]
    BY <2>4, TwoDevices DEF TypeOK
  <2>7. RingInv(d)'
    BY <1>1, <1>3, <1>4, <2>3, <2>5, SameDescriptors
  <2>8. SettledInv(d)'
    <3>1. priv \in [Devs -> PrivStates] /\ e \in Devs
      BY TwoDevices DEF TypeOK
    <3>2. rcvd \in [Devs -> Seq(Skbs \cup {Junk})]
      BY DEF TypeOK
    <3>3. priv[e].rx_dropped \in Nat /\ Len(rcvd[e]) \in Nat
      BY <3>1, <3>2 DEF PrivStates
    <3>4. sent[d] \in Seq(Skbs) /\ sent'[d] = sent[d]
      BY <1>1 DEF TypeOK
    <3>5. Len(rcvd[e]) + priv[e].rx_dropped = Len(sent[d]) - 1
      BY <2>3 DEF LoopbackAt, SettledInv
    <3>6. Len(rcvd'[e]) + priv'[e].rx_dropped =
            Len(rcvd[e]) + priv[e].rx_dropped + 1
      <4>1. CASE /\ rcvd' = [rcvd EXCEPT ![e] = Append(@, PacketAt(e))]
                 /\ priv' = [priv EXCEPT ![e].ring =
                               IF @ \in NoRing THEN @ ELSE Junk]
        <5>1. rcvd'[e] = Append(rcvd[e], PacketAt(e))
          BY <3>1, <3>2, <4>1
        <5>2. PacketAt(e) \in Skbs \cup {Junk}
          BY DEF PacketAt, Skbs
        <5>3. rcvd[e] \in Seq(Skbs \cup {Junk})
          BY <3>1, <3>2
        <5>4. Len(rcvd'[e]) = Len(rcvd[e]) + 1
          BY <5>1, <5>2, <5>3
        <5>5. priv'[e].rx_dropped = priv[e].rx_dropped
          BY <3>1, <4>1 DEF PrivStates
        <5> QED
          BY <3>3, <5>4, <5>5
      <4>2. CASE priv' = [priv EXCEPT ![e].rx_dropped = @ + 1] /\ UNCHANGED rcvd
        <5>1. priv[e] \in PrivStates
          BY <3>1
        <5>2. priv'[e] = [priv[e] EXCEPT !.rx_dropped = priv[e].rx_dropped + 1]
          BY <3>1, <4>2
        <5>3. priv'[e].rx_dropped = priv[e].rx_dropped + 1
          BY <5>1, <5>2 DEF PrivStates
        <5> HIDE DEF e
        <5> QED
          BY <3>3, <4>2, <5>3
      <4> QED
        BY <2>4, <4>1, <4>2
    <3> QED
      BY <1>4, <3>3, <3>4, <3>5, <3>6 DEF SettledInv
  <2>9. LoopbackAt(e)'
    BY <1>1, <1>3, <2>5, <2>6, TwoDevices, PeerIdle, LoopbackFrame
  <2> QED
    BY <1>5, <1>6, <2>7, <2>8, <2>9 DEF LoopbackAt
<1> QED
  BY <1>2, <1>7, <1>8

(* The device's interrupt frees the packet in progress; a turn more, which *)
(* a counter that has passed an index would take, finds nothing to free.   *)
LEMMA IsrFreeLoop ==
  ASSUME TypeOK, loopback = 1, NEW d \in Devs, IsrFree(Xmit(d)),
         LoopbackAt(d), LoopbackAt(Peer(d)),
         ~InOpen(d, "dirty_tx"), ~InOpen(d, "tx_skbuff"),
         \A f \in Devs : /\ InOpen(f, "dirty_tx")' <=> InOpen(f, "dirty_tx")
                         /\ InOpen(f, "tx_skbuff")' <=> InOpen(f, "tx_skbuff")
  PROVE  LoopbackAt(d)' /\ LoopbackAt(Peer(d))' /\ fault' # "double_free"
<1> DEFINE p == priv[d]
           x == thr[Xmit(d)]
           s == p.tx_skbuff[x.i]
<1>1. /\ MayRun(Xmit(d)) /\ x.pc = "isr_tx" /\ TX \in x.word
      /\ UNCHANGED <<sent, rcvd>> /\ fault = "none"
  BY DEF IsrFree, At, MayRun, MoreToFree
<1>2. x.dev = d
  BY <1>1 DEF LoopbackAt, IsrInv, RX, TX
<1>3. Completing(d) /\ ~Idle(Xmit(d)) /\ ~Underway(d)
  BY <1>1, <1>2 DEF Completing, Idle, Underway, IsrLabels
<1>4. /\ p.cur_tx > 0 /\ x.entry = (p.cur_tx - 1) % NUM_TX_DESC
      /\ x.entry \in Slots /\ x.skb \in Small \cup Big
      /\ p.tx_skbuff \in [Slots -> Skbs \cup {NULL}]
      /\ \A i \in Slots : i # x.entry => p.tx_skbuff[i] = NULL
      /\ \/ /\ x.i = x.entry /\ p.tx_skbuff[x.entry] = x.skb
            /\ own[x.skb] = "driver"
         \/ /\ x.i = x.entry + 1 /\ p.tx_skbuff[x.entry] = NULL
            /\ own[x.skb] = "freed"
  BY <1>1, <1>3, Fields DEF LoopbackAt, RingInv
<1>5. CASE /\ UNCHANGED <<dev, priv, thr, own>>
           /\ fault' \in {"null_skb", "slot_overrun"}
  <2>1. LoopbackAt(d)'
    BY <1>1, <1>5
    DEF LoopbackAt, RingInv, IsrInv, SentInv, SettledInv, Completing, Underway,
        Idle
  <2>2. LoopbackAt(Peer(d))'
    BY <1>1, <1>5, TwoDevices, PeerIdle, LoopbackFrame
  <2> QED
    BY <1>5, <2>1, <2>2
<1>6. CASE x.i \in Slots /\ s # NULL /\ own[s] = "freed"
  <2>1. x.i = x.entry /\ s = x.skb
    BY <1>4, <1>6
  <2> QED
    BY <1>4, <1>6, <2>1
<1>7. CASE /\ x.i \in Slots /\ s # NULL
           /\ own' = [own EXCEPT ![s] = "freed"]
           /\ priv' = [priv EXCEPT ![d].tx_skbuff[x.i] = NULL,
                                   ![d].tx_full = FALSE]
           /\ thr' = [thr EXCEPT ![Xmit(d)].i = NextEntry(x.i)]
           /\ UNCHANGED fault
  <2>1. x.i = x.entry /\ s = x.skb /\ own[x.skb] = "driver"
    BY <1>4, <1>7
  <2>2. /\ priv'[d].cur_tx = p.cur_tx /\ priv'[d].dirty_tx = p.dirty_tx
        /\ priv'[d].tx_skbuff = [p.tx_skbuff EXCEPT ![x.entry] = NULL]
        /\ priv'[d].rx_dropped = p.rx_dropped
        /\ priv'[Peer(d)] = priv[Peer(d)]
    BY <1>7, <2>1, TwoDevices DEF TypeOK, PrivStates
  <2>3. /\ thr'[Xmit(d)].pc = "isr_tx" /\ thr'[Xmit(d)].dev = d
        /\ thr'[Xmit(d)].skb = x.skb /\ thr'[Xmit(d)].entry = x.entry
        /\ thr'[Xmit(d)].word = x.word /\ thr'[Xmit(d)].i = x.entry + 1
        /\ thr'[Xmit(Peer(d))] = thr[Xmit(Peer(d))]
    BY <1>1, <1>2, <1>7, <2>1, TwoDevices DEF NextEntry, TypeOK, ThreadStates
  <2>4. /\ own'[x.skb] = "freed"
        /\ \A v \in Skbs : own[v] = "freed" => own'[v] = "freed"
    BY <1>4, <1>7, <2>1 DEF TypeOK, Skbs
  <2>5. Completing(d)' /\ ~Idle(Xmit(d))' /\ ~Underway(d)'
    BY <2>3 DEF Completing, Idle, Underway, IsrLabels
  <2>6. RingInv(d)'
    <3>1. /\ priv'[d].tx_skbuff[x.entry] = NULL
          /\ \A i \in Slots : i # x.entry => priv'[d].tx_skbuff[i] = NULL
      BY <1>4, <2>2
    <3> QED
      BY <1>4, <2>2, <2>3, <2>4, <2>5, <3>1 DEF RingInv
  <2>7. IsrInv(d)'
    BY <1>1, <1>2, <2>3 DEF LoopbackAt, IsrInv
  <2>8. SentInv(d)'
    <3>1. sent[d] \in Seq(Skbs) /\ sent' = sent
      BY <1>1 DEF TypeOK
    <3>2. \A i \in 1..Len(sent[d])-1 : own[sent[d][i]] = "freed"
      BY DEF LoopbackAt, SentInv
    <3>3. \A i \in 1..Len(sent[d])-1 : own'[sent[d][i]] = "freed"
      BY <2>4, <3>1, <3>2
    <3>4. Len(sent[d]) > 0 /\ sent[d][Len(sent[d])] = x.skb
      BY <1>3 DEF LoopbackAt, SentInv
    <3> QED
      BY <2>3, <2>5, <3>1, <3>3, <3>4 DEF SentInv
  <2>9. SettledInv(d)'
    BY <1>1, <1>3, <2>2, <2>5 DEF LoopbackAt, SettledInv
  <2>10. LoopbackAt(Peer(d))'
    BY <1>1, <2>2, <2>3, <2>4, TwoDevices, PeerIdle, LoopbackFrame
  <2> QED
    BY <1>1, <1>7, <2>6, <2>7, <2>8, <2>9, <2>10 DEF LoopbackAt
<1> QED
  BY <1>2, <1>5, <1>6, <1>7 DEF IsrFree, Oops

(* Back to start_xmit from the peer's interrupt; out of it, with the packet *)
(* freed, from the device's own.                                           *)
LEMMA IsrExitLoop ==
  ASSUME TypeOK, loopback = 1, NEW d \in Devs, IsrExit(Xmit(d)),
         LoopbackAt(d), LoopbackAt(Peer(d)),
         ~InOpen(d, "dirty_tx"), ~InOpen(d, "tx_skbuff"),
         \A f \in Devs : /\ InOpen(f, "dirty_tx")' <=> InOpen(f, "dirty_tx")
                         /\ InOpen(f, "tx_skbuff")' <=> InOpen(f, "tx_skbuff")
  PROVE  LoopbackAt(d)' /\ LoopbackAt(Peer(d))'
<1> DEFINE p == priv[d]
           x == thr[Xmit(d)]
           e == Peer(d)
<1>1. /\ MayRun(Xmit(d)) /\ x.pc = "isr_tx"
      /\ UNCHANGED <<own, sent, rcvd>>
      /\ ~MoreToFree(Xmit(d))
      /\ priv' = [priv EXCEPT ![x.dev] = Leave(@, Xmit(d))]
  BY DEF IsrExit, At
<1>2. x.dev \in Devs /\ (x.dev = d \/ x.dev = e)
  BY TwoDevices DEF TypeOK, ThreadStates
<1>3. /\ thr'[Xmit(d)].skb = x.skb /\ thr'[Xmit(d)].entry = x.entry
      /\ thr'[Xmit(d)].pc = IF x.dev # d THEN "mark_tx" ELSE "idle"
      /\ thr'[Xmit(e)] = thr[Xmit(e)]
  BY TwoDevices DEF IsrExit, GoTo, TypeOK, ThreadStates
<1>4. ~Idle(Xmit(d)) /\ ~Underway(d) /\ ~Underway(d)'
  BY <1>1, <1>3 DEF Idle, Underway
<1>5. CASE x.dev = e
  <2>1. x.word = {RX}
    BY <1>1, <1>5, TwoDevices DEF LoopbackAt, IsrInv
  <2>2. /\ \A f \in Devs : /\ priv'[f].cur_tx = priv[f].cur_tx
                           /\ priv'[f].dirty_tx = priv[f].dirty_tx
                           /\ priv'[f].tx_skbuff = priv[f].tx_skbuff
                           /\ priv'[f].rx_dropped = priv[f].rx_dropped
    <3>1. Leave(priv[e], Xmit(d)) = [priv[e] EXCEPT !.lock = NULL]
      BY <2>1, TwoDevices DEF Leave, RX, TX, TypeOK, PrivStates
    <3>2. priv' = [priv EXCEPT ![e].lock = NULL]
      BY <1>1, <1>5, <3>1
    <3> QED
      BY <3>2, TwoDevices, OtherField, OtherCount
  <2>3. ~Completing(d) /\ ~Completing(d)' /\ ~Idle(Xmit(d))'
    BY <1>1, <1>3, <1>5, TwoDevices DEF Completing, Idle, IsrLabels
  <2>4. RingInv(d)'
    BY <1>1, <1>3, <1>4, <2>2, <2>3, SameDescriptors
  <2>5. IsrInv(d)'
    BY <1>3, <1>5, TwoDevices DEF IsrInv
  <2>6. SentInv(d)'
    BY <1>1, <1>3, <1>4, <2>3, SameSent
  <2>7. SettledInv(d)'
    BY <1>1, <1>4, <2>2, TwoDevices DEF LoopbackAt, SettledInv
  <2>8. LoopbackAt(e)'
    BY <1>1, <1>3, <2>2, TwoDevices, PeerIdle, LoopbackFrame
  <2> QED
    BY <2>4, <2>5, <2>6, <2>7, <2>8 DEF LoopbackAt
<1>6. CASE x.dev = d
  <2>1. x.word = {TX} /\ Completing(d)
    BY <1>1, <1>6 DEF LoopbackAt, IsrInv, Completing, IsrLabels
  <2>2. p.cur_tx = x.i
    BY <1>1, <1>6, <2>1 DEF MoreToFree
  <2>3. p.cur_tx \in 0..5 /\ x.entry \in Slots
    BY Fields, TwoDevices
  <2>4. /\ p.cur_tx > 0 /\ x.entry = (p.cur_tx - 1) % NUM_TX_DESC
        /\ \A i \in Slots : i # x.entry => p.tx_skbuff[i] = NULL
        /\ x.i = x.entry => p.cur_tx = x.entry
        /\ \/ x.i = x.entry
           \/ /\ x.i = x.entry + 1 /\ p.tx_skbuff[x.entry] = NULL
              /\ own[x.skb] = "freed"
    BY <1>1, <2>1, <2>2 DEF LoopbackAt, RingInv
  <2>5. p.cur_tx # x.entry
    BY <2>3, <2>4 DEF NUM_TX_DESC
  <2>6. /\ own[x.skb] = "freed"
        /\ \A i \in Slots : p.tx_skbuff[i] = NULL
    BY <2>4, <2>5
  <2>7. /\ priv'[d].cur_tx = p.cur_tx /\ priv'[d].dirty_tx = p.cur_tx
        /\ priv'[d].tx_skbuff = p.tx_skbuff
        /\ priv'[d].rx_dropped = p.rx_dropped /\ priv'[e] = priv[e]
    BY <1>1, <1>6, <2>1, <2>2, TwoDevices DEF Leave, TypeOK, PrivStates
  <2>8. ~Completing(d)' /\ Idle(Xmit(d))' /\ thr'[Xmit(d)].pc = "idle"
    BY <1>3, <1>6 DEF Completing, Idle, IsrLabels
  <2>9. RingInv(d)'
    BY <2>6, <2>7, <2>8 DEF RingInv
  <2>10. IsrInv(d)'
    BY <2>8 DEF IsrInv
  <2>11. SentInv(d)'
    BY <1>1, <1>4, <2>6, <2>8 DEF LoopbackAt, SentInv
  <2>12. SettledInv(d)'
    BY <1>1, <1>4, <2>7 DEF LoopbackAt, SettledInv
  <2>13. LoopbackAt(e)'
    BY <1>1, <1>3, <2>7, TwoDevices, PeerIdle, LoopbackFrame
  <2> QED
    BY <2>9, <2>10, <2>11, <2>12, <2>13 DEF LoopbackAt
<1> QED
  BY <1>2, <1>5, <1>6

-----------------------------------------------------------------------------
(* All together.                                                           *)

LEMMA InitHolds == ASSUME Init PROVE IInv
<1>1. TypeOK
  <2>1. dev \in [Devs -> DevStates]
    BY DEF Init, DevStates
  <2>2. priv \in [Devs -> PrivStates]
    BY Sizes DEF Init, PrivStates, NoSkbs, NoRing
  <2>3. thr \in [Threads -> ThreadStates]
    BY DEF Init, ThreadStates, Threads, Labels, Slots, NUM_TX_DESC
  <2>4. count \in [opens : 0..MaxOpens, irqs : 0..MaxIrqs]
    BY BoundAssumption DEF Init
  <2>5. sent \in [Devs -> Seq(Skbs)] /\ rcvd \in [Devs -> Seq(Skbs \cup {Junk})]
    BY DEF Init
  <2> QED
    <3>1. opening \in [dev : Devs, pc : OpenLabels]
      BY ModeAssumption DEF Init, OpenLabels, Devs
    <3>2. own \in [Skbs -> {"stack", "driver", "freed"}] /\ fault = "none"
      BY DEF Init
    <3> QED
      BY <2>1, <2>2, <2>3, <2>4, <2>5, <3>1, <3>2 DEF TypeOK
<1>2. \A d \in Devs : thr[Xmit(d)].pc = "idle" /\ thr[Irq(d)].pc = "idle"
  BY ThreadsAre DEF Init
<1>3. ThreadsInv
  BY <1>2, ThreadsAre DEF Init, ThreadsInv, Idle, Irq
<1>4. HardwareInv
  <2> SUFFICES ASSUME loopback = 0, NEW d \in Devs PROVE DeviceInv(d)
    BY DEF HardwareInv
  <2>0. \A l \in OpenLabels \ {"none"} : ~InOpen(d, l)
    BY DEF Init, InOpen
  <2>1. /\ priv[d].cur_tx = 0 /\ priv[d].dirty_tx = 0
        /\ priv[d].tx_full = FALSE /\ ~dev[d].up
    BY DEF Init
  <2>2. First(d) = 0 /\ InUse(d) = 0 /\ Pending(d) = {}
    BY <1>2, <2>1 DEF First, InUse, Pending
  <2>3. HardwareAt(d)
    BY <1>2, <2>1, <2>2, Sizes
    DEF HardwareAt, WindowInv, PendingInv, PostInv, FullInv
  <2>4. RestInv(d) /\ ShortInv
    BY DEF Init, RestInv, ShortInv, NoSkbs, Skbs
  <2> QED
    BY <2>0, <2>1, <2>3, <2>4 DEF DeviceInv, OpenLabels
<1>5. LoopbackInv
  <2> SUFFICES ASSUME loopback = 1, NEW d \in Devs PROVE LoopbackAt(d)
    BY DEF LoopbackInv
  <2>1. Idle(Xmit(d)) /\ ~Completing(d) /\ ~Underway(d)
    BY <1>2 DEF Idle, Completing, Underway, IsrLabels
  <2>2. RingInv(d)
    BY <2>1 DEF Init, RingInv, NoSkbs, InOpen
  <2>3. IsrInv(d)
    BY <1>2 DEF IsrInv
  <2>4. SentInv(d) /\ SettledInv(d)
    BY <2>1, TwoDevices DEF Init, SentInv, SettledInv
  <2> QED
    BY <2>2, <2>3, <2>4 DEF LoopbackAt
<1>6. OpeningInv /\ NullInv /\ NoDoubleFree
  BY DEF Init, OpeningInv, NullInv, NoDoubleFree
<1> QED
  BY <1>1, <1>3, <1>4, <1>5, <1>6 DEF IInv

(* The mode is fixed.                                                      *)
-----------------------------------------------------------------------------
(* Each action keeps the invariant.                                        *)

LEMMA HardwareOnly ==
  ASSUME loopback = 0, \A d \in Devs : DeviceInv(d)'
  PROVE  HardwareInv' /\ LoopbackInv'
BY DEF HardwareInv, LoopbackInv

LEMMA LoopbackOnly ==
  ASSUME loopback = 1, \A d \in Devs : LoopbackAt(d)'
  PROVE  HardwareInv' /\ LoopbackInv'
BY DEF HardwareInv, LoopbackInv

(* While a handler runs, open is where it was.                             *)
LEMMA SameOpening ==
  ASSUME UNCHANGED opening
  PROVE  \A d \in Devs, l \in OpenLabels : InOpen(d, l)' <=> InOpen(d, l)
BY DEF InOpen

(* An interface that is up, or transmits, is not being opened.             *)
LEMMA NotOpening ==
  ASSUME OpeningInv, NEW d \in Devs, dev[d].up \/ ~Idle(Xmit(d))
  PROVE  \A l \in OpenLabels \ {"none"} : ~InOpen(d, l)
BY DEF OpeningInv, InOpen

(* Only open and release change IFF_UP.                                    *)
LEMMA SameUp ==
  ASSUME dev \in [Devs -> DevStates], NEW d \in Devs, NEW b,
         dev' = dev \/ dev' = [dev EXCEPT ![d].tbusy = b]
  PROVE  \A e \in Devs : dev'[e].up = dev[e].up
BY DEF DevStates

LEMMA OpeningFrame ==
  ASSUME TypeOK, OpeningInv, UNCHANGED opening,
         \A e \in Devs : dev'[e].up = dev[e].up,
         \A e \in Devs : InOpen(e, opening.pc) /\ Idle(Xmit(e)) => Idle(Xmit(e))'
  PROVE  OpeningInv'
BY DEF TypeOK, OpeningInv, InOpen

(* Only the interrupt routine frees.                                       *)
LEMMA NoCrash ==
  ASSUME fault' \notin {"null_skb", "double_free"}
  PROVE  NullInv' /\ NoDoubleFree'
BY DEF NullInv, NoDoubleFree

(* A device that is not being opened.                                      *)
LEMMA RunningDevice ==
  ASSUME IInv, loopback = 0, NEW d \in Devs,
         \A l \in OpenLabels \ {"none"} : ~InOpen(d, l)
  PROVE  TypeOK /\ HardwareAt(d) /\ ShortInv /\ RestInv(d)
<1>1. "dirty_tx" \in OpenLabels \ {"none"} /\ "tx_skbuff" \in OpenLabels \ {"none"}
  BY DEF OpenLabels
<1> QED
  BY <1>1 DEF IInv, HardwareInv, DeviceInv

LEMMA StillRunning ==
  ASSUME loopback = 0, NEW d \in Devs, UNCHANGED opening,
         \A l \in OpenLabels \ {"none"} : ~InOpen(d, l),
         HardwareAt(d)', RestInv(d)', ShortInv'
  PROVE  DeviceInv(d)'
<1>1. ~InOpen(d, "dirty_tx")' /\ ~InOpen(d, "tx_skbuff")' /\ ~InOpen(d, "start")'
  BY SameOpening DEF OpenLabels
<1> QED
  BY <1>1 DEF DeviceInv

(* Nothing a device depends on has changed.                                *)
LEMMA HardwareSame ==
  ASSUME loopback = 0, UNCHANGED <<priv, thr, own>>, NEW e \in Devs,
         DeviceInv(e),
         dev'[e].up /\ ~dev'[e].tbusy => dev[e].up /\ ~dev[e].tbusy,
         \/ UNCHANGED opening
         \/ opening.pc = "none" /\ opening'.pc = "buf_len"
  PROVE  DeviceInv(e)'
<1>1. \A l \in {"cur_tx", "dirty_tx", "tx_skbuff", "start"} :
        InOpen(e, l)' <=> InOpen(e, l)
  BY DEF InOpen
<1>2. First(e)' = First(e)
  BY DEF First
<1>3. CASE InOpen(e, "dirty_tx")
  <2>1. ResetAt(e)
    BY <1>3 DEF DeviceInv
  <2>2. thr[Irq(e)].pc = "isr_tx" /\
          (TX \notin thr[Irq(e)].word \/ priv[e].dirty_tx = 0) =>
            thr[Irq(e)].i = priv[e].dirty_tx
    BY <2>1 DEF ResetAt
  <2>3. ResetAt(e)'
    BY <1>2, <2>1, <2>2, ResetFrame
  <2> QED
    BY <1>1, <1>3, <2>3 DEF DeviceInv
<1>4. CASE ~InOpen(e, "dirty_tx")
  <2>1. HardwareAt(e) /\ ShortInv
    BY <1>4 DEF DeviceInv
  <2>2. thr[Irq(e)].pc = "isr_tx" /\ TX \notin thr[Irq(e)].word =>
          thr[Irq(e)].i = priv[e].dirty_tx
    BY <2>1 DEF HardwareAt, WindowInv
  <2>3. HardwareAt(e)'
    BY <1>1, <1>2, <2>1, <2>2, HardwareFrame
  <2>4. ShortInv'
    BY <2>1 DEF ShortInv
  <2>5. RestInv(e) => RestInv(e)'
    BY RestFrame
  <2> QED
    BY <1>1, <1>4, <2>3, <2>4, <2>5 DEF DeviceInv
<1> QED
  BY <1>3, <1>4

LEMMA LoopbackSame ==
  ASSUME UNCHANGED <<priv, thr, own, sent, rcvd>>, NEW e \in Devs, LoopbackAt(e),
         \/ UNCHANGED opening
         \/ opening.pc = "none" /\ opening'.pc = "buf_len"
  PROVE  LoopbackAt(e)'
<1>1. RingInv(e)'
  <2>1. /\ InOpen(e, "dirty_tx")' <=> InOpen(e, "dirty_tx")
        /\ InOpen(e, "tx_skbuff")' <=> InOpen(e, "tx_skbuff")
    BY DEF InOpen
  <2> QED
    BY <2>1 DEF LoopbackAt, RingInv, Completing, Idle
<1>2. IsrInv(e)'
  BY DEF LoopbackAt, IsrInv
<1>3. SentInv(e)'
  BY DEF LoopbackAt, SentInv, Idle
<1>4. SettledInv(e)'
  BY DEF LoopbackAt, SettledInv, Underway
<1> QED
  BY <1>1, <1>2, <1>3, <1>4 DEF LoopbackAt

(* A step that leaves the rings, the threads and the packets as they are.  *)
LEMMA InterfaceSame ==
  ASSUME IInv, UNCHANGED <<priv, thr, own, sent, rcvd>>,
         \A e \in Devs : dev'[e].up /\ ~dev'[e].tbusy => dev[e].up /\ ~dev[e].tbusy,
         \/ UNCHANGED opening
         \/ opening.pc = "none" /\ opening'.pc = "buf_len"
  PROVE  ThreadsInv' /\ HardwareInv' /\ LoopbackInv'
<1>1. ThreadsInv'
  BY DEF IInv, ThreadsInv, Idle, XmitLabels, IrqLabels
<1>2. HardwareInv'
  BY HardwareSame DEF IInv, HardwareInv
<1>3. LoopbackInv'
  BY LoopbackSame DEF IInv, LoopbackInv
<1> QED
  BY <1>1, <1>2, <1>3

LEMMA OpenRequestIrqKeeps ==
  ASSUME IInv, NEW d \in Devs, OpenRequestIrq(d) PROVE IInv'
<1>1. /\ UNCHANGED <<priv, thr, own, sent, rcvd, fault>>
      /\ opening.pc = "none" /\ opening' = [dev |-> d, pc |-> "buf_len"]
      /\ ~dev[d].up /\ ProcessMayRun
  BY DEF OpenRequestIrq
<1>2. TypeOK'
  BY OpenRequestIrqTyped DEF IInv
<1>3. \A e \in Devs : dev'[e].up = dev[e].up /\ dev'[e].tbusy = dev[e].tbusy
  BY DEF OpenRequestIrq, IInv, TypeOK, DevStates
<1>4. ThreadsInv' /\ HardwareInv' /\ LoopbackInv'
  BY <1>1, <1>3, InterfaceSame
<1>5. OpeningInv'
  BY <1>1, <1>3, ProcessAlone DEF OpeningInv, Idle
<1> QED
  BY <1>1, <1>2, <1>4, <1>5, ProcessAlone, NoCrash DEF IInv

LEMMA ReleaseKeeps ==
  ASSUME IInv, NEW d \in Devs, Release(d) PROVE IInv'
<1>1. UNCHANGED <<priv, thr, own, sent, rcvd, opening, fault>>
  BY DEF Release
<1>2. TypeOK'
  BY ReleaseTyped DEF IInv
<1>3. \A e \in Devs : dev'[e].up /\ ~dev'[e].tbusy => dev[e].up /\ ~dev[e].tbusy
  BY DEF Release, IInv, TypeOK, DevStates
<1>4. ThreadsInv' /\ HardwareInv' /\ LoopbackInv'
  BY <1>1, <1>3, InterfaceSame
<1>5. OpeningInv' /\ ProcessMayRun
  BY <1>1 DEF Release, OpeningInv
<1> QED
  BY <1>1, <1>2, <1>4, <1>5, ProcessAlone, NoCrash DEF IInv

(* The lines of open after request_irq.                                    *)
LEMMA OpenSetsOpening ==
  ASSUME IInv, NEW d \in Devs,
         \/ SetBufLen(d) \/ AllocRing(d) \/ ClearFull(d) \/ ClearCurTx(d)
         \/ ClearDirtyTx(d) \/ ClearSkbuffs(d) \/ StartQueue(d)
  PROVE  OpeningInv' /\ ProcessMayRun
<1>1. PICK k \in OpenLabels \ {"none"}, l \in OpenLabels :
        /\ Opening(d, k) /\ OpenAt(l)
        /\ UNCHANGED dev \/ l = "none"
  BY DEF SetBufLen, AllocRing, ClearFull, ClearCurTx, ClearDirtyTx,
         ClearSkbuffs, StartQueue, OpenLabels
<1>2. UNCHANGED thr
  BY OpenSets DEF IInv
<1>3. opening = [dev |-> d, pc |-> k] /\ opening' = [dev |-> d, pc |-> l]
  BY <1>1, OpenMoves
<1> QED
  BY <1>1, <1>2, <1>3 DEF IInv, OpeningInv, Idle, Opening

LEMMA OpenSetsDevice ==
  ASSUME IInv, loopback = 0, NEW d \in Devs,
         \/ SetBufLen(d) \/ AllocRing(d) \/ ClearFull(d) \/ ClearCurTx(d)
         \/ ClearDirtyTx(d) \/ ClearSkbuffs(d) \/ StartQueue(d)
  PROVE  DeviceInv(d)'
<1>1. TypeOK /\ DeviceInv(d)
  BY DEF IInv, HardwareInv
<1>2. UNCHANGED own
  BY <1>1, OpenSets
<1>3. CASE SetBufLen(d) \/ AllocRing(d)
  <2>1. PICK k \in {"buf_len", "alloc"}, l \in {"alloc", "full", "none"} :
          Opening(d, k) /\ OpenAt(l)
    BY <1>3 DEF SetBufLen, AllocRing
  <2>2. \A m \in {"dirty_tx", "tx_skbuff", "start"} :
          ~InOpen(d, m) /\ ~InOpen(d, m)'
    BY <2>1, OpenMoves DEF OpenLabels
  <2>3. HardwareAt(d) /\ RestInv(d) /\ ShortInv
    BY <1>1, <2>2 DEF DeviceInv
  <2>4. HardwareAt(d)' /\ RestInv(d)'
    BY <1>1, <1>3, <2>3, RingSetHw
  <2>5. ShortInv'
    BY <1>2, <2>3 DEF ShortInv
  <2> QED
    BY <2>2, <2>4, <2>5 DEF DeviceInv
<1>4. CASE ClearFull(d)
  <2>1. Opening(d, "full") /\ OpenAt("cur_tx")
    BY <1>4 DEF ClearFull
  <2>2. \A m \in {"dirty_tx", "tx_skbuff", "start"} :
          ~InOpen(d, m) /\ ~InOpen(d, m)'
    BY <2>1, OpenMoves DEF OpenLabels
  <2>3. HardwareAt(d) /\ RestInv(d) /\ ShortInv
    BY <1>1, <2>2 DEF DeviceInv
  <2>4. HardwareAt(d)' /\ RestInv(d)'
    BY <1>1, <1>4, <2>3, ClearFullHw
  <2>5. ShortInv'
    BY <1>2, <2>3 DEF ShortInv
  <2> QED
    BY <2>2, <2>4, <2>5 DEF DeviceInv
<1>5. CASE ClearCurTx(d)
  <2>1. Opening(d, "cur_tx") /\ OpenAt("dirty_tx")
    BY <1>5 DEF ClearCurTx
  <2>2. ~InOpen(d, "dirty_tx") /\ ~InOpen(d, "tx_skbuff") /\ InOpen(d, "dirty_tx")'
    BY <2>1, OpenMoves DEF OpenLabels
  <2>3. HardwareAt(d) /\ RestInv(d) /\ ShortInv
    BY <1>1, <2>2 DEF DeviceInv
  <2>4. ResetAt(d)'
    BY <1>1, <1>5, <2>3, ClearCurTxHw
  <2> QED
    BY <2>2, <2>4 DEF DeviceInv
<1>6. CASE ClearDirtyTx(d)
  <2>1. Opening(d, "dirty_tx") /\ OpenAt("tx_skbuff")
    BY <1>6 DEF ClearDirtyTx
  <2>2. InOpen(d, "dirty_tx") /\ ~InOpen(d, "dirty_tx")' /\ InOpen(d, "tx_skbuff")'
    BY <2>1, OpenMoves DEF OpenLabels
  <2>3. ResetAt(d)
    BY <1>1, <2>2 DEF DeviceInv
  <2>4. HardwareAt(d)' /\ ShortInv' /\ priv'[d].cur_tx = 0
    BY <1>1, <1>6, <2>3, ClearDirtyTxHw
  <2> QED
    BY <2>2, <2>4 DEF DeviceInv
<1>7. CASE ClearSkbuffs(d)
  <2>1. Opening(d, "tx_skbuff") /\ OpenAt("start")
    BY <1>7 DEF ClearSkbuffs
  <2>2. ~InOpen(d, "dirty_tx") /\ InOpen(d, "tx_skbuff") /\ ~InOpen(d, "dirty_tx")'
    BY <2>1, OpenMoves DEF OpenLabels
  <2>3. HardwareAt(d) /\ ShortInv /\ priv[d].cur_tx = 0
    BY <1>1, <2>2 DEF DeviceInv
  <2>4. HardwareAt(d)' /\ RestInv(d)' /\ priv'[d].cur_tx = 0
    BY <1>1, <1>7, <2>3, ClearSkbuffsHw
  <2>5. ShortInv'
    BY <1>2, <2>3 DEF ShortInv
  <2> QED
    BY <2>2, <2>4, <2>5 DEF DeviceInv
<1>8. CASE StartQueue(d)
  <2>1. Opening(d, "start") /\ OpenAt("none")
    BY <1>8 DEF StartQueue
  <2>2. /\ InOpen(d, "start")
        /\ \A m \in {"dirty_tx", "tx_skbuff"} : ~InOpen(d, m) /\ ~InOpen(d, m)'
        /\ ~InOpen(d, "start")'
    BY <2>1, OpenMoves DEF OpenLabels
  <2>3. HardwareAt(d) /\ RestInv(d) /\ ShortInv /\ priv[d].cur_tx = 0
    BY <1>1, <2>2 DEF DeviceInv
  <2>4. HardwareAt(d)' /\ RestInv(d)'
    BY <1>1, <1>8, <2>3, StartQueueHw
  <2>5. ShortInv'
    BY <1>2, <2>3 DEF ShortInv
  <2> QED
    BY <2>2, <2>4, <2>5 DEF DeviceInv
<1> QED
  BY <1>3, <1>4, <1>5, <1>6, <1>7, <1>8

LEMMA OpenSetsKeeps ==
  ASSUME IInv, NEW d \in Devs,
         \/ SetBufLen(d) \/ AllocRing(d) \/ ClearFull(d) \/ ClearCurTx(d)
         \/ ClearDirtyTx(d) \/ ClearSkbuffs(d) \/ StartQueue(d)
  PROVE  IInv'
<1>1. TypeOK
  BY DEF IInv
<1>2. TypeOK' /\ UNCHANGED <<thr, fault>>
  BY <1>1, OpenSets, OpenSetsTyped
<1>3. ThreadsInv'
  BY <1>2 DEF IInv, ThreadsInv, Idle, XmitLabels, IrqLabels
<1>4. OpeningInv' /\ ProcessMayRun
  BY OpenSetsOpening
<1>5. HardwareInv' /\ LoopbackInv'
  <2>1. CASE loopback = 0
    <3>1. DeviceInv(d)'
      BY <2>1, OpenSetsDevice
    <3> QED
      BY <2>1, <3>1, OneDevice, HardwareOnly
  <2>2. CASE loopback = 1
    <3>1. \A e \in Devs : LoopbackAt(e)
      BY <2>2 DEF IInv, LoopbackInv
    <3>2. \A e \in Devs : LoopbackAt(e)'
      BY <1>1, <2>2, <3>1, OpenSetsLoop
    <3> QED
      BY <2>2, <3>2, LoopbackOnly
  <2> QED
    BY <2>1, <2>2, ModeAssumption
<1> QED
  BY <1>2, <1>3, <1>4, <1>5, ProcessAlone, NoCrash DEF IInv

LEMMA StartXmitKeeps ==
  ASSUME IInv, NEW d \in Devs, NEW s \in Skbs, StartXmit(d, s) PROVE IInv'
<1>1. TypeOK'
  BY StartXmitTyped DEF IInv
<1>2. ThreadsInv'
  BY <1>1, StartXmitThreads DEF IInv, TypeOK
<1>3. UNCHANGED <<opening, fault>> /\ dev[d].up /\ fault = "none"
  BY DEF StartXmit, At, MayRun
<1>4. \A l \in OpenLabels \ {"none"} : ~InOpen(d, l)
  BY <1>3, NotOpening DEF IInv
<1>5. OpeningInv'
  <2>1. \A e \in Devs : dev'[e].up = dev[e].up
    <3>1. dev \in [Devs -> DevStates]
      BY DEF IInv, TypeOK
    <3> QED
      BY <3>1, SameUp DEF StartXmit
  <2>2. \A e \in Devs \ {d} : Idle(Xmit(e)) => Idle(Xmit(e))'
    BY ThreadsAre DEF StartXmit, Idle, IInv, TypeOK, Xmit
  <2>3. opening.pc \in OpenLabels /\ opening.dev \in Devs
    BY DEF IInv, TypeOK
  <2>4. CASE opening.pc = "none"
    BY <1>3, <2>4 DEF OpeningInv
  <2>5. CASE opening.pc # "none"
    <3>1. ~InOpen(d, opening.pc)
      BY <1>4, <2>3, <2>5
    <3> QED
      BY <1>3, <2>1, <2>2, <3>1, OpeningFrame DEF IInv
  <2> QED
    BY <2>4, <2>5
<1>6. HardwareInv' /\ LoopbackInv'
  <2>1. CASE loopback = 0
    <3>1. TypeOK /\ HardwareAt(d) /\ ShortInv /\ RestInv(d)
      BY <1>4, <2>1, RunningDevice
    <3>2. InOpen(d, "cur_tx")' <=> InOpen(d, "cur_tx")
      BY <1>3, SameOpening DEF OpenLabels
    <3>3. HardwareAt(d)'
      BY <2>1, <3>1, <3>2, StartXmitHw
    <3>4. RestInv(d)' /\ ShortInv'
      BY <2>1, <3>1, StartXmitRest
    <3>5. DeviceInv(d)'
      BY <1>3, <1>4, <2>1, <3>3, <3>4, StillRunning
    <3> QED
      BY <2>1, <3>5, OneDevice, HardwareOnly
  <2>2. CASE loopback = 1
    <3>1. TypeOK /\ LoopbackAt(d) /\ LoopbackAt(Peer(d))
      BY <2>2, TwoDevices DEF IInv, LoopbackInv
    <3>2. ~InOpen(d, "dirty_tx") /\ ~InOpen(d, "tx_skbuff")
      BY <1>4 DEF OpenLabels
    <3>3. \A f \in Devs : /\ InOpen(f, "dirty_tx")' <=> InOpen(f, "dirty_tx")
                          /\ InOpen(f, "tx_skbuff")' <=> InOpen(f, "tx_skbuff")
      BY <1>3, SameOpening DEF OpenLabels
    <3>4. LoopbackAt(d)' /\ LoopbackAt(Peer(d))'
      BY <2>2, <3>1, <3>2, <3>3, StartXmitLoop
    <3> QED
      BY <2>2, <3>4, TwoDevices, LoopbackOnly
  <2> QED
    BY <2>1, <2>2, ModeAssumption
<1> QED
  BY <1>1, <1>2, <1>3, <1>5, <1>6, NoCrash DEF IInv

LEMMA XmitStepOpening ==
  ASSUME IInv, NEW d \in Devs, XmitStep(d)
  PROVE  /\ UNCHANGED opening /\ OpeningInv'
         /\ \A l \in OpenLabels \ {"none"} : ~InOpen(d, l)
<1>1. UNCHANGED opening /\ ~Idle(Xmit(d))
  BY DEF XmitStep, MarkRx, CopyToRing, MarkTx, Post, Program, CheckFull,
         SetFull, Recheck, StopQueue, At, Idle
<1>2. \A l \in OpenLabels \ {"none"} : ~InOpen(d, l)
  BY <1>1, NotOpening DEF IInv
<1>3. \A e \in Devs : dev'[e].up = dev[e].up
  <2>1. dev \in [Devs -> DevStates]
    BY DEF IInv, TypeOK
  <2> QED
    BY <2>1, SameUp
    DEF XmitStep, MarkRx, CopyToRing, MarkTx, Post, Program, CheckFull,
        SetFull, Recheck, StopQueue
<1>4. \A e \in Devs \ {d} : thr'[Xmit(e)] = thr[Xmit(e)]
  <2> SUFFICES ASSUME NEW e \in Devs \ {d} PROVE thr'[Xmit(e)] = thr[Xmit(e)]
    OBVIOUS
  <2>1. Xmit(e) # Xmit(d) /\ Xmit(e) \in Threads
    BY ThreadsAre DEF Xmit
  <2>2. thr \in [Threads -> ThreadStates]
    BY DEF IInv, TypeOK
  <2> QED
    BY <2>1, <2>2
    DEF XmitStep, MarkRx, CopyToRing, MarkTx, Post, Program, CheckFull,
        SetFull, Recheck, StopQueue, GoTo, GiveUp
<1>5. opening.pc \in OpenLabels /\ opening.dev \in Devs
  BY DEF IInv, TypeOK
<1>6. CASE opening.pc = "none"
  BY <1>1, <1>2, <1>6 DEF OpeningInv
<1>7. CASE opening.pc # "none"
  <2>1. ~InOpen(d, opening.pc)
    BY <1>2, <1>5, <1>7
  <2>2. \A e \in Devs \ {d} : Idle(Xmit(e)) => Idle(Xmit(e))'
    BY <1>4 DEF Idle
  <2>3. OpeningInv'
    BY <1>1, <1>3, <2>1, <2>2, OpeningFrame DEF IInv
  <2> QED
    BY <1>1, <1>2, <2>3
<1> QED
  BY <1>6, <1>7

LEMMA XmitStepKeeps ==
  ASSUME IInv, NEW d \in Devs, XmitStep(d) PROVE IInv'
<1>1. thr[Xmit(d)].pc \in {"idle"} \cup XmitLabels
  BY DEF IInv, ThreadsInv
<1>2. /\ UNCHANGED opening /\ OpeningInv'
      /\ \A l \in OpenLabels \ {"none"} : ~InOpen(d, l)
  BY XmitStepOpening
<1>3. TypeOK' /\ HardwareInv' /\ LoopbackInv'
  <2>1. CASE loopback = 0
    <3>1. TypeOK /\ HardwareAt(d) /\ ShortInv /\ RestInv(d)
      BY <1>2, <2>1, RunningDevice
    <3>2. /\ InOpen(d, "cur_tx")' <=> InOpen(d, "cur_tx")
          /\ ~InOpen(d, "cur_tx")
      BY <1>2, SameOpening DEF OpenLabels
    <3>3. TypeOK' /\ HardwareAt(d)'
      <4>1. CASE Post(d)
        <5>1. InUse(d) < NUM_TX_DESC
          BY <3>1, <4>1 DEF Post, At, HardwareAt, PostInv
        <5>2. priv[d].cur_tx < MaxCurTx
          BY <2>1, <3>1, <5>1, Fields, OneDevice DEF InUse, NUM_TX_DESC
        <5> QED
          BY <2>1, <3>1, <3>2, <4>1, <5>2, PostTyped, PostHw
      <4>2. CASE Program(d)
        BY <2>1, <3>1, <3>2, <4>2, ProgramTyped, ProgramHw
      <4>3. CASE CheckFull(d)
        BY <2>1, <3>1, <3>2, <4>3, CheckFullTyped, CheckFullHw
      <4>4. CASE SetFull(d)
        BY <2>1, <3>1, <3>2, <4>4, SetFullTyped, SetFullHw
      <4>5. CASE Recheck(d)
        BY <2>1, <3>1, <3>2, <4>5, RecheckTyped, RecheckHw
      <4>6. CASE StopQueue(d)
        BY <2>1, <3>1, <3>2, <4>6, StopQueueTyped, StopQueueHw
      <4>7. CASE MarkRx(d) \/ CopyToRing(d) \/ MarkTx(d)
        BY <1>1, <2>1, <4>7 DEF MarkRx, CopyToRing, MarkTx, At, XmitLabels
      <4> QED
        BY <4>1, <4>2, <4>3, <4>4, <4>5, <4>6, <4>7 DEF XmitStep
    <3>4. RestInv(d)'
      <4>1. CASE Post(d)
        BY <2>1, <3>1, <4>1, PostRest
      <4>2. CASE Program(d)
        BY <2>1, <3>1, <4>2, ProgramRest
      <4>3. CASE CheckFull(d) \/ SetFull(d) \/ Recheck(d) \/ StopQueue(d)
        <5>1. thr[Xmit(d)].pc # "post"
          BY <4>3 DEF CheckFull, SetFull, Recheck, StopQueue, At
        <5>2. /\ priv'[d].cur_tx = priv[d].cur_tx
              /\ priv'[d].tx_skbuff = priv[d].tx_skbuff
          BY <3>1, <4>3
          DEF CheckFull, SetFull, Recheck, StopQueue, TypeOK, PrivStates
        <5> QED
          BY <3>1, <5>1, <5>2, RestFrame
      <4>4. CASE MarkRx(d) \/ CopyToRing(d) \/ MarkTx(d)
        BY <1>1, <2>1, <4>4 DEF MarkRx, CopyToRing, MarkTx, At, XmitLabels
      <4> QED
        BY <4>1, <4>2, <4>3, <4>4 DEF XmitStep
    <3>5. ShortInv'
      <4>1. UNCHANGED own
        BY DEF XmitStep, MarkRx, CopyToRing, MarkTx, Post, Program, CheckFull,
               SetFull, Recheck, StopQueue
      <4> QED
        BY <3>1, <4>1 DEF ShortInv
    <3>6. DeviceInv(d)'
      BY <1>2, <2>1, <3>3, <3>4, <3>5, StillRunning
    <3> QED
      BY <2>1, <3>3, <3>6, OneDevice, HardwareOnly
  <2>2. CASE loopback = 1
    <3>1. TypeOK /\ LoopbackAt(d) /\ LoopbackAt(Peer(d))
      BY <2>2, TwoDevices DEF IInv, LoopbackInv
    <3>2. ~InOpen(d, "dirty_tx") /\ ~InOpen(d, "tx_skbuff")
      BY <1>2 DEF OpenLabels
    <3>3. \A f \in Devs : /\ InOpen(f, "dirty_tx")' <=> InOpen(f, "dirty_tx")
                          /\ InOpen(f, "tx_skbuff")' <=> InOpen(f, "tx_skbuff")
      BY <1>2, SameOpening DEF OpenLabels
    <3>4. TypeOK' /\ LoopbackAt(d)' /\ LoopbackAt(Peer(d))'
      <4>1. CASE MarkRx(d)
        BY <2>2, <3>1, <3>2, <3>3, <4>1, MarkRxTyped, MarkRxLoop
      <4>2. CASE CopyToRing(d)
        <5>1. thr[Xmit(d)].skb \in Skbs
          BY <3>1, <4>2
          DEF CopyToRing, At, LoopbackAt, RingInv, Idle, Skbs
        <5> QED
          BY <2>2, <3>1, <3>2, <3>3, <4>2, <5>1, TwoDevices, CopyToRingTyped,
             CopyToRingLoop
      <4>3. CASE MarkTx(d)
        <5>1. ~Completing(d)
          BY <4>3 DEF MarkTx, At, Completing, IsrLabels
        <5>2. priv[d].dirty_tx = priv[d].cur_tx
          BY <3>1, <3>2, <5>1 DEF LoopbackAt, RingInv
        <5>3. priv[d].cur_tx < MaxCurTx
          BY <2>2, <3>1, <5>2, Fields, TwoDevices
        <5> QED
          BY <2>2, <3>1, <3>2, <3>3, <4>3, <5>3, MarkTxTyped, MarkTxLoop
      <4>4. CASE \/ Post(d) \/ Program(d) \/ CheckFull(d) \/ SetFull(d)
                 \/ Recheck(d) \/ StopQueue(d)
        BY <1>1, <2>2, <4>4
        DEF Post, Program, CheckFull, SetFull, Recheck, StopQueue, At,
            XmitLabels, IsrLabels
      <4> QED
        BY <4>1, <4>2, <4>3, <4>4 DEF XmitStep
    <3> QED
      BY <2>2, <3>4, TwoDevices, LoopbackOnly
  <2> QED
    BY <2>1, <2>2, ModeAssumption
<1>4. ThreadsInv'
  BY <1>3, XmitStepThreads DEF IInv, TypeOK
<1>5. fault' \notin {"null_skb", "double_free"}
  <2>1. fault = "none"
    BY DEF XmitStep, MarkRx, CopyToRing, MarkTx, Post, Program, CheckFull,
           SetFull, Recheck, StopQueue, At, MayRun
  <2>2. fault' = fault \/ fault' \in NoRing
    BY DEF XmitStep, MarkRx, CopyToRing, MarkTx, Post, Program, CheckFull,
           SetFull, Recheck, StopQueue, Oops
  <2> QED
    BY <2>1, <2>2 DEF NoRing
<1> QED
  BY <1>2, <1>3, <1>4, <1>5, NoCrash DEF IInv

(* An interrupt may come between any two lines of open.                    *)
LEMMA IrqOpening ==
  ASSUME IInv, NEW d \in Devs, loopback = 0,
         RaiseIrq(d) \/ IsrStep(Irq(d))
  PROVE  UNCHANGED opening /\ OpeningInv'
<1>1. UNCHANGED opening
  BY DEF RaiseIrq, IsrStep, IsrLock, IsrRx, IsrFree, IsrExit
<1>2. \A e \in Devs : dev'[e].up = dev[e].up
  <2>1. dev \in [Devs -> DevStates] /\ thr[Irq(d)].dev \in Devs
    BY ThreadsAre DEF IInv, TypeOK, ThreadStates
  <2> QED
    BY <2>1, SameUp DEF RaiseIrq, IsrStep, IsrLock, IsrRx, IsrFree, IsrExit
<1>3. thr'[Xmit(d)] = thr[Xmit(d)]
  <2>1. Xmit(d) # Irq(d) /\ Xmit(d) \in Threads /\ thr \in [Threads -> ThreadStates]
    BY OneDevice, ThreadsAre DEF IInv, TypeOK
  <2> QED
    BY <2>1
    DEF RaiseIrq, IsrStep, IsrLock, IsrRx, IsrFree, IsrExit, GoTo
<1>4. \A e \in Devs : Idle(Xmit(e)) => Idle(Xmit(e))'
  BY <1>3, OneDevice DEF Idle
<1> QED
  BY <1>1, <1>2, <1>4, OpeningFrame DEF IInv

(* An interrupt that does not free leaves the descriptors alone.           *)
LEMMA IrqBeginsDevice ==
  ASSUME IInv, NEW d \in Devs, loopback = 0, thr[Irq(d)].dev = d,
         RaiseIrq(d) \/ IsrLock(Irq(d)) \/ IsrRx(Irq(d))
  PROVE  DeviceInv(d)'
<1>1. TypeOK /\ DeviceInv(d)
  BY DEF IInv, HardwareInv
<1>2. UNCHANGED opening
  BY IrqOpening DEF IsrStep
<1>3. \A l \in {"cur_tx", "dirty_tx", "tx_skbuff", "start"} :
        InOpen(d, l)' <=> InOpen(d, l)
  BY <1>2, SameOpening DEF OpenLabels
<1>4. /\ UNCHANGED own /\ thr'[Xmit(d)] = thr[Xmit(d)]
      /\ priv'[d].cur_tx = priv[d].cur_tx
      /\ priv'[d].dirty_tx = priv[d].dirty_tx
      /\ priv'[d].tx_skbuff = priv[d].tx_skbuff
      /\ priv'[d].tx_full = priv[d].tx_full
      /\ First(d)' = First(d)
      /\ thr'[Irq(d)].pc = "isr_tx" => thr'[Irq(d)].i = priv[d].dirty_tx
  BY <1>1, IsrBegins
<1>5. CASE InOpen(d, "dirty_tx")
  <2>1. ResetAt(d)'
    BY <1>1, <1>4, <1>5, ResetFrame DEF DeviceInv
  <2> QED
    BY <1>3, <1>5, <2>1 DEF DeviceInv
<1>6. CASE ~InOpen(d, "dirty_tx")
  <2>1. HardwareAt(d) /\ ShortInv
    BY <1>1, <1>6 DEF DeviceInv
  <2>2. InOpen(d, "cur_tx")' <=> InOpen(d, "cur_tx")
    BY <1>3
  <2>3. HardwareAt(d)'
    BY <1>1, <2>1, <2>2, RaiseIrqHw, IsrLockHw, IsrRxHw
  <2>4. ShortInv'
    BY <1>4, <2>1 DEF ShortInv
  <2>5. RestInv(d) => RestInv(d)'
    BY <1>4, RestFrame
  <2> QED
    BY <1>1, <1>3, <1>4, <1>6, <2>3, <2>4, <2>5 DEF DeviceInv
<1> QED
  BY <1>5, <1>6

LEMMA IsrEndsDevice ==
  ASSUME IInv, NEW d \in Devs, loopback = 0, thr[Irq(d)].dev = d,
         IsrFree(Irq(d)) \/ IsrExit(Irq(d))
  PROVE  DeviceInv(d)' /\ NullInv' /\ NoDoubleFree'
<1>1. TypeOK /\ DeviceInv(d)
  BY DEF IInv, HardwareInv
<1>2. UNCHANGED opening
  BY IrqOpening DEF IsrStep
<1>3. \A l \in {"cur_tx", "dirty_tx", "tx_skbuff", "start"} :
        InOpen(d, l)' <=> InOpen(d, l)
  BY <1>2, SameOpening DEF OpenLabels
<1>4. IsrFree(Irq(d)) \/ fault' = "none"
  BY DEF IsrExit, At, MayRun
<1>5. priv'[d].cur_tx = priv[d].cur_tx
  <2>1. priv \in [Devs -> PrivStates]
    BY <1>1 DEF TypeOK
  <2>2. IsrFree(Irq(d)) => priv'[d].cur_tx = priv[d].cur_tx
    BY <2>1 DEF IsrFree, PrivStates
  <2>3. IsrExit(Irq(d)) => priv'[d].cur_tx = priv[d].cur_tx
    BY <2>1 DEF IsrExit, Leave, PrivStates
  <2> QED
    BY <2>2, <2>3
<1>6. CASE InOpen(d, "dirty_tx")
  <2>1. ResetAt(d)
    BY <1>1, <1>6 DEF DeviceInv
  <2>2. ResetAt(d)' /\ fault' # "double_free"
    BY <1>1, <1>4, <2>1, IsrFreeReset, IsrExitReset
  <2> QED
    BY <1>3, <1>6, <2>2 DEF DeviceInv, NullInv, NoDoubleFree
<1>7. CASE ~InOpen(d, "dirty_tx")
  <2>1. HardwareAt(d) /\ ShortInv
    BY <1>1, <1>7 DEF DeviceInv
  <2>2. InOpen(d, "cur_tx")' <=> InOpen(d, "cur_tx")
    BY <1>3
  <2>3. HardwareAt(d)' /\ NullInv' /\ NoDoubleFree'
    BY <1>1, <1>4, <2>1, <2>2, IsrFreeHw, IsrExitHw, NoCrash
  <2>4. ShortInv' /\ (RestInv(d) => RestInv(d)')
    <3>1. CASE IsrExit(Irq(d))
      <4>1. /\ UNCHANGED own
            /\ priv'[d].tx_skbuff = priv[d].tx_skbuff
        BY <1>1, <3>1 DEF IsrExit, Leave, TypeOK, PrivStates
      <4>2. thr'[Xmit(d)] = thr[Xmit(d)]
        BY <1>1, <3>1, OneDevice, ThreadsAre DEF IsrExit, GoTo, TypeOK
      <4> QED
        BY <1>5, <2>1, <4>1, <4>2, RestFrame DEF ShortInv
    <3>2. CASE IsrFree(Irq(d))
      BY <1>1, <2>1, <3>2, IsrFreeRest
    <3> QED
      BY <3>1, <3>2
  <2> QED
    BY <1>1, <1>3, <1>5, <1>7, <2>3, <2>4 DEF DeviceInv
<1> QED
  BY <1>6, <1>7

LEMMA RaiseIrqKeeps ==
  ASSUME IInv, NEW d \in Devs, RaiseIrq(d) PROVE IInv'
<1>1. loopback = 0 /\ UNCHANGED fault /\ MayRun(Irq(d)) /\ fault = "none"
  BY DEF RaiseIrq, At, MayRun
<1>2. TypeOK'
  BY RaiseIrqTyped DEF IInv
<1>3. ThreadsInv'
  BY <1>1, ThreadsAre, OneDevice, GoToMoves
  DEF RaiseIrq, IInv, IrqLabels, IsrLabels, Labels
<1>4. OpeningInv'
  BY <1>1, IrqOpening
<1>5. DeviceInv(d)'
  BY <1>1, IrqBeginsDevice DEF IInv, ThreadsInv
<1>6. HardwareInv' /\ LoopbackInv'
  BY <1>1, <1>5, OneDevice, HardwareOnly
<1> QED
  BY <1>1, <1>2, <1>3, <1>4, <1>6, NoCrash DEF IInv

(* In loopback the routine runs in start_xmit, of an interface that is not *)
(* being opened.                                                           *)
LEMMA CallOpening ==
  ASSUME IInv, loopback = 1, NEW d \in Devs, IsrStep(Xmit(d))
  PROVE  /\ UNCHANGED opening /\ OpeningInv'
         /\ \A l \in OpenLabels \ {"none"} : ~InOpen(d, l)
<1>1. UNCHANGED opening /\ ~Idle(Xmit(d))
  BY DEF IsrStep, IsrLock, IsrRx, IsrFree, IsrExit, At, Idle
<1>2. \A l \in OpenLabels \ {"none"} : ~InOpen(d, l)
  BY <1>1, NotOpening DEF IInv
<1>3. \A e \in Devs : dev'[e].up = dev[e].up
  <2>1. dev \in [Devs -> DevStates] /\ thr[Xmit(d)].dev \in Devs
    BY ThreadsAre DEF IInv, TypeOK, ThreadStates
  <2> QED
    BY <2>1, SameUp DEF IsrStep, IsrLock, IsrRx, IsrFree, IsrExit
<1>4. \A e \in Devs \ {d} : thr'[Xmit(e)] = thr[Xmit(e)]
  <2> SUFFICES ASSUME NEW e \in Devs \ {d} PROVE thr'[Xmit(e)] = thr[Xmit(e)]
    OBVIOUS
  <2>1. Xmit(e) # Xmit(d) /\ Xmit(e) \in Threads
    BY ThreadsAre DEF Xmit
  <2>2. thr \in [Threads -> ThreadStates]
    BY DEF IInv, TypeOK
  <2> QED
    BY <2>1, <2>2 DEF IsrStep, IsrLock, IsrRx, IsrFree, IsrExit, GoTo
<1>5. opening.pc \in OpenLabels /\ opening.dev \in Devs
  BY DEF IInv, TypeOK
<1>6. CASE opening.pc = "none"
  BY <1>1, <1>2, <1>6 DEF OpeningInv
<1>7. CASE opening.pc # "none"
  <2>1. ~InOpen(d, opening.pc)
    BY <1>2, <1>5, <1>7
  <2>2. \A e \in Devs \ {d} : Idle(Xmit(e)) => Idle(Xmit(e))'
    BY <1>4 DEF Idle
  <2>3. OpeningInv'
    BY <1>1, <1>3, <2>1, <2>2, OpeningFrame DEF IInv
  <2> QED
    BY <1>1, <1>2, <2>3
<1> QED
  BY <1>6, <1>7

LEMMA IsrStepKeeps ==
  ASSUME IInv, NEW t \in Threads, IsrStep(t) PROVE IInv'
<1>1. TypeOK'
  BY IsrLockTyped, IsrRxTyped, IsrFreeTyped, IsrExitTyped DEF IInv, IsrStep
<1>2. ThreadsInv'
  BY <1>1, IsrStepThreads DEF IInv, TypeOK
<1>3. thr[t].pc \in IsrLabels
  BY DEF IsrStep, IsrLock, IsrRx, IsrFree, IsrExit, At, IsrLabels
<1>4. IsrFree(t) \/ fault' \notin {"null_skb", "double_free"}
  <2>1. IsrFree(t) \/ fault' = fault \/ fault' \in NoRing
    BY DEF IsrStep, IsrLock, IsrRx, IsrExit, Receive, Oops, MayOops, NoRing
  <2>2. fault = "none"
    BY DEF IsrStep, IsrLock, IsrRx, IsrFree, IsrExit, At, MayRun
  <2> QED
    BY <2>1, <2>2 DEF NoRing
<1>5. CASE loopback = 0
  <2>1. PICK d \in Devs : t = Irq(d)
    <3>1. PICK d \in Devs : t = Xmit(d) \/ t = Irq(d)
      BY DEF Threads, Xmit, Irq
    <3>2. t # Xmit(d)
      BY <1>3, <1>5 DEF IInv, ThreadsInv, XmitLabels, IsrLabels
    <3> QED
      BY <3>1, <3>2
  <2>2. thr[Irq(d)].dev = d
    BY DEF IInv, ThreadsInv
  <2>3. OpeningInv'
    BY <1>5, <2>1, IrqOpening
  <2>4. DeviceInv(d)' /\ NullInv' /\ NoDoubleFree'
    <3>1. CASE IsrLock(t) \/ IsrRx(t)
      <4>1. ~IsrFree(t)
        BY <3>1 DEF IsrLock, IsrRx, IsrFree, At
      <4> QED
        BY <1>4, <1>5, <2>1, <2>2, <3>1, <4>1, IrqBeginsDevice, NoCrash
    <3>2. CASE IsrFree(t) \/ IsrExit(t)
      BY <1>5, <2>1, <2>2, <3>2, IsrEndsDevice
    <3> QED
      BY <3>1, <3>2 DEF IsrStep
  <2>5. HardwareInv' /\ LoopbackInv'
    BY <1>5, <2>4, OneDevice, HardwareOnly
  <2> QED
    BY <1>1, <1>2, <2>3, <2>4, <2>5 DEF IInv
<1>6. CASE loopback = 1
  <2>1. PICK d \in Devs : t = Xmit(d)
    BY <1>3, <1>6, IsrOfXmit DEF IInv
  <2>2. TypeOK /\ LoopbackAt(d) /\ LoopbackAt(Peer(d))
    BY <1>6, TwoDevices DEF IInv, LoopbackInv
  <2>3. /\ UNCHANGED opening /\ OpeningInv'
        /\ \A l \in OpenLabels \ {"none"} : ~InOpen(d, l)
    BY <1>6, <2>1, CallOpening
  <2>4. ~InOpen(d, "dirty_tx") /\ ~InOpen(d, "tx_skbuff")
    BY <2>3 DEF OpenLabels
  <2>5. \A f \in Devs : /\ InOpen(f, "dirty_tx")' <=> InOpen(f, "dirty_tx")
                        /\ InOpen(f, "tx_skbuff")' <=> InOpen(f, "tx_skbuff")
    BY <2>3, SameOpening DEF OpenLabels
  <2>6. LoopbackAt(d)' /\ LoopbackAt(Peer(d))' /\ fault' # "double_free"
    BY <1>4, <1>6, <2>1, <2>2, <2>4, <2>5, IsrLockLoop, IsrRxLoop, IsrFreeLoop,
       IsrExitLoop DEF IsrStep
  <2>7. HardwareInv' /\ LoopbackInv'
    BY <1>6, <2>6, TwoDevices, LoopbackOnly
  <2>8. NullInv' /\ NoDoubleFree'
    BY <1>6, <2>6 DEF NullInv, NoDoubleFree
  <2> QED
    BY <1>1, <1>2, <2>3, <2>7, <2>8 DEF IInv
<1> QED
  BY <1>5, <1>6, ModeAssumption

LEMMA StutterKeeps == ASSUME IInv, UNCHANGED vars PROVE IInv'
<1> USE DEF vars
<1>1. TypeOK' /\ NoDoubleFree' /\ OpeningInv'
  BY DEF IInv, TypeOK, NoDoubleFree, OpeningInv, Idle
<1>2. NullInv'
  BY DEF IInv, NullInv, InOpen
<1>3. ThreadsInv' /\ HardwareInv' /\ LoopbackInv'
  BY InterfaceSame
<1> QED
  BY <1>1, <1>2, <1>3 DEF IInv

(* The inductive invariant: the types, the places of the threads, and for  *)
(* each mode what the descriptors, the owners of the packets and the       *)
(* counters have to do with each other at every step of the handlers.      *)
THEOREM InductiveInvariant == Spec => []IInv
<1>1. Init => IInv
  BY InitHolds
<1>2. IInv /\ [Next]_vars => IInv'
  BY OpenRequestIrqKeeps, OpenSetsKeeps, ReleaseKeeps, StartXmitKeeps,
     XmitStepKeeps, RaiseIrqKeeps, IsrStepKeeps, StutterKeeps
  DEF Next, Interface, OpenStep
<1> QED
  BY <1>1, <1>2, PTL DEF Spec

(* Every field keeps its type; in particular the counters of transmission  *)
(* stay below the bounds at which the driver crashes.                      *)
THEOREM TypeInvariant == Spec => []TypeOK
<1>1. IInv => TypeOK
  BY DEF IInv
<1> QED
  BY <1>1, InductiveInvariant, PTL

(* No sk_buff is freed twice by rocketIO_interrupt, whether it preempts    *)
(* rocketIO_start_xmit, is called by it, or comes after it.                *)
THEOREM NeverFreedTwice == Spec => []NoDoubleFree
<1>1. IInv => NoDoubleFree
  BY DEF IInv
<1> QED
  BY <1>1, InductiveInvariant, PTL

(* With hardware, between handlers and outside of line 411, where open has *)
(* cleared cur_tx and not dirty_tx, those from dirty_tx to cur_tx         *)
(* hold packets that the driver owns, and are four at most; and the        *)
(* interrupt routine meets an empty descriptor at line 411 only.           *)
THEOREM PendingOwned == ASSUME loopback = 0 PROVE Spec => []PendingAreOwned
<1>1. IInv => PendingAreOwned
  <2> SUFFICES ASSUME IInv, Quiet, NEW d \in Devs, ~InOpen(d, "dirty_tx")
               PROVE  /\ Used(d) <= NUM_TX_DESC
                      /\ \A i \in priv[d].dirty_tx..priv[d].cur_tx-1 :
                           LET s == priv[d].tx_skbuff[i % NUM_TX_DESC]
                           IN  s # NULL /\ own[s] = "driver"
    BY DEF PendingAreOwned, IInv
  <2>1. TypeOK /\ HardwareAt(d)
    BY DEF IInv, HardwareInv, DeviceInv
  <2>2. thr[Irq(d)].pc = "idle"
    BY ThreadsAre DEF Quiet, Idle
  <2>3. Used(d) = InUse(d) /\ First(d) = priv[d].dirty_tx
    BY <2>1, <2>2, UsedIsInUse DEF HardwareAt, First
  <2> QED
    BY <2>1, <2>3 DEF HardwareAt, WindowInv, PendingInv, Pending, Slot
<1> QED
  BY <1>1, InductiveInvariant, PTL

(* With hardware, between handlers, tx_full is set exactly when the four   *)
(* descriptors are in use, except from the line of open that clears it     *)
(* (410) until both counters are cleared (411).                            *)
THEOREM FullFlagExact == ASSUME loopback = 0 PROVE Spec => []FullIsFull
<1>1. IInv => FullIsFull
  <2> SUFFICES ASSUME IInv, Quiet, NEW d \in Devs, ~InOpen(d, "cur_tx"),
                      ~InOpen(d, "dirty_tx")
               PROVE  priv[d].tx_full <=> Used(d) >= NUM_TX_DESC
    BY DEF FullIsFull
  <2>1. TypeOK /\ HardwareAt(d)
    BY DEF IInv, HardwareInv, DeviceInv
  <2>2. thr[Irq(d)].pc = "idle" /\ thr[Xmit(d)].pc = "idle"
    BY ThreadsAre DEF Quiet, Idle
  <2>3. Used(d) = InUse(d)
    BY <2>1, <2>2, UsedIsInUse DEF HardwareAt
  <2> QED
    BY <2>1, <2>2, <2>3 DEF HardwareAt, FullInv
<1> QED
  BY <1>1, InductiveInvariant, PTL

(* In loopback, a transmission that has returned has had its packet freed. *)
THEOREM CompletionFrees == ASSUME loopback = 1 PROVE Spec => []CompletedIsFreed
<1>1. IInv => CompletedIsFreed
  <2> SUFFICES ASSUME IInv, NEW d \in Devs, Idle(Xmit(d)),
                      NEW i \in DOMAIN sent[d]
               PROVE  own[sent[d][i]] = "freed"
    BY DEF CompletedIsFreed
  <2>1. SentInv(d) /\ sent[d] \in Seq(Skbs)
    BY DEF IInv, LoopbackInv, LoopbackAt, TypeOK
  <2>2. i \in 1..Len(sent[d])
    BY <2>1
  <2> QED
    BY <2>1, <2>2 DEF SentInv
<1> QED
  BY <1>1, InductiveInvariant, PTL

-----------------------------------------------------------------------------
(* The two loopback interfaces implement the contract RioChannel.          *)

Dropped == [d \in Devs |-> priv[d].rx_dropped]

(* A step that accepts, delivers and drops nothing is not seen.            *)
LEMMA Unseen ==
  ASSUME UNCHANGED <<sent, rcvd>>,
         \A f \in Devs : priv'[f].rx_dropped = priv[f].rx_dropped
  PROVE  UNCHANGED Channel!cvars
BY DEF Channel!cvars

(* open resets the descriptors, and not rx_dropped.                        *)
LEMMA OpenSetsUnseen ==
  ASSUME TypeOK, NEW d \in Devs,
         \/ SetBufLen(d) \/ AllocRing(d) \/ ClearFull(d) \/ ClearCurTx(d)
         \/ ClearDirtyTx(d) \/ ClearSkbuffs(d) \/ StartQueue(d)
  PROVE  UNCHANGED Channel!cvars
<1>1. \A f \in Devs : priv'[f].rx_dropped = priv[f].rx_dropped
  <2>1. priv \in [Devs -> PrivStates]
    BY DEF TypeOK
  <2>2. CASE SetBufLen(d) \/ AllocRing(d)
    <3>1. PICK v : priv' = [priv EXCEPT ![d].ring = v]
      BY <2>2 DEF SetBufLen, AllocRing
    <3> QED
      BY <3>1, OtherCount
  <2>3. CASE ~(SetBufLen(d) \/ AllocRing(d))
    BY <2>1, <2>3
    DEF ClearFull, ClearCurTx, ClearDirtyTx, ClearSkbuffs, StartQueue,
        PrivStates
  <2> QED
    BY <2>2, <2>3
<1> QED
  BY <1>1, OpenSets, Unseen

(* A packet is accepted only when the one before has been settled.         *)
LEMMA StartXmitAccepts ==
  ASSUME IInv, loopback = 1, NEW d \in Devs, NEW s \in Skbs, StartXmit(d, s)
  PROVE  Channel!Next \/ UNCHANGED Channel!cvars
<1>1. TypeOK /\ LoopbackAt(d)
  BY DEF IInv, LoopbackInv
<1>2. \A f \in Devs : priv'[f].rx_dropped = priv[f].rx_dropped
  BY <1>1 DEF StartXmit, TypeOK, PrivStates
<1>3. CASE UNCHANGED sent
  BY <1>2, <1>3, Unseen DEF StartXmit
<1>4. CASE sent' = [sent EXCEPT ![d] = Append(@, s)]
  <2>1. ~Underway(d)
    BY DEF StartXmit, At, Underway
  <2>2. Len(rcvd[Peer(d)]) + priv[Peer(d)].rx_dropped = Len(sent[d])
    <3>1. sent[d] \in Seq(Skbs)
      BY <1>1 DEF TypeOK
    <3> QED
      BY <1>1, <2>1, <3>1 DEF LoopbackAt, SettledInv
  <2>3. Channel!Settled(d) = Len(sent[d])
    BY <2>2, TwoDevices DEF Channel!Settled, Channel!Other, Peer
  <2>4. UNCHANGED <<rcvd, Dropped>>
    BY <1>2 DEF StartXmit, Dropped
  <2>5. Channel!Accept(d)
    BY <1>4, <2>3, <2>4 DEF Channel!Accept, Dropped
  <2> QED
    BY <2>5 DEF Channel!Next
<1> QED
  BY <1>3, <1>4 DEF StartXmit

(* In loopback start_xmit itself settles nothing.                          *)
LEMMA XmitStepUnseen ==
  ASSUME IInv, loopback = 1, NEW d \in Devs, XmitStep(d)
  PROVE  UNCHANGED Channel!cvars
<1>1. TypeOK /\ thr[Xmit(d)].pc \in {"idle"} \cup XmitLabels /\ Peer(d) \in Devs
  BY TwoDevices DEF IInv, ThreadsInv
<1>2. CASE MarkRx(d)
  <2>1. priv' = [priv EXCEPT ![Peer(d)].status = {RX}]
    BY <1>2 DEF MarkRx
  <2> QED
    BY <1>1, <1>2, <2>1, OtherCount, Unseen DEF MarkRx
<1>3. CASE CopyToRing(d)
  <2>1. UNCHANGED priv \/ priv' = [priv EXCEPT ![Peer(d)].ring = thr[Xmit(d)].skb]
    BY <1>3 DEF CopyToRing
  <2> QED
    BY <1>1, <1>3, <2>1, OtherCount, Unseen DEF CopyToRing
<1>4. CASE MarkTx(d)
  <2>1. \A f \in Devs : priv'[f].rx_dropped = priv[f].rx_dropped
    BY <1>1, <1>4 DEF MarkTx, CountTx, TypeOK, PrivStates
  <2> QED
    BY <1>4, <2>1, Unseen DEF MarkTx
<1>5. CASE \/ Post(d) \/ Program(d) \/ CheckFull(d) \/ SetFull(d)
           \/ Recheck(d) \/ StopQueue(d)
  BY <1>1, <1>5
  DEF Post, Program, CheckFull, SetFull, Recheck, StopQueue, At, XmitLabels,
      IsrLabels
<1> QED
  BY <1>2, <1>3, <1>4, <1>5 DEF XmitStep

(* The peer's interrupt delivers the packet in progress, whole or cut, or  *)
(* drops it; the device's own is not seen.                                 *)
LEMMA IsrRxSettles ==
  ASSUME IInv, loopback = 1, NEW d \in Devs, IsrRx(Xmit(d))
  PROVE  Channel!Next \/ UNCHANGED Channel!cvars
<1> DEFINE x == thr[Xmit(d)]
           e == Peer(d)
<1>1. TypeOK /\ LoopbackAt(d) /\ e \in Devs
  BY TwoDevices DEF IInv, LoopbackInv
<1>2. x.pc = "isr_rx" /\ UNCHANGED sent /\ ~Idle(Xmit(d))
  BY DEF IsrRx, At, Idle
<1>3. x.dev = d \/ x.dev = e
  BY <1>1, TwoDevices DEF TypeOK, ThreadStates
<1>4. CASE x.dev = d
  <2>1. x.word = {TX}
    BY <1>1, <1>2, <1>4 DEF LoopbackAt, IsrInv
  <2>2. UNCHANGED <<priv, rcvd>>
    BY <1>4, <2>1 DEF IsrRx, RX, TX
  <2> QED
    BY <1>2, <2>2, Unseen
<1>5. CASE x.dev = e
  <2>1. x.word = {RX} /\ priv[e].ring = x.skb /\ x.skb \in Small \cup Big
    BY <1>1, <1>2, <1>5, TwoDevices DEF LoopbackAt, IsrInv, RingInv
  <2>2. Receive(e) /\ priv[e].ring \notin NoRing
    BY <1>5, <2>1, MarkAssumption DEF IsrRx, Skbs
  <2>3. Underway(d)
    BY <1>2, <1>5, TwoDevices DEF Underway
  <2>4. /\ priv \in [Devs -> PrivStates]
        /\ rcvd \in [Devs -> Seq(Skbs \cup {Junk})]
        /\ sent[d] \in Seq(Skbs)
    BY <1>1 DEF TypeOK
  <2>5. /\ Len(rcvd[e]) + priv[e].rx_dropped = Len(sent[d]) - 1
        /\ Len(sent[d]) > 0 /\ sent[d][Len(sent[d])] = x.skb
    BY <1>1, <1>2, <2>3 DEF LoopbackAt, SettledInv, SentInv
  <2>6. Channel!Settled(d) = Len(sent[d]) - 1 /\ Channel!Other(d) = e
    BY <1>1, <2>5 DEF Channel!Settled, Channel!Other, Peer
  <2>7. Len(sent[d]) \in Nat
    BY <2>4
  <2>8. Channel!Settled(d) < Len(sent[d])
    BY <2>6, <2>7
  <2>9. CASE /\ rcvd' = [rcvd EXCEPT ![e] = Append(@, PacketAt(e))]
             /\ priv' = [priv EXCEPT ![e].ring =
                           IF @ \in NoRing THEN @ ELSE Junk]
    <3>1. PacketAt(e) = Channel!Delivery(sent[d][Channel!Settled(d) + 1])
      <4>1. sent[d][Channel!Settled(d) + 1] = x.skb
        BY <2>5, <2>6, <2>7
      <4>2. x.skb \in Small <=> x.skb \notin Big
        BY <2>1, PacketAssumption
      <4> QED
        BY <2>1, <4>1, <4>2 DEF PacketAt, Channel!Delivery
    <3>2. UNCHANGED Dropped
      BY <1>1, <2>9, OtherCount DEF Dropped
    <3>3. Channel!Deliver(d)
      BY <1>2, <2>6, <2>8, <2>9, <3>1, <3>2 DEF Channel!Deliver, Dropped
    <3> QED
      BY <3>3 DEF Channel!Next
  <2>10. CASE priv' = [priv EXCEPT ![e].rx_dropped = @ + 1] /\ UNCHANGED rcvd
    <3>1. \A f \in Devs : priv'[f].rx_dropped =
             IF f = e THEN priv[f].rx_dropped + 1 ELSE priv[f].rx_dropped
      BY <1>1, <2>4, <2>10 DEF PrivStates
    <3>2. Dropped' = [Dropped EXCEPT ![e] = @ + 1]
      BY <1>1, <3>1 DEF Dropped
    <3>3. Channel!Drop(d)
      BY <1>2, <2>6, <2>8, <2>10, <3>2 DEF Channel!Drop, Dropped
    <3> QED
      BY <3>3 DEF Channel!Next
  <2> QED
    BY <2>2, <2>9, <2>10 DEF Receive, MayOops, DropPacket, NoRing
<1> QED
  BY <1>3, <1>4, <1>5

(* The other steps of the routine are not seen.                            *)
LEMMA IsrOtherUnseen ==
  ASSUME IInv, NEW t \in Threads, IsrLock(t) \/ IsrFree(t) \/ IsrExit(t)
  PROVE  UNCHANGED Channel!cvars
<1> DEFINE d == thr[t].dev
<1>1. TypeOK /\ d \in Devs
  BY DEF IInv, TypeOK, ThreadStates
<1>2. UNCHANGED <<sent, rcvd>>
  BY DEF IsrLock, IsrFree, IsrExit
<1>3. \A f \in Devs : priv'[f].rx_dropped = priv[f].rx_dropped
  <2>1. CASE IsrLock(t)
    <3>1. priv' = [priv EXCEPT ![d].lock = t]
      BY <2>1 DEF IsrLock
    <3> HIDE DEF d
    <3> QED
      BY <1>1, <3>1, OtherCount
  <2>2. CASE IsrFree(t)
    <3>1. \/ UNCHANGED priv
          \/ priv' = [priv EXCEPT ![d].tx_skbuff[thr[t].i] = NULL,
                                  ![d].tx_full = FALSE]
      BY <2>2 DEF IsrFree
    <3>2. priv \in [Devs -> PrivStates]
      BY <1>1 DEF TypeOK
    <3> HIDE DEF d
    <3>3. CASE priv' = [priv EXCEPT ![d].tx_skbuff[thr[t].i] = NULL,
                                    ![d].tx_full = FALSE]
      <4>1. priv'[d].rx_dropped = priv[d].rx_dropped
        BY <1>1, <3>2, <3>3 DEF PrivStates
      <4>2. \A f \in Devs \ {d} : priv'[f] = priv[f]
        BY <3>2, <3>3
      <4> QED
        BY <4>1, <4>2
    <3> QED
      BY <3>1, <3>3
  <2>3. CASE IsrExit(t)
    <3>1. priv' = [priv EXCEPT ![d] = Leave(@, t)]
      BY <2>3 DEF IsrExit
    <3>2. Leave(priv[d], t).rx_dropped = priv[d].rx_dropped
      BY <1>1 DEF Leave, TypeOK, PrivStates
    <3> HIDE DEF d
    <3> QED
      BY <1>1, <3>1, <3>2 DEF TypeOK
  <2> QED
    BY <2>1, <2>2, <2>3
<1> QED
  BY <1>2, <1>3, Unseen

(* The simulated interfaces implement the contract: whatever is opened and *)
(* closed in between, what rio<d> accepts is delivered by its peer in the  *)
(* order it was accepted, cut if it is big, or counted in rx_dropped.      *)
THEOREM LoopbackChannel == ASSUME loopback = 1 PROVE Spec => ImplementsChannel
<1>1. Init => Channel!Init
  BY DEF Init, Channel!Init
<1>2. IInv /\ [Next]_vars => [Channel!Next]_(Channel!cvars)
  <2> SUFFICES ASSUME IInv, [Next]_vars
               PROVE  Channel!Next \/ UNCHANGED Channel!cvars
    OBVIOUS
  <2>0. TypeOK
    BY DEF IInv
  <2>1. CASE UNCHANGED vars
    BY <2>1 DEF vars, Channel!cvars
  <2>2. ASSUME NEW d \in Devs, OpenRequestIrq(d) \/ Release(d) \/ RaiseIrq(d)
        PROVE  UNCHANGED Channel!cvars
    BY <2>2 DEF OpenRequestIrq, Release, RaiseIrq, Channel!cvars
  <2>3. ASSUME NEW t \in Threads, IsrStep(t)
        PROVE  Channel!Next \/ UNCHANGED Channel!cvars
    <3>1. CASE IsrRx(t)
      <4>1. thr[t].pc \in IsrLabels
        BY <3>1 DEF IsrRx, At, IsrLabels
      <4>2. PICK d \in Devs : t = Xmit(d)
        BY <4>1, IsrOfXmit DEF IInv
      <4> QED
        BY <3>1, <4>2, IsrRxSettles
    <3>2. CASE ~IsrRx(t)
      BY <2>3, <3>2, IsrOtherUnseen DEF IsrStep
    <3> QED
      BY <3>1, <3>2
  <2> QED
    BY <2>0, <2>1, <2>2, <2>3, OpenSetsUnseen, StartXmitAccepts, XmitStepUnseen
    DEF Next, Interface, OpenStep
<1> QED
  BY <1>1, <1>2, InductiveInvariant, PTL DEF Spec, ImplementsChannel, Channel!Spec
=============================================================================
