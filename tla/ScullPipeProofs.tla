---------------------------- MODULE ScullPipeProofs ----------------------------
(***************************************************************************)
(* Proofs about the pipe of scull, for any finite number of readers and    *)
(* writers, any bytes and any size of the buffer: the inductive invariant  *)
(* of ScullPipe, from it the safety the run checks, and that the pipe is a *)
(* stream.                                                                 *)
(***************************************************************************)
EXTENDS ScullPipe, TLAPS, FiniteSetTheorems, SequenceTheorems

Labels == {"closed", "idle", "wake"} \cup Sections \cup Waiting

-----------------------------------------------------------------------------
(* The program counters, and the processes that have the device open.      *)

LEMMA Moves ==
  ASSUME TypeOK, NEW p \in Procs, NEW label \in Labels, GoTo(p, label)
  PROVE  /\ pc' \in [Procs -> Labels] /\ pc'[p] = label
         /\ \A q \in Procs : q # p => pc'[q] = pc[q]
BY DEF TypeOK, GoTo, Labels

LEMMA OpenedFinite ==
  ASSUME NEW ps \in SUBSET Procs
  PROVE  IsFiniteSet(Opened(ps)) /\ Cardinality(Opened(ps)) \in Nat
<1>1. Opened(ps) \subseteq Procs
  BY DEF Opened
<1> QED
  BY <1>1, ProcessAssumption, FS_Subset, FS_CardinalityType

\* A step of p leaves those that have the device open as they were.
LEMMA OpenedStay ==
  ASSUME TypeOK, NEW p \in Procs, NEW label \in Labels, GoTo(p, label),
         pc[p] \in {"closed", "opening"} <=> label \in {"closed", "opening"},
         NEW ps \in SUBSET Procs
  PROVE  Opened(ps)' = Opened(ps)
BY Moves DEF Opened

LEMMA OpenedMore ==
  ASSUME TypeOK, NEW p \in Procs, NEW label \in Labels, GoTo(p, label),
         pc[p] \in {"closed", "opening"}, label \notin {"closed", "opening"},
         NEW ps \in SUBSET Procs
  PROVE  Cardinality(Opened(ps)') = Cardinality(Opened(ps)) + (IF p \in ps THEN 1 ELSE 0)
<1>1. CASE p \in ps
  <2>1. Opened(ps)' = Opened(ps) \cup {p} /\ p \notin Opened(ps)
    BY <1>1, Moves DEF Opened
  <2> QED
    BY <1>1, <2>1, OpenedFinite, FS_AddElement
<1>2. CASE p \notin ps
  <2>1. Opened(ps)' = Opened(ps)
    BY <1>2, Moves DEF Opened
  <2> QED
    BY <1>2, <2>1, OpenedFinite
<1> QED
  BY <1>1, <1>2

LEMMA OpenedLess ==
  ASSUME TypeOK, NEW p \in Procs, NEW label \in Labels, GoTo(p, label),
         pc[p] \notin {"closed", "opening"}, label \in {"closed", "opening"},
         NEW ps \in SUBSET Procs
  PROVE  Cardinality(Opened(ps)') = Cardinality(Opened(ps)) - (IF p \in ps THEN 1 ELSE 0)
<1>1. CASE p \in ps
  <2>1. Opened(ps)' = Opened(ps) \ {p} /\ p \in Opened(ps)
    BY <1>1, Moves DEF Opened
  <2> QED
    BY <1>1, <2>1, OpenedFinite, FS_RemoveElement
<1>2. CASE p \notin ps
  <2>1. Opened(ps)' = Opened(ps)
    BY <1>2, Moves DEF Opened
  <2> QED
    BY <1>2, <2>1, OpenedFinite
<1> QED
  BY <1>1, <1>2

-----------------------------------------------------------------------------
(* The semaphore.                                                          *)

LEMMA SemDown ==
  ASSUME TypeOK, SemInv, NEW p \in Procs, NEW label \in Sections, Down(p, label)
  PROVE  SemInv'
<1>1. label \in Labels /\ GoTo(p, label) /\ sem = NULL /\ sem' = p
  BY DEF Down, Labels
<1>2. \A q \in Procs : pc[q] \notin Sections
  BY <1>1, ProcessAssumption DEF SemInv
<1> QED
  BY <1>1, <1>2, Moves DEF SemInv

LEMMA SemUp ==
  ASSUME TypeOK, SemInv, NEW p \in Procs, NEW label \in Labels \ Sections,
         pc[p] \in Sections, GoTo(p, label), sem' = NULL
  PROVE  SemInv'
BY Moves, ProcessAssumption DEF SemInv

LEMMA SemKept ==
  ASSUME TypeOK, SemInv, NEW p \in Procs, NEW label \in Labels \ Sections,
         pc[p] \notin Sections, GoTo(p, label), sem' = sem
  PROVE  SemInv'
BY Moves DEF SemInv

-----------------------------------------------------------------------------
(* The steps that leave the buffer and the counts alone.                   *)

LEMMA CountKept ==
  ASSUME TypeOK, CountInv, NEW p \in Procs, NEW label \in Labels, GoTo(p, label),
         pc[p] \in {"closed", "opening"} <=> label \in {"closed", "opening"},
         UNCHANGED <<allocated, counts>>
  PROVE  CountInv'
<1>1. Opened(Readers)' = Opened(Readers) /\ Opened(Writers)' = Opened(Writers)
  BY OpenedStay DEF Procs
<1> QED
  BY <1>1 DEF CountInv, counts

LEMMA StrandedKept ==
  ASSUME TypeOK, NobodyStranded, NEW p \in Procs, NEW label \in Labels,
         GoTo(p, label), pc[p] # "wake", UNCHANGED ring,
         label = "asleep" => ~CanMove(p),
         \A q \in Procs : q # p /\ q \in queue' => q \in queue
  PROVE  NobodyStranded'
<1>1. \A q \in Procs : CanMove(q)' <=> CanMove(q)
  BY DEF CanMove, SpaceFree, ring
<1>2. SUFFICES ASSUME NEW q \in Procs, pc'[q] = "asleep", q \in queue', CanMove(q)'
               PROVE  \/ \E r \in Procs : pc'[r] = "wake" /\ (r \in Readers <=> q \notin Readers)
                      \/ q \in Writers /\ rp' = 0
  BY DEF NobodyStranded
<1>3. q # p
  BY <1>1, <1>2, Moves
<1>4. \/ \E r \in Procs : pc[r] = "wake" /\ (r \in Readers <=> q \notin Readers)
      \/ q \in Writers /\ rp = 0
  BY <1>1, <1>2, <1>3, Moves DEF NobodyStranded
<1>5. \A r \in Procs : pc[r] = "wake" => pc'[r] = "wake"
  BY Moves
<1> QED
  BY <1>4, <1>5 DEF ring

LEMMA Calm ==
  ASSUME IInv, NEW p \in Procs, NEW label \in Labels, GoTo(p, label),
         pc[p] \in {"closed", "opening"} <=> label \in {"closed", "opening"},
         UNCHANGED <<allocated, ring, counts, moved>>,
         sem' \in Procs \cup {NULL}, queue' \subseteq Procs, SemInv',
         pc[p] # "wake", label = "asleep" => ~CanMove(p),
         \A q \in Procs : q # p /\ q \in queue' => q \in queue
  PROVE  IInv'
<1>1. TypeOK /\ CountInv /\ WindowInv /\ NobodyStranded
  BY DEF IInv
<1>2. TypeOK'
  BY <1>1, Moves DEF TypeOK, Labels, ring, counts
<1>3. CountInv'
  BY <1>1, CountKept
<1>4. WindowInv'
  BY <1>1 DEF WindowInv, Written, ring
<1>5. NobodyStranded'
  BY <1>1, StrandedKept
<1> QED
  BY <1>2, <1>3, <1>4, <1>5 DEF IInv

LEMMA DownPreserves ==
  ASSUME IInv, NEW p \in Procs,
         OpenDown(p) \/ MoveDown(p) \/ ReleaseDown(p) \/ LockAgain(p)
  PROVE  IInv'
<1>1. PICK label \in Sections : /\ Down(p, label)
                                /\ pc[p] # "wake"
                                /\ pc[p] \in {"closed", "opening"} <=> label \in {"closed", "opening"}
  BY DEF OpenDown, MoveDown, ReleaseDown, LockAgain, Sections
<1>2. label \in Labels /\ label # "asleep"
  BY DEF Labels, Sections
<1>3. TypeOK /\ SemInv /\ queue \subseteq Procs
  BY DEF IInv, TypeOK
<1>4. SemInv'
  BY <1>1, <1>3, SemDown
<1>5. /\ GoTo(p, label) /\ sem' = p
      /\ UNCHANGED <<allocated, ring, counts, moved>> /\ queue' = queue
  BY <1>1 DEF Down
<1> QED
  BY <1>1, <1>2, <1>3, <1>4, <1>5, Calm

LEMMA UpPreserves ==
  ASSUME IInv, NEW p \in Procs, Fault(p) \/ GiveUp(p) PROVE IInv'
<1>1. PICK label \in {"wait", "idle"} : GoTo(p, label)
  BY DEF Fault, GiveUp
<1>2. label \in Labels \ Sections /\ label # "asleep" /\ label \notin {"closed", "opening"}
  BY DEF Labels, Sections, Waiting
<1>3. TypeOK /\ SemInv /\ queue \subseteq Procs
  BY DEF IInv, TypeOK
<1>4. /\ pc[p] = "moving" /\ pc[p] \in Sections /\ sem' = NULL
      /\ UNCHANGED <<allocated, ring, counts, moved>> /\ queue' = queue
  BY DEF Fault, GiveUp, Sections
<1>5. SemInv'
  BY <1>1, <1>2, <1>3, <1>4, SemUp
<1> QED
  BY <1>1, <1>2, <1>3, <1>4, <1>5, Calm

LEMMA WaitPreserves ==
  ASSUME IInv, NEW p \in Procs,
         Prepare(p) \/ TestAgain(p) \/ Awake(p) \/ Interrupted(p)
  PROVE  IInv'
<1>1. PICK label \in {"queued", "lock", "asleep", "wait", "idle"} :
        GoTo(p, label) /\ (label = "asleep" => ~CanMove(p))
  BY DEF Prepare, TestAgain, Awake, Interrupted
<1>2. label \in Labels \ Sections /\ label \notin {"closed", "opening"}
  BY DEF Labels, Sections, Waiting
<1>3. TypeOK /\ SemInv /\ queue \subseteq Procs /\ sem \in Procs \cup {NULL}
  BY DEF IInv, TypeOK
<1>4. /\ pc[p] \notin Sections \cup {"closed", "opening", "wake"} /\ sem' = sem
      /\ UNCHANGED <<allocated, ring, counts, moved>>
      /\ \A q \in Procs : q # p /\ q \in queue' => q \in queue
      /\ queue' \subseteq queue \cup {p}
  BY DEF Prepare, TestAgain, Awake, Interrupted, Sections
<1>5. SemInv'
  BY <1>1, <1>2, <1>3, <1>4, SemKept
<1>6. queue' \subseteq Procs
  BY <1>3, <1>4
<1> QED
  BY <1>1, <1>2, <1>3, <1>4, <1>5, <1>6, Calm

-----------------------------------------------------------------------------
(* The wake-up: whoever was to be woken by p is of the other side, and has *)
(* left the queue.                                                         *)

LEMMA WakePreserves == ASSUME IInv, NEW p \in Procs, Wake(p) PROVE IInv'
<1>1. TypeOK /\ SemInv /\ CountInv /\ WindowInv /\ NobodyStranded
  BY DEF IInv
<1>2. /\ pc[p] = "wake" /\ GoTo(p, "idle") /\ WakeOther(p)
      /\ UNCHANGED <<sem, allocated, ring, counts, moved>>
  BY DEF Wake
<1>3. "idle" \in Labels \ Sections /\ pc[p] \notin Sections \cup {"closed", "opening"}
  BY <1>2 DEF Labels, Sections
<1>4. TypeOK'
  BY <1>1, <1>2, <1>3, Moves DEF TypeOK, Labels, ring, counts, WakeOther
<1>5. SemInv'
  BY <1>1, <1>2, <1>3, SemKept
<1>6. CountInv'
  BY <1>1, <1>2, <1>3, CountKept
<1>7. WindowInv'
  BY <1>1, <1>2 DEF WindowInv, Written, ring
<1>8. ASSUME NEW q \in Procs, pc'[q] = "asleep", q \in queue', CanMove(q)'
      PROVE  \/ \E r \in Procs : pc'[r] = "wake" /\ (r \in Readers <=> q \notin Readers)
             \/ q \in Writers /\ rp' = 0
  <2>1. q # p /\ pc[q] = "asleep" /\ q \in queue /\ CanMove(q) /\ rp' = rp
    BY <1>1, <1>2, <1>3, <1>8, Moves DEF WakeOther, CanMove, SpaceFree, ring
  <2>2. p \in Readers <=> q \in Readers
    BY <1>2, <1>8, ProcessAssumption DEF WakeOther, Procs
  <2>3. CASE q \in Writers /\ rp = 0
    BY <2>1, <2>3
  <2>4. CASE \E r \in Procs : pc[r] = "wake" /\ (r \in Readers <=> q \notin Readers)
    <3>1. PICK r \in Procs : pc[r] = "wake" /\ (r \in Readers <=> q \notin Readers)
      BY <2>4
    <3>2. pc'[r] = "wake"
      BY <1>1, <1>2, <1>3, <2>2, <3>1, Moves
    <3> QED
      BY <3>1, <3>2
  <2> QED
    BY <1>1, <2>1, <2>3, <2>4 DEF NobodyStranded
<1> QED
  BY <1>4, <1>5, <1>6, <1>7, <1>8 DEF IInv, NobodyStranded

-----------------------------------------------------------------------------
(* Open and close.                                                         *)

LEMMA OpenPreserves == ASSUME IInv, NEW p \in Procs, Open(p) PROVE IInv'
<1>1. TypeOK /\ SemInv /\ CountInv /\ WindowInv /\ NobodyStranded
  BY DEF IInv
<1>2. pc[p] = "opening" /\ pc[p] \in Sections /\ sem' = NULL /\ UNCHANGED <<queue, moved>>
  BY DEF Open, Sections
<1>3. CASE GoTo(p, "closed") /\ UNCHANGED <<allocated, ring, counts>>
  <2>1. "closed" \in Labels \ Sections
    BY DEF Labels, Sections
  <2>2. SemInv'
    BY <1>1, <1>2, <1>3, <2>1, SemUp
  <2>3. queue \subseteq Procs
    BY <1>1 DEF TypeOK
  <2> QED
    BY <1>1, <1>2, <1>3, <2>1, <2>2, <2>3, Calm
<1>4. CASE /\ allocated' = TRUE
           /\ rp' = 0 /\ wp' = 0 /\ contents' = Empty
           /\ nreaders' = nreaders + (IF p \in Readers THEN 1 ELSE 0)
           /\ nwriters' = nwriters + (IF p \in Writers THEN 1 ELSE 0)
           /\ GoTo(p, "idle")
  <2>1. "idle" \in Labels \ Sections
    BY DEF Labels, Sections
  <2>2. SemInv'
    BY <1>1, <1>2, <1>4, <2>1, SemUp
  <2>3. Empty \in [Slots -> Bytes \cup {Junk}] /\ 0 \in Slots
    BY SizeAssumption DEF Empty, Slots
  <2>4. TypeOK'
    BY <1>1, <1>2, <1>4, <2>1, <2>3, Moves DEF TypeOK, Labels
  <2>5. /\ nreaders' = Cardinality(Opened(Readers)')
        /\ nwriters' = Cardinality(Opened(Writers)')
    BY <1>1, <1>2, <1>4, <2>1, OpenedMore DEF CountInv, Procs
  <2>6. nreaders' + nwriters' # 0
    BY <1>1, <1>4 DEF TypeOK, Procs
  <2>7. CountInv'
    BY <1>4, <2>5, <2>6 DEF CountInv
  <2>8. WindowInv'
    BY <1>4 DEF WindowInv, Written, Slots
  <2>9. NobodyStranded'
    BY <1>4 DEF NobodyStranded, CanMove, Procs
  <2> QED
    BY <2>2, <2>4, <2>7, <2>8, <2>9 DEF IInv
<1> QED
  BY <1>3, <1>4 DEF Open

LEMMA ReleasePreserves == ASSUME IInv, NEW p \in Procs, Release(p) PROVE IInv'
<1>1. TypeOK /\ SemInv /\ CountInv /\ WindowInv /\ NobodyStranded
  BY DEF IInv
<1>2. /\ pc[p] = "releasing" /\ pc[p] \in Sections /\ sem' = NULL
      /\ nreaders' = nreaders - (IF p \in Readers THEN 1 ELSE 0)
      /\ nwriters' = nwriters - (IF p \in Writers THEN 1 ELSE 0)
      /\ allocated' = (allocated /\ nreaders' + nwriters' # 0)
      /\ GoTo(p, "closed") /\ UNCHANGED <<ring, queue, moved>>
  BY DEF Release, Sections, NobodyLeft
<1>3. "closed" \in Labels \ Sections
  BY DEF Labels, Sections
<1>4. SemInv'
  BY <1>1, <1>2, <1>3, SemUp
<1>5. /\ nreaders' = Cardinality(Opened(Readers)')
      /\ nwriters' = Cardinality(Opened(Writers)')
  BY <1>1, <1>2, <1>3, OpenedLess DEF CountInv, Procs
<1>6. Cardinality(Opened(Readers)') \in Nat /\ Cardinality(Opened(Writers)') \in Nat
  <2>1. Opened(Readers)' \subseteq Procs /\ Opened(Writers)' \subseteq Procs
    BY DEF Opened, Procs
  <2> QED
    BY <2>1, ProcessAssumption, FS_Subset, FS_CardinalityType
<1>7. nreaders + nwriters # 0
  BY <1>1, <1>2, <1>5, <1>6 DEF TypeOK, Procs
<1>8. CountInv'
  BY <1>1, <1>2, <1>5, <1>7 DEF CountInv
<1>9. TypeOK'
  <2>1. allocated' \in BOOLEAN /\ nreaders' \in Nat /\ nwriters' \in Nat
    BY <1>2, <1>5, <1>6
  <2> QED
    BY <1>1, <1>2, <1>3, <2>1, Moves DEF TypeOK, Labels, ring
<1>10. WindowInv'
  BY <1>1, <1>2 DEF WindowInv, Written, ring
<1>11. NobodyStranded'
  BY <1>1, <1>2, <1>3, StrandedKept
<1> QED
  BY <1>4, <1>8, <1>9, <1>10, <1>11 DEF IInv

-----------------------------------------------------------------------------
(* Reads and writes: the arithmetic of the circular buffer.                *)

LEMMA Wrap ==
  ASSUME NEW a \in Nat, a < 2 * Size
  PROVE  a % Size = IF a < Size THEN a ELSE a - Size
<1>1. ASSUME NEW n \in Nat \ {0}, a < 2 * n
      PROVE  a % n = IF a < n THEN a ELSE a - n
  BY <1>1, SMTT(30)
<1> QED
  BY <1>1, SizeAssumption

\* The space that is free, without the remainder.
LEMMA Free ==
  ASSUME rp \in Slots, wp \in Slots
  PROVE  SpaceFree = IF rp <= wp THEN Size - 1 - (wp - rp) ELSE rp - wp - 1
<1>1. CASE rp = wp
  BY <1>1, SizeAssumption DEF SpaceFree, Slots
<1>2. CASE rp # wp
  <2>1. rp + Size - wp \in Nat /\ rp + Size - wp < 2 * Size
    BY SizeAssumption DEF Slots
  <2>2. (rp + Size - wp) % Size = IF rp + Size - wp < Size THEN rp + Size - wp ELSE rp - wp
    BY <2>1, Wrap, SizeAssumption DEF Slots
  <2> QED
    BY <1>2, <2>2, SizeAssumption DEF SpaceFree, Slots
<1> QED
  BY <1>1, <1>2

LEMMA Room ==
  ASSUME rp \in Slots, wp \in Slots, NEW n \in 1..Writable
  PROVE  /\ n \in Nat \ {0} /\ wp + n <= Size
         /\ IF rp <= wp THEN n <= Size - 1 - (wp - rp) ELSE n <= rp - wp - 1
BY Free, SizeAssumption DEF Writable, Slots

LEMMA Content ==
  ASSUME rp \in Slots, wp \in Slots, rp # wp, NEW n \in 1..Readable
  PROVE  /\ n \in Nat \ {0} /\ rp + n <= Size
         /\ rp < wp => rp + n <= wp
         /\ \A i \in 1..n : rp + i - 1 \in Slots /\ Written(rp + i - 1)
BY SizeAssumption DEF Readable, Slots, Written

LEMMA Advanced ==
  ASSUME NEW i \in Slots, NEW n \in Nat \ {0}, i + n <= Size
  PROVE  /\ Advance(i, n) \in Slots
         /\ Advance(i, n) = IF i + n = Size THEN 0 ELSE i + n
BY SizeAssumption DEF Advance, Slots

\* What a read returns, and where it leaves the buffer.
LEMMA TakeEffect ==
  ASSUME TypeOK, WindowInv, rp # wp, NEW n \in 1..Readable, Take(n)
  PROVE  /\ moved' \in Seq(Bytes) /\ Len(moved') = n
         /\ \A i \in 1..n : moved'[i] = contents[rp + i - 1]
         /\ rp' \in Slots /\ WindowInv'
<1> DEFINE chunk == [i \in 1..Readable |-> contents[rp + i - 1]]
<1>1. /\ rp \in Slots /\ wp \in Slots /\ n \in Nat \ {0} /\ rp + n <= Size
      /\ rp < wp => rp + n <= wp
  BY Content DEF TypeOK
<1>2. chunk \in Seq(Bytes) /\ Len(chunk) = Readable /\ n <= Readable /\ Readable \in Nat
  <2>1. Readable \in Nat /\ Readable \in 1..Readable
    BY <1>1, SizeAssumption DEF Readable, Slots
  <2>2. \A i \in 1..Readable : contents[rp + i - 1] \in Bytes
    BY <1>1, <2>1, Content DEF WindowInv
  <2>3. chunk \in [1..Readable -> Bytes]
    BY <2>2
  <2> QED
    BY <2>1, <2>3
<1>3. moved' = SubSeq(chunk, 1, n)
  BY DEF Take
<1>4. moved' \in Seq(Bytes) /\ Len(moved') = n /\ \A i \in 1..n : moved'[i] = chunk[i]
  <2> HIDE DEF chunk
  <2> QED
    BY <1>1, <1>2, <1>3
<1>5. \A i \in 1..n : chunk[i] = contents[rp + i - 1]
  BY <1>1, <1>2
<1>6. rp' = (IF rp + n = Size THEN 0 ELSE rp + n) /\ rp' \in Slots
  BY <1>1, Advanced DEF Take
<1>7. WindowInv'
  BY <1>1, <1>6, SizeAssumption DEF WindowInv, Written, Take, Slots
<1> QED
  BY <1>4, <1>5, <1>6, <1>7

\* What a write leaves in the buffer.
LEMMA PutEffect ==
  ASSUME TypeOK, WindowInv, NEW n \in 1..Writable, Put(n)
  PROVE  /\ moved' \in [1..n -> Bytes] /\ moved' \in Seq(Bytes) /\ Len(moved') = n
         /\ contents' \in [Slots -> Bytes \cup {Junk}]
         /\ wp' \in Slots /\ WindowInv'
         /\ \A i \in Slots : contents'[i] = IF i \in wp..wp+n-1 THEN moved'[i - wp + 1]
                                                                ELSE contents[i]
<1>1. /\ rp \in Slots /\ wp \in Slots /\ n \in Nat \ {0} /\ wp + n <= Size
      /\ IF rp <= wp THEN n <= Size - 1 - (wp - rp) ELSE n <= rp - wp - 1
  BY Room DEF TypeOK
<1>2. moved' \in [1..n -> Bytes] /\ moved' \in Seq(Bytes) /\ Len(moved') = n
  BY <1>1 DEF Put
<1>3. \A i \in Slots : contents'[i] = IF i \in wp..wp+n-1 THEN moved'[i - wp + 1]
                                                          ELSE contents[i]
  BY DEF Put
<1>4. \A i \in wp..wp+n-1 : i - wp + 1 \in 1..n
  BY <1>1 DEF Slots
<1>5. contents' \in [Slots -> Bytes \cup {Junk}]
  BY <1>2, <1>4 DEF Put, TypeOK
<1>6. wp' = (IF wp + n = Size THEN 0 ELSE wp + n) /\ wp' \in Slots
  BY <1>1, Advanced DEF Put
<1>7. \A i \in Slots : Written(i)' => Written(i) \/ i \in wp..wp+n-1
  BY <1>1, <1>6, SizeAssumption DEF Written, Put, Slots
<1>8. WindowInv'
  BY <1>2, <1>3, <1>4, <1>7 DEF WindowInv
<1> QED
  BY <1>2, <1>3, <1>5, <1>6, <1>8

\* A process that moves bytes serves its own side no less than before.
LEMMA MoveSameSide ==
  ASSUME TypeOK, NEW p \in Procs, Move(p), NEW q \in Procs,
         p \in Readers <=> q \in Readers
  PROVE  CanMove(q) /\ (p \in Writers => rp' = rp)
BY ProcessAssumption DEF Move, CanMove, Put, Procs

LEMMA MovePreserves == ASSUME IInv, NEW p \in Procs, Move(p) PROVE IInv'
<1>1. TypeOK /\ SemInv /\ CountInv /\ WindowInv /\ NobodyStranded
  BY DEF IInv
<1>2. /\ pc[p] = "moving" /\ pc[p] \in Sections /\ sem' = NULL /\ CanMove(p)
      /\ GoTo(p, "wake") /\ UNCHANGED <<allocated, counts, queue>>
  BY DEF Move, Sections
<1>3. "wake" \in Labels \ Sections
  BY DEF Labels, Sections
<1>4. SemInv'
  BY <1>1, <1>2, <1>3, SemUp
<1>5. CountInv'
  BY <1>1, <1>2, <1>3, CountKept
<1>6. /\ moved' \in Seq(Bytes) /\ rp' \in Slots /\ wp' \in Slots
      /\ contents' \in [Slots -> Bytes \cup {Junk}] /\ WindowInv'
  <2>1. CASE p \in Readers
    <3>1. PICK n \in 1..Readable : Take(n)
      BY <2>1 DEF Move
    <3>2. rp # wp
      BY <1>2, <2>1 DEF CanMove
    <3> QED
      BY <1>1, <3>1, <3>2, TakeEffect DEF Take, TypeOK
  <2>2. CASE p \notin Readers
    <3>1. PICK n \in 1..Writable : Put(n)
      BY <2>2 DEF Move
    <3> QED
      BY <1>1, <3>1, PutEffect DEF Put, TypeOK
  <2> QED
    BY <2>1, <2>2
<1>7. TypeOK'
  BY <1>1, <1>2, <1>3, <1>6, Moves DEF TypeOK, Labels, counts
<1>8. ASSUME NEW q \in Procs, pc'[q] = "asleep", q \in queue', CanMove(q)'
      PROVE  \/ \E r \in Procs : pc'[r] = "wake" /\ (r \in Readers <=> q \notin Readers)
             \/ q \in Writers /\ rp' = 0
  <2>1. CASE p \in Readers <=> q \notin Readers
    BY <1>1, <1>2, <1>3, <2>1, Moves
  <2>2. CASE p \in Readers <=> q \in Readers
    <3>1. q # p /\ pc[q] = "asleep" /\ q \in queue /\ CanMove(q)
      BY <1>1, <1>2, <1>3, <1>8, <2>2, Moves, MoveSameSide
    <3>2. CASE q \in Writers /\ rp = 0
      BY <1>1, <2>2, <3>2, MoveSameSide, ProcessAssumption DEF Procs
    <3>3. CASE \E r \in Procs : pc[r] = "wake" /\ (r \in Readers <=> q \notin Readers)
      <4>1. PICK r \in Procs : pc[r] = "wake" /\ (r \in Readers <=> q \notin Readers)
        BY <3>3
      <4>2. pc'[r] = "wake"
        BY <1>1, <1>2, <1>3, <2>2, <4>1, Moves
      <4> QED
        BY <4>1, <4>2
    <3> QED
      BY <1>1, <3>1, <3>2, <3>3 DEF NobodyStranded
  <2> QED
    BY <2>1, <2>2
<1> QED
  BY <1>4, <1>5, <1>6, <1>7, <1>8 DEF IInv, NobodyStranded

-----------------------------------------------------------------------------
(* The inductive invariant, and what it gives.                             *)

LEMMA InitIInv == ASSUME Init PROVE IInv
<1>1. TypeOK
  <2>1. contents \in [Slots -> Bytes \cup {Junk}] /\ 0 \in Slots
    BY SizeAssumption DEF Init, Empty, Slots
  <2>2. pc \in [Procs -> {"closed", "idle", "wake"} \cup Sections \cup Waiting]
    BY DEF Init
  <2>3. moved \in Seq(Bytes) /\ nreaders \in Nat /\ nwriters \in Nat
    BY DEF Init
  <2> QED
    BY <2>1, <2>2, <2>3 DEF Init, TypeOK
<1>2. SemInv
  BY ProcessAssumption DEF Init, SemInv, Sections
<1>3. CountInv
  <2>1. Opened(Readers) = {} /\ Opened(Writers) = {}
    BY DEF Init, Opened, Procs
  <2> QED
    BY <2>1, FS_EmptySet DEF Init, CountInv
<1>4. WindowInv
  BY SizeAssumption DEF Init, WindowInv, Written, Slots
<1>5. NobodyStranded
  BY DEF Init, NobodyStranded
<1> QED
  BY <1>1, <1>2, <1>3, <1>4, <1>5 DEF IInv

LEMMA StutterPreserves == ASSUME IInv, UNCHANGED vars PROVE IInv'
<1>1. TypeOK' /\ SemInv' /\ CountInv'
  BY DEF IInv, TypeOK, SemInv, CountInv, Opened, vars, ring, counts
<1>2. WindowInv' /\ NobodyStranded'
  BY DEF IInv, WindowInv, Written, NobodyStranded, CanMove, SpaceFree, vars, ring
<1> QED
  BY <1>1, <1>2 DEF IInv

LEMMA NextIInv == ASSUME IInv, [Next]_vars PROVE IInv'
<1>1. ASSUME NEW p \in Procs,
             OpenDown(p) \/ MoveDown(p) \/ ReleaseDown(p) \/ LockAgain(p)
      PROVE  IInv'
  BY <1>1, DownPreserves
<1>2. ASSUME NEW p \in Procs, Body(p) PROVE IInv'
  BY <1>2, OpenPreserves, ReleasePreserves, MovePreserves, UpPreserves,
     WakePreserves, WaitPreserves DEF Body
<1>3. ASSUME NEW p \in Procs, Interrupted(p) PROVE IInv'
  BY <1>3, WaitPreserves
<1> QED
  BY <1>1, <1>2, <1>3, StutterPreserves DEF Next

(* The inductive invariant: who has the semaphore, how many have the       *)
(* device open, which bytes have been written, and who may still sleep.    *)
THEOREM InductiveInvariant == Spec => []IInv
<1>1. Init => IInv
  BY InitIInv
<1>2. IInv /\ [Next]_vars => IInv'
  BY NextIInv
<1> QED
  BY <1>1, <1>2, PTL DEF Spec

\* The counts are zero when nobody has the device open, and only then.
LEMMA CountsSayWhoIsThere == ASSUME IInv PROVE BufferWhileOpen
<1>1. Opened(Procs) = Opened(Readers) \cup Opened(Writers)
  BY DEF Opened, Procs
<1>2. (nreaders # 0 <=> Opened(Readers) # {}) /\ (nwriters # 0 <=> Opened(Writers) # {})
  <2>1. IsFiniteSet(Opened(Readers)) /\ IsFiniteSet(Opened(Writers))
    BY OpenedFinite DEF Procs
  <2>2. /\ Cardinality(Opened(Readers)) = 0 <=> Opened(Readers) = {}
        /\ Cardinality(Opened(Writers)) = 0 <=> Opened(Writers) = {}
    BY <2>1, FS_EmptySet
  <2> QED
    BY <2>2 DEF IInv, CountInv
<1>3. allocated <=> Opened(Procs) # {}
  <2>1. nreaders \in Nat /\ nwriters \in Nat /\ (allocated <=> nreaders + nwriters # 0)
    BY DEF IInv, CountInv, TypeOK
  <2>2. allocated <=> nreaders # 0 \/ nwriters # 0
    BY <2>1
  <2>3. Opened(Procs) # {} <=> Opened(Readers) # {} \/ Opened(Writers) # {}
    BY <1>1
  <2> QED
    BY <1>2, <2>2, <2>3
<1> QED
  BY <1>3 DEF BufferWhileOpen, Opened

(* The pipe is safe: its buffer is there while, and only while, somebody   *)
(* has it open, and no sleeper is forgotten but the writer that an open    *)
(* has put in front of an empty buffer.                                    *)
THEOREM PipeSafeHolds == Spec => []PipeSafe
<1>1. IInv => PipeSafe
  BY CountsSayWhoIsThere DEF IInv, PipeSafe
<1> QED
  BY <1>1, InductiveInvariant, PTL

-----------------------------------------------------------------------------
(* The pipe is a stream.  HeldIn is what a buffer c holds between r and w, *)
(* the sequence that the refinement mapping puts for the stream.           *)

HeldIn(c, r, w) == [i \in 1..((w + Size - r) % Size) |-> c[(r + i - 1) % Size]]
Held == HeldIn(contents, rp, wp)
Cells == Bytes \cup {Junk}

LEMMA HeldIs ==
  ASSUME NEW c \in [Slots -> Cells], NEW r \in Slots, NEW w \in Slots
  PROVE  /\ HeldIn(c, r, w) \in Seq(Cells)
         /\ Len(HeldIn(c, r, w)) = IF r <= w THEN w - r ELSE w + Size - r
         /\ \A i \in 1..Len(HeldIn(c, r, w)) :
              HeldIn(c, r, w)[i] = c[IF r + i - 1 < Size THEN r + i - 1 ELSE r + i - 1 - Size]
<1> DEFINE used == IF r <= w THEN w - r ELSE w + Size - r
<1>1. used \in 0..Size-1
  BY SizeAssumption DEF Slots
<1>2. (w + Size - r) % Size = used
  <2> DEFINE a == w + Size - r
  <2>1. a \in Nat /\ a < 2 * Size /\ used = IF a < Size THEN a ELSE a - Size
    BY SizeAssumption DEF Slots
  <2> HIDE DEF a, used
  <2>2. a % Size = IF a < Size THEN a ELSE a - Size
    BY <2>1, Wrap
  <2> QED
    BY <2>1, <2>2 DEF a
<1>3. ASSUME NEW i \in 1..used
      PROVE  /\ (r + i - 1) % Size = IF r + i - 1 < Size THEN r + i - 1 ELSE r + i - 1 - Size
             /\ (r + i - 1) % Size \in Slots
  <2> DEFINE a == r + i - 1
  <2>1. a \in Nat /\ a < 2 * Size
    BY <1>1, SizeAssumption DEF Slots
  <2> HIDE DEF a, used
  <2>2. a % Size = IF a < Size THEN a ELSE a - Size
    BY <2>1, Wrap
  <2>3. a % Size \in Slots
    BY <2>1, <2>2, SizeAssumption DEF Slots
  <2>4. a = r + i - 1
    BY DEF a
  <2>5. (r + i - 1) % Size = IF r + i - 1 < Size THEN r + i - 1 ELSE r + i - 1 - Size
    <3>1. r \in Int /\ i \in Int /\ Size \in Int
      BY <1>1, SizeAssumption DEF Slots, used
    <3> QED
      BY <2>1, <2>2, <2>4, <3>1
  <2>6. (r + i - 1) % Size \in Slots
    BY <2>3, <2>4
  <2> QED
    BY <2>5, <2>6
<1> HIDE DEF used
<1>4. HeldIn(c, r, w) = [i \in 1..used |-> c[(r + i - 1) % Size]]
  BY <1>2 DEF HeldIn
<1>5. HeldIn(c, r, w) \in [1..used -> Cells]
  BY <1>3, <1>4
<1>6. HeldIn(c, r, w) \in Seq(Cells) /\ Len(HeldIn(c, r, w)) = used
  BY <1>1, <1>5
<1> QED
  BY <1>3, <1>4, <1>6 DEF used

LEMMA NothingHeld ==
  ASSUME NEW c \in [Slots -> Cells] PROVE HeldIn(c, 0, 0) = <<>>
<1>1. 0 \in Slots
  BY SizeAssumption DEF Slots
<1>2. HeldIn(c, 0, 0) \in Seq(Cells) /\ Len(HeldIn(c, 0, 0)) = 0
  BY <1>1, HeldIs
<1> QED
  BY <1>2, EmptySeq

\* A read takes the first n bytes away.
LEMMA HeldAfterTake ==
  ASSUME NEW c \in [Slots -> Cells], NEW r \in Slots, NEW w \in Slots,
         NEW n \in Nat \ {0}, r # w, r + n <= Size, r < w => r + n <= w,
         NEW s \in Slots, s = IF r + n = Size THEN 0 ELSE r + n
  PROVE  /\ n \in 1..Len(HeldIn(c, r, w))
         /\ HeldIn(c, s, w) = SubSeq(HeldIn(c, r, w), n + 1, Len(HeldIn(c, r, w)))
<1> DEFINE held == HeldIn(c, r, w)
           left == HeldIn(c, s, w)
           rest == SubSeq(held, n + 1, Len(held))
<1>1. /\ held \in Seq(Cells) /\ Len(held) = IF r <= w THEN w - r ELSE w + Size - r
      /\ \A i \in 1..Len(held) :
           held[i] = c[IF r + i - 1 < Size THEN r + i - 1 ELSE r + i - 1 - Size]
  BY HeldIs
<1>2. /\ left \in Seq(Cells) /\ Len(left) = IF s <= w THEN w - s ELSE w + Size - s
      /\ \A i \in 1..Len(left) :
           left[i] = c[IF s + i - 1 < Size THEN s + i - 1 ELSE s + i - 1 - Size]
  BY HeldIs
<1> HIDE DEF held, left
<1>3. /\ Len(held) \in Nat /\ n \in 1..Len(held)
      /\ Len(left) = Len(held) - n
  BY <1>1, <1>2, SizeAssumption DEF Slots
<1>4. /\ rest \in Seq(Cells) /\ Len(rest) = Len(held) - n
      /\ \A i \in 1..Len(held) - n : rest[i] = held[n + i]
  <2>1. \A i \in n+1..Len(held) : held[i] \in Cells
    BY <1>1, <1>3, ElementOfSeq
  <2>2. n + 1 \in Int /\ Len(held) \in Int
    BY <1>3
  <2>3. /\ rest \in Seq(Cells)
        /\ Len(rest) = IF n + 1 <= Len(held) THEN Len(held) - (n + 1) + 1 ELSE 0
        /\ \A i \in 1..Len(held) - (n + 1) + 1 : rest[i] = held[n + 1 + i - 1]
    BY <2>1, <2>2, SubSeqProperties
  <2> HIDE DEF rest
  <2>4. Len(held) - (n + 1) + 1 = Len(held) - n /\ \A i \in Int : n + 1 + i - 1 = n + i
    BY <1>3
  <2> QED
    BY <1>3, <2>3, <2>4
<1> HIDE DEF rest
<1>5. ASSUME NEW i \in 1..Len(left) PROVE left[i] = rest[i]
  <2>1. rest[i] = held[n + i] /\ n + i \in 1..Len(held)
    BY <1>3, <1>4
  <2>2. held[n + i] = c[IF r + (n + i) - 1 < Size THEN r + (n + i) - 1
                                                  ELSE r + (n + i) - 1 - Size]
    BY <1>1, <2>1
  <2>3. (IF r + (n + i) - 1 < Size THEN r + (n + i) - 1 ELSE r + (n + i) - 1 - Size)
          = (IF s + i - 1 < Size THEN s + i - 1 ELSE s + i - 1 - Size)
    BY <1>2, SizeAssumption DEF Slots
  <2> QED
    BY <1>2, <2>1, <2>2, <2>3
<1>6. left = rest
  BY <1>2, <1>3, <1>4, <1>5, SeqEqual
<1> QED
  BY <1>3, <1>6 DEF held, left, rest

\* A write appends its n bytes.
PutAt(c, e, r, w, v, n, data) ==
  /\ w + n <= Size /\ v = IF w + n = Size THEN 0 ELSE w + n
  /\ IF r <= w THEN n <= Size - 1 - (w - r) ELSE n <= r - w - 1
  /\ Len(data) = n
  /\ \A i \in Slots : e[i] = IF i \in w..w+n-1 THEN data[i - w + 1] ELSE c[i]

LEMMA HeldAfterPut ==
  ASSUME NEW c \in [Slots -> Cells], NEW e \in [Slots -> Cells],
         NEW r \in Slots, NEW w \in Slots, NEW v \in Slots,
         NEW n \in Nat \ {0}, NEW data \in Seq(Cells), PutAt(c, e, r, w, v, n, data)
  PROVE  /\ n \in 1..(Size - 1) - Len(HeldIn(c, r, w))
         /\ HeldIn(e, r, v) = HeldIn(c, r, w) \o data
<1> DEFINE held == HeldIn(c, r, w)
           more == HeldIn(e, r, v)
           both == held \o data
<1>1. /\ held \in Seq(Cells) /\ Len(held) = IF r <= w THEN w - r ELSE w + Size - r
      /\ \A i \in 1..Len(held) :
           held[i] = c[IF r + i - 1 < Size THEN r + i - 1 ELSE r + i - 1 - Size]
  BY HeldIs
<1>2. /\ more \in Seq(Cells) /\ Len(more) = IF r <= v THEN v - r ELSE v + Size - r
      /\ \A i \in 1..Len(more) :
           more[i] = e[IF r + i - 1 < Size THEN r + i - 1 ELSE r + i - 1 - Size]
  BY HeldIs
<1> HIDE DEF held, more
<1>3. /\ w + n <= Size /\ v = IF w + n = Size THEN 0 ELSE w + n
      /\ IF r <= w THEN n <= Size - 1 - (w - r) ELSE n <= r - w - 1
      /\ Len(data) = n
      /\ \A i \in Slots : e[i] = IF i \in w..w+n-1 THEN data[i - w + 1] ELSE c[i]
  BY DEF PutAt
<1>4. /\ Len(held) = IF r <= w THEN w - r ELSE w + Size - r
      /\ Len(more) = IF r <= v THEN v - r ELSE v + Size - r
  BY <1>1, <1>2
<1>5. /\ Len(held) \in Nat /\ n \in 1..(Size - 1) - Len(held)
      /\ Len(more) = Len(held) + n
  BY <1>3, <1>4, SizeAssumption DEF Slots
<1>6. /\ both \in Seq(Cells) /\ Len(both) = Len(held) + n
      /\ \A i \in 1..Len(held) + n :
           both[i] = IF i <= Len(held) THEN held[i] ELSE data[i - Len(held)]
  <2>1. held \in Seq(Cells)
    BY <1>1
  <2>2. /\ both \in Seq(Cells) /\ Len(both) = Len(held) + Len(data)
        /\ \A i \in 1..Len(held) + Len(data) :
             both[i] = IF i <= Len(held) THEN held[i] ELSE data[i - Len(held)]
    BY <2>1, ConcatProperties
  <2> HIDE DEF both
  <2> QED
    BY <1>3, <2>2
<1> HIDE DEF both
<1>7. ASSUME NEW i \in 1..Len(more) PROVE more[i] = both[i]
  <2> DEFINE slot == IF r + i - 1 < Size THEN r + i - 1 ELSE r + i - 1 - Size
  <2>1. more[i] = e[slot]
    BY <1>2
  <2>2. slot \in Slots /\ Len(held) \in Nat /\ i \in Nat \ {0}
    BY <1>5, <1>4, SizeAssumption DEF Slots
  <2>3. CASE i <= Len(held)
    <3>1. slot \notin w..w+n-1
      BY <1>5, <1>3, <1>4, <2>2, <2>3, SizeAssumption DEF Slots
    <3>2. e[slot] = c[slot]
      BY <1>3, <2>2, <3>1
    <3>3. held[i] = c[slot]
      BY <1>1, <2>2, <2>3
    <3> QED
      BY <1>5, <1>6, <2>1, <2>3, <3>2, <3>3
  <2>4. CASE i > Len(held)
    <3>1. slot = w + (i - Len(held)) - 1 /\ slot \in w..w+n-1
      <4>1. CASE r <= w
        BY <1>5, <1>3, <1>4, <2>2, <2>4, <4>1, SizeAssumption DEF Slots
      <4>2. CASE r > w
        BY <1>5, <1>3, <1>4, <2>2, <2>4, <4>2, SizeAssumption DEF Slots
      <4> QED
        BY <4>1, <4>2 DEF Slots
    <3> HIDE DEF slot
    <3>2. e[slot] = data[slot - w + 1] /\ slot - w + 1 = i - Len(held)
      <4>1. slot - w + 1 = i - Len(held)
        BY <2>2, <3>1 DEF Slots
      <4> QED
        BY <1>3, <2>2, <3>1, <4>1
    <3> QED
      BY <1>5, <1>6, <2>1, <2>2, <2>4, <3>2
  <2> QED
    BY <2>2, <2>3, <2>4
<1>8. more = both
  BY <1>2, <1>5, <1>6, <1>7, SeqEqual
<1> QED
  BY <1>5, <1>8 DEF held, more, both

LEMMA Mapping == Held = [i \in 1..Used |-> contents[(rp + i - 1) % Size]]
BY DEF Held, HeldIn, Used

LEMMA Buffer ==
  ASSUME TypeOK
  PROVE  contents \in [Slots -> Cells] /\ rp \in Slots /\ wp \in Slots
BY DEF TypeOK, Cells

\* A step that leaves the buffer alone is none of the stream.
LEMMA StreamStutters ==
  ASSUME UNCHANGED ring, UNCHANGED moved PROVE UNCHANGED Stream!svars
BY DEF ring, Stream!svars, Used

LEMMA TakeIsTake ==
  ASSUME TypeOK, WindowInv, rp # wp, NEW n \in 1..Readable, Take(n)
  PROVE  Stream!Take
<1>1. contents \in [Slots -> Cells] /\ rp \in Slots /\ wp \in Slots
  BY Buffer
<1>2. n \in Nat \ {0} /\ rp + n <= Size /\ (rp < wp => rp + n <= wp)
  BY <1>1, Content
<1>3. rp' \in Slots /\ rp' = IF rp + n = Size THEN 0 ELSE rp + n
  BY <1>1, <1>2, Advanced DEF Take
<1>4. /\ n \in 1..Len(Held)
      /\ HeldIn(contents, rp', wp) = SubSeq(Held, n + 1, Len(Held))
  <2>1. /\ n \in 1..Len(HeldIn(contents, rp, wp))
        /\ HeldIn(contents, rp', wp) =
             SubSeq(HeldIn(contents, rp, wp), n + 1, Len(HeldIn(contents, rp, wp)))
    <3>1. n \in 1..Len(HeldIn(contents, rp, wp))
      BY <1>1, <1>2, <1>3, HeldAfterTake
    <3>2. HeldIn(contents, rp', wp) =
            SubSeq(HeldIn(contents, rp, wp), n + 1, Len(HeldIn(contents, rp, wp)))
      BY <1>1, <1>2, <1>3, HeldAfterTake
    <3> QED
      BY <3>1, <3>2
  <2> QED
    BY <2>1 DEF Held
<1>5. Held' = SubSeq(Held, n + 1, Len(Held))
  BY <1>4 DEF Held, Take
<1>6. moved' = SubSeq(Held, 1, n)
  <2> DEFINE first == SubSeq(Held, 1, n)
  <2>1. /\ Held \in Seq(Cells)
        /\ \A i \in 1..Len(Held) :
             Held[i] = contents[IF rp + i - 1 < Size THEN rp + i - 1 ELSE rp + i - 1 - Size]
    BY <1>1, HeldIs DEF Held
  <2>2. first \in Seq(Cells) /\ Len(first) = n /\ \A i \in 1..n : first[i] = Held[i]
    <3>1. \A i \in 1..n : Held[i] \in Cells
      BY <1>4, <2>1, ElementOfSeq
    <3> QED
      BY <1>2, <3>1, SubSeqProperties
  <2>3. moved' \in Seq(Cells) /\ Len(moved') = n /\ \A i \in 1..n : moved'[i] = contents[rp + i - 1]
    BY TakeEffect, SeqMonotonic DEF Cells
  <2> HIDE DEF first
  <2>4. \A i \in 1..n : moved'[i] = first[i]
    BY <1>1, <1>2, <1>4, <2>1, <2>2, <2>3, SizeAssumption DEF Slots
  <2>5. moved' = first
    BY <2>2, <2>3, <2>4, SeqEqual
  <2> QED
    BY <2>5 DEF first
<1> QED
  BY <1>4, <1>5, <1>6, Mapping DEF Stream!Take, Held, HeldIn, Used

LEMMA PutIsPut ==
  ASSUME TypeOK, WindowInv, NEW n \in 1..Writable, Put(n) PROVE Stream!Put
<1>1. contents \in [Slots -> Cells] /\ rp \in Slots /\ wp \in Slots
  BY Buffer
<1>2. /\ n \in Nat \ {0} /\ wp + n <= Size
      /\ IF rp <= wp THEN n <= Size - 1 - (wp - rp) ELSE n <= rp - wp - 1
  BY <1>1, Room
<1>3. wp' \in Slots /\ wp' = IF wp + n = Size THEN 0 ELSE wp + n
  BY <1>1, <1>2, Advanced DEF Put
<1>4. /\ contents' \in [Slots -> Cells] /\ moved' \in [1..n -> Bytes]
      /\ moved' \in Seq(Cells) /\ Len(moved') = n
      /\ \A i \in Slots : contents'[i] = IF i \in wp..wp+n-1 THEN moved'[i - wp + 1]
                                                             ELSE contents[i]
  BY PutEffect, SeqMonotonic DEF Cells
<1>5. /\ n \in 1..(Size - 1) - Len(Held)
      /\ HeldIn(contents', rp, wp') = Held \o moved'
  <2>1. /\ n \in 1..(Size - 1) - Len(HeldIn(contents, rp, wp))
        /\ HeldIn(contents', rp, wp') = HeldIn(contents, rp, wp) \o moved'
    <3>1. PutAt(contents, contents', rp, wp, wp', n, moved')
      BY <1>2, <1>3, <1>4 DEF PutAt
    <3>2. n \in Nat \ {0} /\ moved' \in Seq(Cells)
      BY <1>2, <1>4
    <3>3. ASSUME NEW e \in [Slots -> Cells], NEW v \in Slots, NEW data \in Seq(Cells),
                 PutAt(contents, e, rp, wp, v, n, data)
          PROVE  /\ n \in 1..(Size - 1) - Len(HeldIn(contents, rp, wp))
                 /\ HeldIn(e, rp, v) = HeldIn(contents, rp, wp) \o data
      <4>1. n \in Nat \ {0}
        BY <1>2
      <4>2. HeldIn(e, rp, v) = HeldIn(contents, rp, wp) \o data
        BY <1>1, <3>3, <4>1, HeldAfterPut
      <4>3. n \in 1..(Size - 1) - Len(HeldIn(contents, rp, wp))
        BY <1>1, <3>3, <4>1, HeldAfterPut
      <4> QED
        BY <4>2, <4>3
    <3> QED
      BY <1>3, <1>4, <3>1, <3>2, <3>3
  <2> QED
    BY <2>1 DEF Held
<1>6. Held' = Held \o moved'
  BY <1>5 DEF Held, Put
<1> QED
  BY <1>4, <1>5, <1>6 DEF Stream!Put, Held, HeldIn, Used

LEMMA OpenIsDiscard ==
  ASSUME TypeOK, NEW p \in Procs, Open(p)
  PROVE  Stream!Discard \/ UNCHANGED Stream!svars
<1>1. CASE UNCHANGED ring /\ UNCHANGED moved
  BY <1>1, StreamStutters
<1>2. CASE rp' = 0 /\ wp' = 0 /\ contents' = Empty /\ UNCHANGED moved
  <2>1. Empty \in [Slots -> Cells]
    BY DEF Empty, Cells
  <2>2. Held' = <<>>
    BY <1>2, <2>1, NothingHeld DEF Held
  <2> QED
    BY <1>2, <2>2 DEF Stream!Discard, Held, HeldIn, Used
<1> QED
  BY <1>1, <1>2 DEF Open

LEMMA StreamInit == ASSUME Init PROVE Stream!Init
<1>1. Empty \in [Slots -> Cells]
  BY DEF Empty, Cells
<1>2. Held = <<>>
  BY <1>1, NothingHeld DEF Init, Held
<1> QED
  BY <1>2 DEF Init, Stream!Init, Held, HeldIn, Used

LEMMA StreamStep == ASSUME IInv, [Next]_vars PROVE [Stream!Next]_Stream!svars
<1>1. TypeOK /\ WindowInv
  BY DEF IInv
<1>2. ASSUME NEW p \in Procs, Move(p) PROVE Stream!Next
  <2>1. CASE p \in Readers
    <3>1. rp # wp /\ \E n \in 1..Readable : Take(n)
      BY <1>2, <2>1 DEF Move, CanMove
    <3> QED
      BY <1>1, <3>1, TakeIsTake DEF Stream!Next
  <2>2. CASE p \notin Readers
    <3>1. \E n \in 1..Writable : Put(n)
      BY <1>2, <2>2 DEF Move
    <3> QED
      BY <1>1, <3>1, PutIsPut DEF Stream!Next
  <2> QED
    BY <2>1, <2>2
<1>3. ASSUME NEW p \in Procs, Open(p) PROVE [Stream!Next]_Stream!svars
  BY <1>1, <1>3, OpenIsDiscard DEF Stream!Next
<1>4. CASE UNCHANGED vars
  BY <1>4, StreamStutters DEF vars
<1>5. ASSUME NEW p \in Procs,
             \/ OpenDown(p) \/ MoveDown(p) \/ ReleaseDown(p) \/ LockAgain(p)
             \/ Release(p) \/ Fault(p) \/ Wake(p) \/ GiveUp(p)
             \/ Prepare(p) \/ TestAgain(p) \/ Awake(p) \/ Interrupted(p)
      PROVE  UNCHANGED Stream!svars
  <2>1. UNCHANGED ring /\ UNCHANGED moved
    BY <1>5 DEF OpenDown, MoveDown, ReleaseDown, LockAgain, Down, Release, Fault, Wake,
       GiveUp, Prepare, TestAgain, Awake, Interrupted
  <2> QED
    BY <2>1, StreamStutters
<1> QED
  BY <1>2, <1>3, <1>4, <1>5 DEF Next, Body

(* The pipe is a stream: whatever the readers and writers do, and wherever *)
(* the pointers wrap, a read takes the oldest bytes, a write appends, and  *)
(* only an open throws bytes away.                                         *)
THEOREM PipeIsStream == Spec => ImplementsStream
<1>1. Init => Stream!Init
  BY StreamInit
<1>2. IInv /\ [Next]_vars => [Stream!Next]_Stream!svars
  BY StreamStep
<1> QED
  BY <1>1, <1>2, InductiveInvariant, PTL DEF Spec, ImplementsStream, Stream!Spec
=============================================================================
