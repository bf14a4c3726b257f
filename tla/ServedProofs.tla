----------------------------- MODULE ServedProofs -----------------------------
(***************************************************************************)
(* What the modules with liveness properties keep to, for any number of    *)
(* processes and writers and any size of the pools and of the page: each   *)
(* has its inductive invariant, which its own steps preserve; those of the *)
(* others leave its state alone.                                           *)
(***************************************************************************)
EXTENDS Served, FiniteSetTheorems, SequenceTheorems, TLAPS

-----------------------------------------------------------------------------
(* The access control of scull: who holds a device.                        *)

LEMMA AccessCardinality == \A S : Access!Cardinality(S) = Cardinality(S)
BY DEF Access!Cardinality, Cardinality

AccessTakers == Access!Holders \cup {p \in Procs : access_pc[p] = "busy"}

LEMMA AccessCounts ==
  /\ IsFiniteSet(Access!Holders) /\ Cardinality(Access!Holders) \in Nat
  /\ IsFiniteSet(AccessTakers) /\ Cardinality(AccessTakers) \in Nat
  /\ Cardinality(Access!Holders) = 0 => Access!Holders = {}
  /\ Cardinality(AccessTakers) = 0 => AccessTakers = {}
  /\ Cardinality(Access!Holders) <= Cardinality(AccessTakers)
<1>1. IsFiniteSet(Access!Holders) /\ IsFiniteSet(AccessTakers)
  BY ProcsAssumption, FS_Subset DEF Access!Holders, AccessTakers
<1>2. Access!Holders \subseteq AccessTakers
  BY DEF AccessTakers
<1> QED
  BY <1>1, <1>2, FS_CardinalityType, FS_EmptySet, FS_Subset

LEMMA AccessInitIInv == ASSUME Access!Init PROVE Access!IInv
<1>1. Access!Holders = {} /\ AccessTakers = {} /\ Cardinality({}) = 0
  BY FS_EmptySet DEF Access!Init, Access!Holders, AccessTakers
<1>2. Access!TypeInv /\ access_pc \in [Procs -> Access!Labels]
  BY DEF Access!Init, Access!TypeInv, Access!Labels
<1>3. Access!SingleOpener
  <2>1. Cardinality(Access!Holders) = 0 /\ Cardinality(AccessTakers) = 0
    BY <1>1
  <2> QED
    BY <2>1, AccessCardinality DEF Access!Init, Access!SingleOpener, AccessTakers
<1>4. Access!OneUser /\ Access!OwnClone /\ Access!InTheList
  BY <1>1, AccessCardinality DEF Access!Init, Access!OneUser, Access!OwnClone, Access!InTheList
<1> QED
  BY <1>2, <1>3, <1>4 DEF Access!IInv, Access!AccessSafe

\* A process goes on, and neither comes to hold a device nor leaves one.
LEMMA AccessQuietStep ==
  ASSUME Access!IInv, NEW p \in Procs, NEW to \in Access!Labels, Access!GoTo(p, to),
          UNCHANGED <<device, Access!policy>>,
         to \in {"trim", "open"} <=> access_pc[p] \in {"trim", "open"},
         to = "busy" <=> access_pc[p] = "busy"
  PROVE  Access!IInv'
<1>1. UNCHANGED <<device, available, count, owner, clones, mine>>
  BY DEF Access!policy
<1>2. access_pc \in [Procs -> Access!Labels] /\ access_pc' = [access_pc EXCEPT ![p] = to]
  BY DEF Access!IInv, Access!GoTo
<1>3. Access!Labels' = Access!Labels
  BY <1>1 DEF Access!Labels
<1>4. access_pc' \in [Procs -> Access!Labels']
  BY <1>2, <1>3
<1>5. Access!Holders' = Access!Holders /\ AccessTakers' = AccessTakers
  BY <1>2 DEF Access!Holders, AccessTakers
<1>6. Access!TypeInv' /\ Access!InTheList'
  BY <1>1, <1>5 DEF Access!IInv, Access!TypeInv, Access!InTheList
<1>7. Access!SingleOpener'
  BY <1>1, <1>5, AccessCardinality DEF Access!IInv, Access!AccessSafe, Access!SingleOpener,
     AccessTakers
<1>8. Access!OneUser' /\ Access!OwnClone'
  BY <1>1, <1>5, AccessCardinality DEF Access!IInv, Access!AccessSafe, Access!OneUser,
     Access!OwnClone
<1> QED
  BY <1>4, <1>6, <1>7, <1>8 DEF Access!IInv, Access!AccessSafe

-----------------------------------------------------------------------------
(* scullsingle.                                                            *)

LEMMA AccessSingleSteps ==
  ASSUME Access!IInv, NEW p \in Procs, Access!SingleOpen(p) \/ Access!SingleBusy(p)
  PROVE  Access!IInv'
<1>1. /\ UNCHANGED <<device, count, owner, clones, mine>>
      /\ access_pc[p] = (IF Access!SingleOpen(p) THEN "closed" ELSE "busy")
  BY DEF Access!SingleOpen, Access!SingleBusy
<1>2. access_pc \in [Procs -> Access!Labels]
  BY DEF Access!IInv
<1>3. device = "single"
  BY <1>1, <1>2 DEF Access!SingleOpen, Access!Labels
<1>4. /\ Cardinality(Access!Holders) <= 1 /\ available = 1 - Cardinality(AccessTakers)
      /\ available \in Int
  BY <1>3, AccessCardinality DEF Access!IInv, Access!TypeInv, Access!AccessSafe,
     Access!SingleOpener, AccessTakers
<1>5. Access!TypeInv'
  BY <1>1, <1>4 DEF Access!IInv, Access!TypeInv, Access!SingleOpen, Access!SingleBusy
<1>6. Access!Labels' = Access!Labels
       /\ {"closed", "trim", "open", "busy"} \subseteq Access!Labels
  BY <1>1, <1>3 DEF Access!Labels
<1>7. Access!OneUser' /\ Access!OwnClone' /\ Access!InTheList'
  BY <1>1, <1>3, AccessCardinality DEF Access!OneUser, Access!OwnClone, Access!InTheList
<1>8. ASSUME access_pc' \in [Procs -> Access!Labels], Cardinality(Access!Holders') <= 1,
             available' = 1 - Cardinality(AccessTakers')
      PROVE  Access!IInv'
  BY <1>5, <1>6, <1>7, <1>8, AccessCardinality DEF Access!IInv, Access!AccessSafe,
     Access!SingleOpener, AccessTakers
<1>9. CASE Access!SingleOpen(p)
  <2>1. available' = available - 1 /\ access_pc[p] = "closed"
    BY <1>9 DEF Access!SingleOpen
  <2>2. CASE available' = 0
    <3>1. Cardinality(AccessTakers) = 0
      BY <1>4, <2>1, <2>2, AccessCounts
    <3>5. AccessTakers = {} /\ Access!Holders = {}
      BY <3>1, AccessCounts DEF AccessTakers
    <3>2. PICK to \in {"trim", "open"} : access_pc' = [access_pc EXCEPT ![p] = to]
      BY <1>9, <2>2 DEF Access!SingleOpen, Access!Opened, Access!GoTo
    <3>3. Access!Holders' = {p} /\ AccessTakers' = {p}
      BY <1>2, <3>5, <3>2 DEF Access!Holders, AccessTakers
    <3>4. access_pc' \in [Procs -> Access!Labels]
      BY <1>2, <1>6, <3>2
    <3> QED
      <4>1. Cardinality(Access!Holders') = 1 /\ Cardinality(AccessTakers') = 1
        BY <3>3, FS_Singleton
      <4> QED
        BY <1>8, <2>2, <3>4, <4>1
  <2>3. CASE available' # 0
    <3>1. access_pc' = [access_pc EXCEPT ![p] = "busy"]
      BY <1>9, <2>3 DEF Access!SingleOpen, Access!GoTo
    <3>2. Access!Holders' = Access!Holders /\ AccessTakers' = AccessTakers \cup {p}
           /\ p \notin AccessTakers
      BY <1>2, <2>1, <3>1 DEF Access!Holders, AccessTakers
    <3>3. Cardinality(AccessTakers') = Cardinality(AccessTakers) + 1
      BY <3>2, AccessCounts, FS_AddElement
    <3>4. access_pc' \in [Procs -> Access!Labels]
      BY <1>2, <1>6, <3>1
    <3> QED
      BY <1>4, <1>8, <2>1, <3>2, <3>3, <3>4, AccessCounts
  <2> QED
    BY <2>2, <2>3
<1>10. CASE Access!SingleBusy(p)
  <2>1. available' = available + 1 /\ access_pc[p] = "busy"
         /\ access_pc' = [access_pc EXCEPT ![p] = "closed"]
    BY <1>10 DEF Access!SingleBusy, Access!GoTo
  <2>2. Access!Holders' = Access!Holders /\ AccessTakers' = AccessTakers \ {p}
         /\ p \in AccessTakers
    BY <1>2, <2>1 DEF Access!Holders, AccessTakers
  <2>3. Cardinality(AccessTakers') = Cardinality(AccessTakers) - 1
    BY <2>2, AccessCounts, FS_RemoveElement
  <2>4. access_pc' \in [Procs -> Access!Labels]
    BY <1>2, <1>6, <2>1
  <2> QED
    BY <1>4, <1>8, <2>1, <2>2, <2>3, <2>4, AccessCounts
<1> QED
  BY <1>9, <1>10

-----------------------------------------------------------------------------
(* sculluid and scullwuid.                                                 *)

LEMMA AccessEnterStep ==
  ASSUME Access!IInv, NEW p \in Procs, Access!Enter(p), device \in {"uid", "wuid"},
         access_pc[p] \in {"closed", "retry"}
  PROVE  Access!IInv'
<1>1. /\ UNCHANGED <<device, available, clones, mine>> /\ count' = count + 1
      /\ owner' = IF count = 0 THEN Uid[p] ELSE owner
      /\ Access!Allowed(p)
  BY DEF Access!Enter, Access!Grab
<1>2. PICK to \in {"trim", "open"} : access_pc' = [access_pc EXCEPT ![p] = to]
  BY DEF Access!Enter, Access!Opened, Access!GoTo
<1>3. access_pc \in [Procs -> Access!Labels] /\ Access!Labels' = Access!Labels
       /\ {"trim", "open"} \subseteq Access!Labels
  BY <1>1 DEF Access!IInv, Access!Labels
<1>4. access_pc' \in [Procs -> Access!Labels']
  BY <1>2, <1>3
<1>5. count = Cardinality(Access!Holders)
       /\ \A q \in Access!Holders \ Capable : owner \in {Uid[q], Euid[q]}
  BY AccessCardinality DEF Access!IInv, Access!AccessSafe, Access!OneUser
<1>6. Access!Holders' = Access!Holders \cup {p} /\ p \notin Access!Holders
  BY <1>2, <1>3 DEF Access!Holders
<1>7. Cardinality(Access!Holders') = Cardinality(Access!Holders) + 1
  BY <1>6, AccessCounts, FS_AddElement
<1>8. ASSUME NEW q \in Access!Holders' \ Capable PROVE owner' \in {Uid[q], Euid[q]}
  <2>1. CASE count = 0
    BY <1>1, <1>5, <1>6, <1>8, <2>1, AccessCounts
  <2>2. CASE count # 0
    BY <1>1, <1>5, <1>6, <1>8, <2>2 DEF Access!Allowed
  <2> QED
    BY <2>1, <2>2
<1>9. Access!OneUser'
  BY <1>1, <1>5, <1>7, <1>8, AccessCardinality DEF Access!OneUser
<1>10. Access!TypeInv'
  BY <1>1 DEF Access!IInv, Access!TypeInv
<1>11. Access!SingleOpener' /\ Access!OwnClone' /\ Access!InTheList'
  BY <1>1, AccessCardinality DEF Access!SingleOpener, Access!OwnClone, Access!InTheList
<1> QED
  BY <1>4, <1>9, <1>10, <1>11 DEF Access!IInv, Access!AccessSafe

-----------------------------------------------------------------------------
(* scullpriv.                                                              *)

LEMMA AccessOwnStep ==
  ASSUME Access!IInv, device = "priv", NEW p \in Procs, NEW to \in {"trim", "open"},
         access_pc' = [access_pc EXCEPT ![p] = to], UNCHANGED <<device, available, count,
          owner>>,
         clones' \in Seq({Uid[q] : q \in Procs}), Len(clones) <= Len(clones'),
         NEW n \in 1..Len(clones'), mine' = [mine EXCEPT ![p] = n],
         clones'[Len(clones') - n + 1] = Uid[p],
         \A k \in 1..Len(clones) :
           clones'[Len(clones') - k + 1] = clones[Len(clones) - k + 1]
  PROVE  Access!IInv'
<1>1. access_pc \in [Procs -> Access!Labels] /\ Access!Labels' = Access!Labels
       /\ {"trim", "open"} \subseteq Access!Labels
  BY DEF Access!IInv, Access!Labels
<1>2. access_pc' \in [Procs -> Access!Labels']
  BY <1>1
<1>3. Len(clones) \in Nat /\ Len(clones') \in Nat /\ mine \in [Procs -> Nat]
  BY DEF Access!IInv, Access!TypeInv
<1>4. mine' \in [Procs -> Nat]
  BY <1>3
<1>5. Access!TypeInv'
  BY <1>4 DEF Access!IInv, Access!TypeInv
<1>6. ASSUME NEW q \in Access!Holders'
      PROVE  /\ mine'[q] > 0 /\ mine'[q] <= Len(clones')
             /\ clones'[Len(clones') - mine'[q] + 1] = Uid[q]
  <2>1. CASE q = p
    <3>1. mine'[q] = n
      BY <1>3, <2>1
    <3> QED
      BY <1>3, <2>1, <3>1
  <2>2. CASE q # p
    <3>1. q \in Access!Holders /\ mine'[q] = mine[q] /\ mine[q] \in Nat
      BY <1>1, <1>3, <1>6, <2>2 DEF Access!Holders
    <3>2. mine[q] > 0 /\ mine[q] <= Len(clones) /\ clones[Len(clones) - mine[q] + 1] = Uid[q]
      BY <3>1 DEF Access!IInv, Access!AccessSafe, Access!OwnClone, Access!InTheList
    <3>3. mine[q] \in 1..Len(clones) /\ mine[q] <= Len(clones')
      BY <1>3, <3>1, <3>2
    <3> QED
      BY <3>1, <3>2, <3>3
  <2> QED
    BY <2>1, <2>2
<1>7. Access!OwnClone' /\ Access!InTheList'
  BY <1>6 DEF Access!OwnClone, Access!InTheList
<1>8. Access!SingleOpener' /\ Access!OneUser'
  BY AccessCardinality DEF Access!SingleOpener, Access!OneUser
<1> QED
  BY <1>2, <1>5, <1>7, <1>8 DEF Access!IInv, Access!AccessSafe

LEMMA AccessLookupStep ==
  ASSUME Access!IInv, NEW p \in Procs, Access!Lookup(p)
  PROVE  Access!IInv'
<1>1. /\ UNCHANGED <<device, available, count, owner, clones, queue>>
      /\ device = "priv" /\ access_pc[p] = "closed"
  BY DEF Access!Lookup
<1>2. CASE Access!GoTo(p, "alloc") /\ UNCHANGED mine
  BY <1>1, <1>2, AccessQuietStep DEF Access!Labels, Access!policy
<1>3. ASSUME NEW i \in DOMAIN clones, clones[i] = Uid[p],
             mine' = [mine EXCEPT ![p] = Len(clones) - i + 1], Access!Opened(p)
      PROVE  Access!IInv'
  <2>1. PICK to \in {"trim", "open"} : access_pc' = [access_pc EXCEPT ![p] = to]
    BY <1>3 DEF Access!Opened, Access!GoTo
  <2>2. /\ clones \in Seq({Uid[q] : q \in Procs}) /\ mine \in [Procs -> Nat]
        /\ Len(clones) \in Nat /\ i \in 1..Len(clones)
    BY <1>3 DEF Access!IInv, Access!TypeInv
  <2> DEFINE n == Len(clones) - i + 1
  <2>3. n \in 1..Len(clones) /\ Len(clones) - n + 1 = i
    BY <2>2
  <2>4. mine' = [mine EXCEPT ![p] = n]
    BY <1>3
  <2> HIDE DEF n
  <2>5. Len(clones) <= Len(clones)
    BY <2>2
  <2> QED
    BY <1>1, <1>3, <2>1, <2>2, <2>3, <2>4, <2>5, AccessOwnStep
<1> QED
  BY <1>2, <1>3 DEF Access!Lookup

LEMMA AccessCloneStep == ASSUME Access!IInv, NEW p \in Procs, Access!Clone(p) PROVE Access!IInv'
<1>1. UNCHANGED <<device, available, count, owner, queue>> /\ access_pc[p] = "alloc"
  BY DEF Access!Clone
<1>2. device = "priv"
  BY <1>1 DEF Access!IInv, Access!Labels
<1>3. CASE Access!GoTo(p, "closed") /\ UNCHANGED <<clones, mine>>
  BY <1>1, <1>3, AccessQuietStep DEF Access!Labels, Access!policy
<1>4. CASE Access!AddClone(p) /\ Access!Opened(p)
            /\ mine' = [mine EXCEPT ![p] = Len(clones) + 1]
  <2>1. PICK to \in {"trim", "open"} : access_pc' = [access_pc EXCEPT ![p] = to]
    BY <1>4 DEF Access!Opened, Access!GoTo
  <2> DEFINE S == {Uid[q] : q \in Procs}
  <2>2. clones \in Seq(S) /\ Len(clones) \in Nat /\ mine \in [Procs -> Nat] /\ Uid[p] \in S
    BY DEF Access!IInv, Access!TypeInv
  <2>3. clones' = <<Uid[p]>> \o clones
    BY <1>4 DEF Access!AddClone
  <2> HIDE DEF S
  <2>4. <<Uid[p]>> \in Seq(S) /\ Len(<<Uid[p]>>) = 1 /\ <<Uid[p]>>[1] = Uid[p]
    BY <2>2
  <2>5. /\ clones' \in Seq(S) /\ Len(clones') = Len(clones) + 1 /\ clones'[1] = Uid[p]
        /\ \A j \in 1..Len(clones) : clones'[j + 1] = clones[j]
    <3>1. clones' \in Seq(S) /\ Len(clones') = 1 + Len(clones)
      BY <2>2, <2>3, <2>4, ConcatProperties
    <3>2. \A j \in 1..1 + Len(clones) :
            clones'[j] = IF j <= 1 THEN <<Uid[p]>>[j] ELSE clones[j - 1]
      BY <2>2, <2>3, <2>4, ConcatProperties
    <3>3. Len(clones) \in Nat /\ 1 \in 1..1 + Len(clones)
      BY <2>2
    <3>4. clones'[1] = Uid[p]
      BY <2>4, <3>2, <3>3
    <3>5. ASSUME NEW j \in 1..Len(clones) PROVE clones'[j + 1] = clones[j]
      <4>1. j + 1 \in 1..1 + Len(clones) /\ ~(j + 1 <= 1) /\ j + 1 - 1 = j
        BY <3>3
      <4> QED
        BY <3>2, <4>1
    <3>6. 1 + Len(clones) = Len(clones) + 1
      BY <3>3
    <3> QED
      BY <3>1, <3>4, <3>5, <3>6
  <2>6. Len(clones) + 1 \in 1..Len(clones') /\ Len(clones') - (Len(clones) + 1) + 1 = 1
    BY <2>2, <2>5
  <2>7. clones'[Len(clones') - (Len(clones) + 1) + 1] = Uid[p]
    BY <2>5, <2>6
  <2>8. mine' = [mine EXCEPT ![p] = Len(clones) + 1]
    BY <1>4
  <2>9. ASSUME NEW k \in 1..Len(clones)
        PROVE  clones'[Len(clones') - k + 1] = clones[Len(clones) - k + 1]
    <3>1. Len(clones) - k + 1 \in 1..Len(clones)
      BY <2>2
    <3>2. Len(clones') - k + 1 = (Len(clones) - k + 1) + 1
      BY <2>2, <2>5
    <3> QED
      BY <2>5, <3>1, <3>2
  <2>10. Len(clones) <= Len(clones')
    BY <2>2, <2>5
  <2> QED
    BY <1>1, <1>2, <2>1, <2>5, <2>6, <2>7, <2>8, <2>9, <2>10, AccessOwnStep DEF S
<1> QED
  BY <1>3, <1>4 DEF Access!Clone

-----------------------------------------------------------------------------
(* Closing.                                                                *)

LEMMA AccessReleaseStep ==
  ASSUME Access!IInv, NEW p \in Procs, Access!Release(p)
  PROVE  Access!IInv'
<1>1. /\ UNCHANGED <<device, owner, clones>> /\ access_pc[p] = "open"
      /\ mine' = [mine EXCEPT ![p] = 0]
      /\ available' = available + (IF device = "single" THEN 1 ELSE 0)
      /\ count' = count - (IF device \in {"uid", "wuid"} THEN 1 ELSE 0)
  BY DEF Access!Release
<1> DEFINE to == IF device = "wuid" /\ count' = 0 THEN "wake" ELSE "closed"
<1>2. access_pc' = [access_pc EXCEPT ![p] = to]
  BY DEF Access!Release, Access!Leaves, Access!GoTo
<1>3. access_pc \in [Procs -> Access!Labels] /\ Access!Labels' = Access!Labels
       /\ to \in Access!Labels
  BY <1>1 DEF Access!IInv, Access!Labels
<1>4. to \in {"wake", "closed"}
  OBVIOUS
<1> HIDE DEF to
<1>5. access_pc' \in [Procs -> Access!Labels']
  BY <1>2, <1>3
<1>6. Access!Holders' = Access!Holders \ {p} /\ AccessTakers' = AccessTakers \ {p}
       /\ p \in Access!Holders /\ p \in AccessTakers
  BY <1>1, <1>2, <1>3, <1>4 DEF Access!Holders, AccessTakers
<1>7. /\ Cardinality(Access!Holders') = Cardinality(Access!Holders) - 1
      /\ Cardinality(AccessTakers') = Cardinality(AccessTakers) - 1
  BY <1>6, AccessCounts, FS_RemoveElement
<1>8. Access!TypeInv'
  <2>1. available \in Int /\ count \in Int /\ mine \in [Procs -> Nat]
    BY DEF Access!IInv, Access!TypeInv
  <2>2. available' \in Int /\ count' \in Int
    BY <1>1, <2>1
  <2>3. mine' \in [Procs -> Nat]
    BY <1>1, <2>1
  <2> QED
    BY <1>1, <2>2, <2>3 DEF Access!IInv, Access!TypeInv
<1>9. ASSUME device' = "single"
      PROVE  Cardinality(Access!Holders') <= 1 /\ available' = 1 - Cardinality(AccessTakers')
  <2>1. Cardinality(Access!Holders) <= 1 /\ available = 1 - Cardinality(AccessTakers)
    BY <1>1, <1>9, AccessCardinality DEF Access!IInv, Access!AccessSafe, Access!SingleOpener,
       AccessTakers
  <2> QED
    BY <1>1, <1>7, <1>9, <2>1, AccessCounts
<1>10. Access!SingleOpener'
  BY <1>9, AccessCardinality DEF Access!SingleOpener, AccessTakers
<1>11. Access!OneUser'
  <2> SUFFICES ASSUME device \in {"uid", "wuid"}
               PROVE  /\ count' = Cardinality(Access!Holders')
                      /\ \A q \in Access!Holders' \ Capable : owner \in {Uid[q], Euid[q]}
    BY <1>1, AccessCardinality DEF Access!OneUser
  <2>1. count = Cardinality(Access!Holders)
         /\ \A q \in Access!Holders \ Capable : owner \in {Uid[q], Euid[q]}
    BY AccessCardinality DEF Access!IInv, Access!AccessSafe, Access!OneUser
  <2> QED
    BY <1>1, <1>6, <1>7, <2>1, AccessCounts
<1>12. \A q \in Access!Holders' : q \in Access!Holders /\ mine'[q] = mine[q]
  BY <1>1, <1>6 DEF Access!IInv, Access!TypeInv, Access!Holders
<1>13. Access!OwnClone' /\ Access!InTheList'
  BY <1>1, <1>12 DEF Access!IInv, Access!AccessSafe, Access!OwnClone, Access!InTheList
<1> QED
  BY <1>5, <1>8, <1>10, <1>11, <1>13 DEF Access!IInv, Access!AccessSafe

\* The steps of a process that waits for scullwuid, or trims.
LEMMA AccessWaitSteps ==
  ASSUME Access!IInv, NEW p \in Procs,
         Access!WuidWait(p) \/ Access!Prepare(p) \/ Access!Test(p) \/ Access!Awake(p)
          \/ Access!Interrupted(p) \/ Access!Trim(p) \/ Access!Wake(p)
  PROVE  Access!IInv'
<1>1. access_pc[p] \in Access!Labels /\ UNCHANGED <<device, Access!policy>>
  BY DEF Access!IInv, Access!WuidWait, Access!Prepare, Access!Test, Access!Awake,
     Access!Interrupted, Access!Trim, Access!Wake
<1>2. ASSUME access_pc[p] \notin {"trim", "open", "busy"}, NEW to \in Access!Labels,
              Access!GoTo(p, to),
             to \notin {"trim", "open", "busy"}
      PROVE  Access!IInv'
  BY <1>1, <1>2, AccessQuietStep
<1>3. CASE Access!Trim(p)
  BY <1>1, <1>3, AccessQuietStep DEF Access!Trim, Access!Labels
<1>4. CASE Access!WuidWait(p)
  BY <1>2, <1>4 DEF Access!WuidWait, Access!Labels
<1>5. ASSUME access_pc[p] \in {"wait", "queued", "asleep", "wake"}
      PROVE  {"wait", "queued", "retry", "asleep", "closed"} \subseteq Access!Labels
  BY <1>1, <1>5 DEF Access!Labels
<1>6. CASE Access!Prepare(p)
  BY <1>2, <1>5, <1>6 DEF Access!Prepare
<1>7. CASE Access!Test(p)
  BY <1>2, <1>5, <1>7 DEF Access!Test
<1>8. CASE Access!Awake(p)
  BY <1>2, <1>5, <1>8 DEF Access!Awake
<1>9. CASE Access!Interrupted(p)
  BY <1>2, <1>5, <1>9 DEF Access!Interrupted
<1>10. CASE Access!Wake(p)
  BY <1>2, <1>5, <1>10 DEF Access!Wake
<1> QED
  BY <1>3, <1>4, <1>6, <1>7, <1>8, <1>9, <1>10

LEMMA AccessNextIInv ==
  ASSUME Access!IInv, Access!Next \/ UNCHANGED Access!vars
  PROVE  Access!IInv'
<1>1. CASE UNCHANGED Access!vars
  <2>1. UNCHANGED <<device, available, count, owner, clones, mine, access_pc>>
    BY <1>1 DEF Access!vars, Access!policy
  <2>2. Access!Holders' = Access!Holders /\ Access!Labels' = Access!Labels
    BY <2>1 DEF Access!Holders, Access!Labels
  <2> QED
    BY <2>1, <2>2, AccessCardinality DEF Access!IInv, Access!TypeInv, Access!InTheList,
       Access!AccessSafe, Access!SingleOpener, Access!OneUser, Access!OwnClone
<1>2. ASSUME NEW p \in Procs,
             \/ Access!SingleOpen(p) \/ Access!UidOpen(p) \/ Access!WuidOpen(p)
                 \/ Access!WuidWait(p) \/ Access!Lookup(p)
             \/ Access!Release(p) \/ Access!Interrupted(p) \/ Access!Body(p)
      PROVE  Access!IInv'
  <2>1. CASE Access!UidOpen(p) \/ Access!WuidOpen(p)
    BY <2>1, AccessEnterStep DEF Access!UidOpen, Access!WuidOpen
  <2>2. CASE Access!WuidOpenAgain(p)
    <3>1. access_pc[p] = "retry" /\ access_pc[p] \in Access!Labels /\ Access!Enter(p)
      BY <2>2 DEF Access!WuidOpenAgain, Access!IInv
    <3> QED
      BY <3>1, AccessEnterStep DEF Access!Labels
  <2> QED
    BY <1>2, <2>1, <2>2, AccessSingleSteps, AccessLookupStep, AccessReleaseStep,
       AccessWaitSteps, AccessCloneStep DEF Access!Body
<1> QED
  BY <1>1, <1>2 DEF Access!Next

LEMMA AccessIInvSafe == ASSUME Access!IInv PROVE Access!AccessSafe
BY DEF Access!IInv

-----------------------------------------------------------------------------
(* snull: what its functions do to the interface they are called for.      *)

NetStates == [Net!Devs -> Net!Interfaces]

LEMMA NetDevFacts ==
  ASSUME NEW d \in Net!Devs
  PROVE  /\ Net!Twin(d) \in Net!Devs /\ Net!Twin(d) # d /\ Net!Twin(Net!Twin(d)) = d
         /\ \A c \in Net!Devs : c = d \/ c = Net!Twin(d)
         /\ d # Net!None
BY DEF Net!Devs, Net!Twin, Net!None

NetTaken(i) == [i EXCEPT !.ppool = @ - 1, !.stopped = @ \/ i.ppool - 1 = 0]
NetGivenBack(i) ==
  [i EXCEPT !.ppool = @ + 1, !.stopped = @ /\ ~(i.stopped /\ i.ppool = 0),
            !.starter = IF i.stopped /\ i.ppool = 0 THEN "release" ELSE @]
NetFreed(i, by) ==
  [i EXCEPT !.skb = IF @ = "held" THEN "freed"
                    ELSE IF by = "timeout" THEN "freed_again_by_the_timeout"
                    ELSE "freed_again"]
NetRead(i) == [i EXCEPT !.status = {}]
NetHandled(i, by) == IF "tx" \in i.status THEN NetFreed(NetRead(i), by) ELSE NetRead(i)
NetDisabled(i) ==
  [i EXCEPT !.rx_int_enabled = FALSE, !.scheduled = @ \/ i.state = "up",
            !.shut = @ \/ i.state # "up"]
NetRaised(i, what) == [i EXCEPT !.status = @ \cup {what}]
NetMore(i) == [i EXCEPT !.rx_queue = @ + 1]
NetLess(i) == [i EXCEPT !.rx_queue = @ - 1]

LEMMA NetOfOne ==
  ASSUME NEW s \in NetStates, NEW d \in Net!Devs, NEW by, NEW what
  PROVE  /\ Net!GetTxBuffer(s, d) = [s EXCEPT ![d] = NetTaken(s[d])]
         /\ Net!ReleaseBuffer(s, d) = [s EXCEPT ![d] = NetGivenBack(s[d])]
         /\ Net!KfreeSkb(s, d, by) = [s EXCEPT ![d] = NetFreed(s[d], by)]
         /\ Net!ClearStatus(s, d) = [s EXCEPT ![d] = NetRead(s[d])]
         /\ Net!Raise(s, d, what) = [s EXCEPT ![d] = NetRaised(s[d], what)]
         /\ Net!Enqueue(s, d) = [s EXCEPT ![d] = NetMore(s[d])]
         /\ Net!Dequeue(s, d) = [s EXCEPT ![d] = NetLess(s[d])]
<1>1. Net!GetTxBuffer(s, d) = [s EXCEPT ![d] = NetTaken(s[d])]
  BY DEF Net!GetTxBuffer, NetTaken, Net!StopsAt, NetStates, Net!Interfaces
<1>2. Net!ReleaseBuffer(s, d) = [s EXCEPT ![d] = NetGivenBack(s[d])]
  BY DEF Net!ReleaseBuffer, NetGivenBack, NetStates, Net!Interfaces
<1>3. Net!KfreeSkb(s, d, by) = [s EXCEPT ![d] = NetFreed(s[d], by)]
  BY DEF Net!KfreeSkb, NetFreed, NetStates, Net!Interfaces
<1>4. Net!ClearStatus(s, d) = [s EXCEPT ![d] = NetRead(s[d])]
  BY DEF Net!ClearStatus, NetRead, NetStates, Net!Interfaces
<1>5. Net!Raise(s, d, what) = [s EXCEPT ![d] = NetRaised(s[d], what)]
  BY DEF Net!Raise, NetRaised, NetStates, Net!Interfaces
<1>6. Net!Enqueue(s, d) = [s EXCEPT ![d] = NetMore(s[d])]
  BY DEF Net!Enqueue, NetMore, NetStates, Net!Interfaces
<1>7. Net!Dequeue(s, d) = [s EXCEPT ![d] = NetLess(s[d])]
  BY DEF Net!Dequeue, NetLess, NetStates, Net!Interfaces
<1> QED
  BY <1>1, <1>2, <1>3, <1>4, <1>5, <1>6, <1>7

-----------------------------------------------------------------------------
(* What each of them keeps to.                                             *)

LEMMA NetTakenOk ==
  ASSUME NEW i \in Net!Interfaces, Net!Sound(i), i.ppool > 0
  PROVE  /\ NetTaken(i) \in Net!Interfaces /\ Net!Sound(NetTaken(i))
         /\ NetTaken(i).ppool = i.ppool - 1 /\ NetTaken(i).rx_queue = i.rx_queue
         /\ NetTaken(i).total = i.total /\ NetTaken(i).state = i.state
         /\ NetTaken(i).status = i.status /\ NetTaken(i).skb = i.skb
         /\ NetTaken(i).rx_int_enabled = i.rx_int_enabled
         /\ NetTaken(i).scheduled = i.scheduled /\ NetTaken(i).shut = i.shut
<1>1. i.ppool - 1 \in Nat /\ (i.ppool - 1 # 0 => i.ppool - 1 > 0)
  BY DEF Net!Interfaces
<1>2. NetTaken(i) \in Net!Interfaces
  BY <1>1 DEF NetTaken, Net!Interfaces
<1>3. /\ NetTaken(i).stopped = (i.stopped \/ i.ppool - 1 = 0) /\ NetTaken(i).starter = i.starter
      /\ NetTaken(i).ppool = i.ppool - 1 /\ NetTaken(i).status = i.status
          /\ NetTaken(i).skb = i.skb
  BY DEF NetTaken, Net!Interfaces
<1>4. Net!Sound(NetTaken(i))
  BY <1>1, <1>3 DEF Net!Sound
<1> QED
  BY <1>2, <1>3, <1>4 DEF NetTaken, Net!Interfaces

LEMMA NetGivenBackOk ==
  ASSUME NEW i \in Net!Interfaces, Net!Sound(i)
  PROVE  /\ NetGivenBack(i) \in Net!Interfaces /\ Net!Sound(NetGivenBack(i))
         /\ NetGivenBack(i).ppool = i.ppool + 1 /\ NetGivenBack(i).rx_queue = i.rx_queue
         /\ NetGivenBack(i).total = i.total /\ NetGivenBack(i).state = i.state
         /\ NetGivenBack(i).status = i.status /\ NetGivenBack(i).skb = i.skb
         /\ NetGivenBack(i).rx_int_enabled = i.rx_int_enabled
         /\ NetGivenBack(i).scheduled = i.scheduled /\ NetGivenBack(i).shut = i.shut
<1>1. i.ppool + 1 \in Nat /\ i.ppool + 1 > 0
  BY DEF Net!Interfaces
<1>2. NetGivenBack(i) \in Net!Interfaces
  BY <1>1 DEF NetGivenBack, Net!Interfaces
<1> QED
  BY <1>1, <1>2 DEF NetGivenBack, Net!Interfaces, Net!Sound

LEMMA NetHandledOk ==
  ASSUME NEW i \in Net!Interfaces, NEW by,
         i.starter = "release" /\ ~i.stopped => i.ppool > 0,
         by = "timeout" \/ Net!Sound(i)
  PROVE  /\ NetHandled(i, by) \in Net!Interfaces /\ Net!Sound(NetHandled(i, by))
         /\ NetHandled(i, by).ppool = i.ppool /\ NetHandled(i, by).rx_queue = i.rx_queue
         /\ NetHandled(i, by).total = i.total /\ NetHandled(i, by).state = i.state
         /\ NetHandled(i, by).status = {} /\ NetHandled(i, by).starter = i.starter
         /\ NetHandled(i, by).stopped = i.stopped
         /\ NetHandled(i, by).rx_int_enabled = i.rx_int_enabled
         /\ NetHandled(i, by).scheduled = i.scheduled /\ NetHandled(i, by).shut = i.shut
<1> DEFINE skb == IF "tx" \notin i.status THEN i.skb
                  ELSE IF i.skb = "held" THEN "freed"
                  ELSE IF by = "timeout" THEN "freed_again_by_the_timeout"
                  ELSE "freed_again"
<1>1. NetHandled(i, by) = [i EXCEPT !.status = {}, !.skb = skb]
  BY DEF NetHandled, NetFreed, NetRead, Net!Interfaces
<1>2. skb \in {"none", "held", "freed", "freed_again_by_the_timeout"}
  BY DEF Net!Sound, Net!Interfaces
<1> HIDE DEF skb
<1>3. NetHandled(i, by) \in Net!Interfaces
  BY <1>1, <1>2 DEF Net!Interfaces
<1> QED
  BY <1>1, <1>3 DEF Net!Interfaces, Net!Sound

LEMMA NetDisabledOk ==
  ASSUME NEW i \in Net!Interfaces, Net!Sound(i)
  PROVE  /\ NetDisabled(i) \in Net!Interfaces /\ Net!Sound(NetDisabled(i))
         /\ NetDisabled(i).ppool = i.ppool /\ NetDisabled(i).rx_queue = i.rx_queue
         /\ NetDisabled(i).total = i.total /\ NetDisabled(i).state = i.state
         /\ NetDisabled(i).status = i.status /\ NetDisabled(i).skb = i.skb
         /\ NetDisabled(i).scheduled \/ NetDisabled(i).shut
<1>1. NetDisabled(i) \in Net!Interfaces
  BY DEF NetDisabled, Net!Interfaces
<1>2. NetDisabled(i).scheduled \/ NetDisabled(i).shut
  BY DEF NetDisabled, Net!Interfaces
<1> QED
  BY <1>1, <1>2 DEF NetDisabled, Net!Interfaces, Net!Sound

LEMMA NetRaisedOk ==
  ASSUME NEW i \in Net!Interfaces, Net!Sound(i), NEW what \in {"tx", "rx"},
         what = "tx" => i.skb = "held"
  PROVE  /\ NetRaised(i, what) \in Net!Interfaces /\ Net!Sound(NetRaised(i, what))
         /\ NetRaised(i, what).ppool = i.ppool /\ NetRaised(i, what).rx_queue = i.rx_queue
         /\ NetRaised(i, what).total = i.total /\ NetRaised(i, what).state = i.state
         /\ NetRaised(i, what).status = i.status \cup {what} /\ NetRaised(i, what).skb = i.skb
         /\ NetRaised(i, what).rx_int_enabled = i.rx_int_enabled
         /\ NetRaised(i, what).scheduled = i.scheduled /\ NetRaised(i, what).shut = i.shut
<1>1. NetRaised(i, what) \in Net!Interfaces
  BY DEF NetRaised, Net!Interfaces
<1> QED
  BY <1>1 DEF NetRaised, Net!Interfaces, Net!Sound

LEMMA NetQueueOk ==
  ASSUME NEW i \in Net!Interfaces, Net!Sound(i), NEW j, j = NetMore(i) \/ (j = NetLess(i)
                /\ i.rx_queue > 0)
  PROVE  /\ j \in Net!Interfaces /\ Net!Sound(j)
         /\ j.rx_queue = i.rx_queue + (IF j = NetMore(i) THEN 1 ELSE 0 - 1)
         /\ j.ppool = i.ppool /\ j.total = i.total /\ j.state = i.state
         /\ j.status = i.status /\ j.skb = i.skb
         /\ j.rx_int_enabled = i.rx_int_enabled
         /\ j.scheduled = i.scheduled /\ j.shut = i.shut
<1>1. i.rx_queue \in Nat
  BY DEF Net!Interfaces
<1>2. CASE j = NetMore(i)
  <2>1. i.rx_queue + 1 \in Nat
    BY <1>1
  <2>2. j \in Net!Interfaces /\ j.rx_queue = i.rx_queue + 1
    BY <1>2, <2>1 DEF NetMore, Net!Interfaces
  <2> QED
    BY <1>2, <2>2 DEF NetMore, Net!Interfaces, Net!Sound
<1>3. CASE j = NetLess(i) /\ i.rx_queue > 0
  <2>1. i.rx_queue - 1 \in Nat /\ i.rx_queue - 1 # i.rx_queue + 1
    BY <1>1, <1>3
  <2>2. j \in Net!Interfaces /\ j.rx_queue = i.rx_queue - 1
    BY <1>3, <2>1 DEF NetLess, Net!Interfaces
  <2>3. j # NetMore(i)
    BY <2>1, <2>2 DEF NetMore, Net!Interfaces
  <2> QED
    BY <1>1, <1>3, <2>2, <2>3 DEF NetLess, Net!Interfaces, Net!Sound
<1> QED
  BY <1>2, <1>3
-----------------------------------------------------------------------------
(* The interrupt.                                                          *)

LEMMA NetEndOfTransmission ==
  ASSUME use_napi \in BOOLEAN, NEW s \in NetStates, NEW d \in Net!Devs, NEW by,
         "rx" \notin s[d].status
  PROVE  Net!Interrupt(s, d, by) = [s EXCEPT ![d] = NetHandled(s[d], by)]
<1> DEFINE t == Net!ClearStatus(s, d)
<1>1. t = [s EXCEPT ![d] = NetRead(s[d])]
  BY NetOfOne
<1>2. t \in NetStates /\ t[d] = NetRead(s[d])
  BY <1>1 DEF NetRead, NetStates, Net!Interfaces
<1>3. Net!KfreeSkb(t, d, by) = [s EXCEPT ![d] = NetFreed(NetRead(s[d]), by)]
  <2>1. Net!KfreeSkb(t, d, by) = [t EXCEPT ![d] = NetFreed(t[d], by)]
    BY <1>2, NetOfOne
  <2> QED
    BY <1>1, <1>2, <2>1 DEF NetStates
<1>4. Net!Interrupt(s, d, by) = IF "tx" \in s[d].status THEN Net!KfreeSkb(t, d, by) ELSE t
  BY DEF Net!Interrupt, Net!RegularInterrupt, Net!NapiInterrupt
<1> HIDE DEF t
<1> QED
  BY <1>1, <1>3, <1>4 DEF NetHandled

LEMMA NetPacketCome ==
  ASSUME NEW s \in NetStates, NEW d \in Net!Devs, NEW by, "rx" \in s[d].status,
                s[d].rx_queue > 0
  PROVE  /\ use_napi
             => Net!Interrupt(s, d, by) = [s EXCEPT ![d] = NetHandled(NetDisabled(s[d]), by)]
         /\ ~use_napi => Net!Interrupt(s, d, by) =
              [s EXCEPT ![d] = NetHandled(NetLess(s[d]), by),
               ![Net!Twin(d)] = NetGivenBack(s[Net!Twin(d)])]
<1> DEFINE t == Net!ClearStatus(s, d)
<1>1. t = [s EXCEPT ![d] = NetRead(s[d])]
  BY NetOfOne
<1>2. t \in NetStates /\ t[d] = NetRead(s[d])
  BY <1>1 DEF NetRead, NetStates, Net!Interfaces
<1>3. s[d] \in Net!Interfaces /\ Net!Twin(d) \in Net!Devs /\ Net!Twin(d) # d
  BY NetDevFacts DEF NetStates
<1> HIDE DEF t
<1>4. ASSUME use_napi
      PROVE  Net!Interrupt(s, d, by) = [s EXCEPT ![d] = NetHandled(NetDisabled(s[d]), by)]
  <2> DEFINE u == [t EXCEPT ![d].rx_int_enabled = FALSE,
                            ![d].scheduled = @ \/ s[d].state = "up",
                            ![d].shut = @ \/ ~(s[d].state = "up")]
  <2>1. u[d] = NetRead(NetDisabled(s[d])) /\ u = [s EXCEPT ![d] = NetRead(NetDisabled(s[d]))]
    <3> DEFINE w == [t[d] EXCEPT !.rx_int_enabled = FALSE, !.scheduled = @ \/ s[d].state = "up",
                                 !.shut = @ \/ ~(s[d].state = "up")]
    <3>1. u = [t EXCEPT ![d] = w]
      BY <1>2 DEF NetStates, Net!Interfaces
    <3>2. w = NetRead(NetDisabled(s[d]))
      BY <1>2, <1>3 DEF NetRead, NetDisabled, Net!Interfaces
    <3> HIDE DEF w, u
    <3> QED
      BY <1>1, <1>2, <3>1, <3>2 DEF NetStates
  <2>2. u \in NetStates
    <3>1. NetDisabled(s[d]) \in Net!Interfaces
      BY <1>3 DEF NetDisabled, Net!Interfaces
    <3>2. NetRead(NetDisabled(s[d])) \in Net!Interfaces
      BY <3>1 DEF NetRead, Net!Interfaces
    <3> HIDE DEF u
    <3> QED
      BY <2>1, <3>2 DEF NetStates
  <2>3. Net!Interrupt(s, d, by) = IF "tx" \in s[d].status THEN Net!KfreeSkb(u, d, by) ELSE u
    BY <1>4 DEF Net!Interrupt, Net!NapiInterrupt, t
  <2> HIDE DEF u
  <2>4. Net!KfreeSkb(u, d, by) = [s EXCEPT ![d] = NetFreed(NetRead(NetDisabled(s[d])), by)]
    <3>1. Net!KfreeSkb(u, d, by) = [u EXCEPT ![d] = NetFreed(u[d], by)]
      BY <2>2, NetOfOne
    <3> QED
      BY <2>1, <3>1 DEF NetStates
  <2>5. NetDisabled(s[d]).status = s[d].status
    BY <1>3 DEF NetDisabled, Net!Interfaces
  <2> QED
    BY <2>1, <2>3, <2>4, <2>5 DEF NetHandled
<1>5. ASSUME ~use_napi
      PROVE  Net!Interrupt(s, d, by) =
               [s EXCEPT ![d] = NetHandled(NetLess(s[d]), by),
                ![Net!Twin(d)] = NetGivenBack(s[Net!Twin(d)])]
  <2> DEFINE u == Net!Dequeue(t, d)
             v == IF "tx" \in s[d].status THEN Net!KfreeSkb(u, d, by) ELSE u
  <2>1. u = [t EXCEPT ![d] = NetLess(t[d])]
    BY <1>2, NetOfOne
  <2>2. NetLess(NetRead(s[d])) = NetRead(NetLess(s[d])) /\ NetLess(s[d]).status = s[d].status
    BY <1>3 DEF NetLess, NetRead, Net!Interfaces
  <2>3. u = [s EXCEPT ![d] = NetRead(NetLess(s[d]))] /\ u[d] = NetRead(NetLess(s[d]))
    BY <1>1, <1>2, <2>1, <2>2 DEF NetStates
  <2>4. NetLess(s[d]) \in Net!Interfaces /\ NetRead(NetLess(s[d])) \in Net!Interfaces
    <3>1. s[d].rx_queue - 1 \in Nat
      BY <1>3 DEF Net!Interfaces
    <3>2. NetLess(s[d]) \in Net!Interfaces
      BY <1>3, <3>1 DEF NetLess, Net!Interfaces
    <3> QED
      BY <3>2 DEF NetRead, Net!Interfaces
  <2>5. u \in NetStates
    BY <2>3, <2>4 DEF NetStates
  <2>6. Net!Interrupt(s, d, by) = Net!ReleaseBuffer(v, Net!Twin(d))
    BY <1>5 DEF Net!Interrupt, Net!RegularInterrupt, t
  <2> HIDE DEF u
  <2>7. Net!KfreeSkb(u, d, by) = [s EXCEPT ![d] = NetFreed(NetRead(NetLess(s[d])), by)]
    <3>1. Net!KfreeSkb(u, d, by) = [u EXCEPT ![d] = NetFreed(u[d], by)]
      BY <2>5, NetOfOne
    <3> QED
      BY <2>3, <3>1 DEF NetStates
  <2>8. v = [s EXCEPT ![d] = NetHandled(NetLess(s[d]), by)]
    BY <2>2, <2>3, <2>7 DEF NetHandled
  <2> HIDE DEF v
  <2>9. Net!ReleaseBuffer(v,
         Net!Twin(d)) = [v EXCEPT ![Net!Twin(d)] = NetGivenBack(v[Net!Twin(d)])]
    BY DEF Net!ReleaseBuffer, NetGivenBack
  <2> QED
    BY <1>3, <2>6, <2>8, <2>9 DEF NetStates
<1> QED
  BY <1>4, <1>5

-----------------------------------------------------------------------------
(* Transmission.                                                           *)

\* Where the buffers of both pools are has not changed, nor who is up.
NetBalanced(s, t) ==
  \A d \in Net!Devs :
    /\ t[d].state = s[d].state /\ t[d].total = s[d].total
    /\ t[d].ppool + t[Net!Twin(d)].rx_queue = s[d].ppool + s[Net!Twin(d)].rx_queue

NetAllWell(s) == s \in NetStates /\ \A d \in Net!Devs : Net!Sound(s[d]) /\ Net!Received(s[d])

LEMMA NetDeliverOk ==
  ASSUME use_napi \in BOOLEAN, NEW s, NetAllWell(s), NEW d \in Net!Devs, s[d].ppool > 0
  PROVE  /\ NetAllWell(Net!Deliver(s, d)) /\ NetBalanced(s, Net!Deliver(s, d))
         /\ Net!Deliver(s, d)[d].skb = s[d].skb
<1> DEFINE e == Net!Twin(d)
           i == s[d]
           j == s[e]
           t == Net!Deliver(s, d)
           u == Net!Enqueue(Net!GetTxBuffer(s, d), e)
<1>1. e \in Net!Devs /\ e # d /\ Net!Twin(e) = d /\ \A c \in Net!Devs : c = d \/ c = e
  BY NetDevFacts
<1>2. s \in NetStates /\ i \in Net!Interfaces /\ j \in Net!Interfaces /\ Net!Sound(i)
       /\ Net!Sound(j) /\ Net!Received(i) /\ Net!Received(j)
  BY <1>1 DEF NetAllWell, NetStates
<1> DEFINE i1 == NetTaken(i)
           j1 == NetMore(j)
<1>3. /\ i1 \in Net!Interfaces /\ Net!Sound(i1) /\ i1.ppool = i.ppool - 1
          /\ i1.rx_queue = i.rx_queue
      /\ i1.total = i.total /\ i1.state = i.state /\ i1.status = i.status /\ i1.skb = i.skb
      /\ i1.rx_int_enabled = i.rx_int_enabled
      /\ i1.scheduled = i.scheduled /\ i1.shut = i.shut
  BY <1>2, NetTakenOk
<1>4. /\ j1 \in Net!Interfaces /\ Net!Sound(j1) /\ j1.rx_queue = j.rx_queue + 1
          /\ j1.ppool = j.ppool
      /\ j1.total = j.total /\ j1.state = j.state /\ j1.status = j.status /\ j1.skb = j.skb
      /\ j1.rx_int_enabled = j.rx_int_enabled
      /\ j1.scheduled = j.scheduled /\ j1.shut = j.shut
  BY <1>2, NetQueueOk
<1>5. i.ppool \in Nat /\ i.rx_queue \in Nat /\ j.ppool \in Nat /\ j.rx_queue \in Nat
  BY <1>2 DEF Net!Interfaces
<1>6. Net!Received(i1)
  BY <1>2, <1>3 DEF Net!Received
<1> HIDE DEF i1, j1
<1>7. u \in NetStates /\ u[d] = i1 /\ u[e] = j1
  <2> DEFINE g == Net!GetTxBuffer(s, d)
  <2>1. g = [s EXCEPT ![d] = i1]
    BY <1>2, NetOfOne DEF i1
  <2>2. g \in NetStates /\ g[d] = i1 /\ g[e] = j
    BY <1>1, <1>2, <1>3, <2>1 DEF NetStates
  <2> HIDE DEF g
  <2>3. Net!Enqueue(g, e) = [g EXCEPT ![e] = j1]
    BY <1>1, <2>2, NetOfOne DEF j1
  <2> QED
    BY <1>1, <1>4, <2>2, <2>3 DEF NetStates, g
<1>8. t = IF u[e].rx_int_enabled THEN Net!Interrupt(Net!Raise(u, e, "rx"), e,
       "interrupt") ELSE u
  BY DEF Net!Deliver
<1> HIDE DEF u, t
\* It is enough to know what has become of the two.
<1>9. ASSUME t \in NetStates, Net!Sound(t[d]), Net!Received(t[d]), Net!Sound(t[e]),
              Net!Received(t[e]),
             t[d].state = i.state, t[d].total = i.total, t[d].skb = i.skb,
             t[e].state = j.state, t[e].total = j.total,
             t[d].ppool + t[e].rx_queue = i.ppool + j.rx_queue,
             t[e].ppool + t[d].rx_queue = j.ppool + i.rx_queue
      PROVE  NetAllWell(t) /\ NetBalanced(s, t) /\ t[d].skb = s[d].skb
  <2>1. NetAllWell(t)
    BY <1>1, <1>9 DEF NetAllWell
  <2>2. ASSUME NEW c \in Net!Devs
        PROVE  /\ t[c].state = s[c].state /\ t[c].total = s[c].total
               /\ t[c].ppool + t[Net!Twin(c)].rx_queue = s[c].ppool + s[Net!Twin(c)].rx_queue
    <3>1. CASE c = d
      BY <1>9, <3>1
    <3>2. CASE c = e
      BY <1>1, <1>9, <3>2
    <3> QED
      BY <1>1, <3>1, <3>2
  <2> QED
    BY <1>9, <2>1, <2>2 DEF NetBalanced
<1>10. CASE ~j.rx_int_enabled
  <2>1. t \in NetStates /\ t[d] = i1 /\ t[e] = j1
    BY <1>4, <1>7, <1>8, <1>10
  <2>2. Net!Received(j1)
    BY <1>2, <1>4, <1>10 DEF Net!Received
  <2>3. i1.ppool + j1.rx_queue = i.ppool + j.rx_queue
         /\ j1.ppool + i1.rx_queue = j.ppool + i.rx_queue
    BY <1>3, <1>4, <1>5
  <2> QED
    BY <1>3, <1>4, <1>6, <1>9, <2>1, <2>2, <2>3 DEF t
<1>11. CASE j.rx_int_enabled
  <2> DEFINE j2 == NetRaised(j1, "rx")
             v == Net!Raise(u, e, "rx")
  <2>1. /\ j2 \in Net!Interfaces /\ Net!Sound(j2) /\ j2.rx_queue = j.rx_queue + 1
            /\ j2.ppool = j.ppool
        /\ j2.total = j.total /\ j2.state = j.state /\ "rx" \in j2.status
        /\ j2.rx_int_enabled /\ j2.scheduled = j.scheduled /\ j2.shut = j.shut
    BY <1>4, <1>11, NetRaisedOk
  <2>2. v = [u EXCEPT ![e] = j2]
    BY <1>1, <1>7, NetOfOne
  <2> HIDE DEF j2, v
  <2>3. v \in NetStates /\ v[d] = i1 /\ v[e] = j2
    BY <1>1, <1>7, <2>1, <2>2 DEF NetStates
  <2>4. j2.rx_queue > 0 /\ t = Net!Interrupt(v, e, "interrupt")
    BY <1>4, <1>5, <1>7, <1>8, <1>11, <2>1 DEF v
  <2>5. CASE use_napi
    <3> DEFINE k == NetDisabled(j2)
               j3 == NetHandled(k, "interrupt")
    <3>1. /\ k \in Net!Interfaces /\ Net!Sound(k) /\ k.ppool = j2.ppool
              /\ k.rx_queue = j2.rx_queue
          /\ k.total = j2.total /\ k.state = j2.state /\ (k.scheduled \/ k.shut)
      BY <2>1, NetDisabledOk
    <3> HIDE DEF k
    <3>2. /\ j3 \in Net!Interfaces /\ Net!Sound(j3) /\ j3.ppool = k.ppool
              /\ j3.rx_queue = k.rx_queue
          /\ j3.total = k.total /\ j3.state = k.state /\ j3.status = {}
          /\ j3.scheduled = k.scheduled /\ j3.shut = k.shut
      BY <3>1, NetHandledOk DEF Net!Sound
    <3>3. t = [v EXCEPT ![e] = j3]
      BY <1>1, <2>3, <2>4, <2>1, <2>5, NetPacketCome DEF k
    <3> HIDE DEF j3
    <3>4. t \in NetStates /\ t[d] = i1 /\ t[e] = j3
      BY <1>1, <2>3, <3>2, <3>3 DEF NetStates
    <3>5. Net!Received(j3)
      BY <2>5, <3>1, <3>2 DEF Net!Received
    <3>6. /\ i1.ppool + j3.rx_queue = i.ppool + j.rx_queue
          /\ j3.ppool + i1.rx_queue = j.ppool + i.rx_queue
      BY <1>3, <1>5, <2>1, <3>1, <3>2
    <3> QED
      BY <1>3, <1>6, <1>9, <2>1, <3>1, <3>2, <3>4, <3>5, <3>6 DEF t
  <2>6. CASE ~use_napi
    <3> DEFINE k == NetLess(j2)
               j3 == NetHandled(k, "interrupt")
               i3 == NetGivenBack(i1)
    <3>1. /\ k \in Net!Interfaces /\ Net!Sound(k) /\ k.ppool = j2.ppool
          /\ k.total = j2.total /\ k.state = j2.state
          /\ k.rx_int_enabled = j2.rx_int_enabled /\ k.scheduled = j2.scheduled
          /\ k.shut = j2.shut
      BY <2>1, <2>4, NetQueueOk
    <3>2. k.rx_queue = j.rx_queue
      BY <1>5, <2>1 DEF NetLess, Net!Interfaces
    <3> HIDE DEF k
    <3>3. /\ j3 \in Net!Interfaces /\ Net!Sound(j3) /\ j3.ppool = k.ppool
              /\ j3.rx_queue = k.rx_queue
          /\ j3.total = k.total /\ j3.state = k.state /\ j3.status = {}
          /\ j3.rx_int_enabled = k.rx_int_enabled
          /\ j3.scheduled = k.scheduled /\ j3.shut = k.shut
      BY <3>1, NetHandledOk DEF Net!Sound
    <3>4. /\ i3 \in Net!Interfaces /\ Net!Sound(i3) /\ i3.ppool = i1.ppool + 1
          /\ i3.rx_queue = i1.rx_queue /\ i3.total = i1.total /\ i3.state = i1.state
          /\ i3.status = i1.status /\ i3.skb = i1.skb
          /\ i3.rx_int_enabled = i1.rx_int_enabled
          /\ i3.scheduled = i1.scheduled /\ i3.shut = i1.shut
      BY <1>3, NetGivenBackOk
    <3>5. t = [v EXCEPT ![e] = j3, ![d] = i3]
      BY <1>1, <2>1, <2>3, <2>4, <2>6, NetPacketCome DEF k
    <3> HIDE DEF j3, i3
    <3>6. t \in NetStates /\ t[d] = i3 /\ t[e] = j3
      BY <1>1, <2>3, <3>3, <3>4, <3>5 DEF NetStates
    <3>7. Net!Received(j3) /\ Net!Received(i3)
      BY <1>2, <1>6, <1>11, <2>1, <2>6, <3>1, <3>2, <3>3, <3>4 DEF Net!Received
    <3>8. /\ i3.ppool + j3.rx_queue = i.ppool + j.rx_queue
          /\ j3.ppool + i3.rx_queue = j.ppool + i.rx_queue
      BY <1>3, <1>5, <2>1, <3>1, <3>2, <3>3, <3>4
    <3> QED
      BY <1>3, <1>9, <2>1, <3>1, <3>3, <3>4, <3>6, <3>7, <3>8 DEF t
  <2> QED
    BY <2>5, <2>6
<1> QED
  BY <1>10, <1>11 DEF t

-----------------------------------------------------------------------------
(* The steps.                                                              *)

LEMMA NetInterfaceOk ==
  ASSUME NEW n \in Nat
  PROVE  /\ Net!Interface(n) \in Net!Interfaces /\ Net!Sound(Net!Interface(n))
             /\ Net!Received(Net!Interface(n))
         /\ Net!Interface(n).state # "freed" /\ Net!Interface(n).ppool = Net!Interface(n).total
         /\ Net!Interface(n).rx_queue = 0
BY DEF Net!Interface, Net!Interfaces, Net!Sound, Net!Received

LEMMA NetWellNow == ASSUME Net!IInv PROVE NetAllWell(net) /\ use_napi \in BOOLEAN
BY DEF Net!IInv, NetAllWell, NetStates

LEMMA NetInitIInv == ASSUME Net!Init PROVE Net!IInv
<1>1. PICK n \in Net!Pools : net = [d \in Net!Devs |-> Net!Interface(n[d])]
  BY DEF Net!Init
<1>2. ASSUME NEW d \in Net!Devs
      PROVE  /\ net[d] \in Net!Interfaces /\ Net!Sound(net[d]) /\ Net!Received(net[d])
             /\ net[d].ppool = net[d].total /\ net[d].rx_queue = 0 /\ net[d].total \in Nat
  <2>1. n[d] \in Nat /\ net[d] = Net!Interface(n[d])
    BY <1>1, SizesAssumption DEF Net!Pools
  <2>2. net[d] \in Net!Interfaces
    BY <2>1, NetInterfaceOk
  <2> QED
    BY <2>1, <2>2, NetInterfaceOk DEF Net!Interfaces
<1>3. net \in [Net!Devs -> Net!Interfaces]
  BY <1>1, <1>2
<1>4. use_napi \in BOOLEAN /\ polling = Net!None /\ fault = "none"
  BY DEF Net!Init
<1>5. \A d \in Net!Devs : Net!InHand(d) = 0
  BY <1>4, NetDevFacts DEF Net!InHand
<1>6. ASSUME NEW d \in Net!Devs
      PROVE  net[d].ppool + net[Net!Twin(d)].rx_queue + Net!InHand(Net!Twin(d)) = net[d].total
  <2>1. Net!Twin(d) \in Net!Devs
    BY NetDevFacts
  <2>2. net[d].ppool = net[d].total /\ net[Net!Twin(d)].rx_queue = 0
         /\ Net!InHand(Net!Twin(d)) = 0 /\ net[d].total \in Nat
    BY <1>2, <1>5, <2>1
  <2> QED
    BY <2>2
<1>7. Net!BuffersConserved
  BY <1>6 DEF Net!BuffersConserved
<1> QED
  BY <1>2, <1>3, <1>4, <1>7 DEF Net!IInv, Net!EmptyPoolNotSent

\* The buffers are where they were, but for the one in the hand of a poll.
LEMMA NetSameBuffers ==
  ASSUME Net!IInv, fault = "none", NetAllWell(net'), UNCHANGED <<use_napi, fault>>,
         polling' \in {0, 1, Net!None}, ~use_napi => polling' = Net!None,
         Net!Alive' => Net!Alive,
         Net!Alive' => \A d \in Net!Devs :
           /\ net'[d].total = net[d].total
           /\ net'[d].ppool + net'[Net!Twin(d)].rx_queue + Net!InHand(Net!Twin(d))'
                = net[d].ppool + net[Net!Twin(d)].rx_queue + Net!InHand(Net!Twin(d))
  PROVE  Net!IInv'
<1>1. Net!BuffersConserved'
  BY DEF Net!IInv, Net!BuffersConserved
<1>2. net' \in [Net!Devs -> Net!Interfaces] /\ use_napi' \in BOOLEAN
  BY DEF NetAllWell, NetStates, Net!IInv
<1>3. ASSUME NEW d \in Net!Devs
      PROVE  Net!Sound(net[d])' /\ Net!Received(net[d])'
  <2>1. Net!Sound(net'[d]) /\ Net!Received(net'[d])
    BY DEF NetAllWell
  <2> QED
    BY <2>1 DEF Net!Sound, Net!Received
<1>4. Net!EmptyPoolNotSent'
  BY DEF Net!EmptyPoolNotSent
<1>5. polling' \in {0, 1, Net!None} /\ (~use_napi' => polling' = Net!None)
  OBVIOUS
<1> QED
  BY <1>1, <1>2, <1>3, <1>4, <1>5 DEF Net!IInv

LEMMA NetSentStep ==
  ASSUME Net!IInv, fault = "none", NetAllWell(net'), NetBalanced(net, net'),
         UNCHANGED <<use_napi, polling, fault>>
  PROVE  Net!IInv'
<1>1. Net!Alive' => Net!Alive
  BY DEF Net!Alive, NetBalanced
<1>2. ASSUME NEW d \in Net!Devs
      PROVE  /\ net'[d].total = net[d].total
             /\ net'[d].ppool + net'[Net!Twin(d)].rx_queue + Net!InHand(Net!Twin(d))'
                  = net[d].ppool + net[Net!Twin(d)].rx_queue + Net!InHand(Net!Twin(d))
  BY DEF NetBalanced, Net!InHand
<1>3. polling' \in {0, 1, Net!None} /\ (~use_napi => polling' = Net!None)
  BY DEF Net!IInv
<1> QED
  BY <1>1, <1>2, <1>3, NetSameBuffers

LEMMA NetTxStep ==
  ASSUME Net!IInv, fault = "none", NEW d \in Net!Devs, Net!Tx(d)
  PROVE  Net!IInv'
<1> DEFINE s == [net EXCEPT ![d].skb = "held"]
           i == [net[d] EXCEPT !.skb = "held"]
           t == Net!Deliver(s, d)
           u == Net!Raise(t, d, "tx")
<1>1. NetAllWell(net) /\ use_napi \in BOOLEAN /\ net[d].ppool > 0
  BY NetWellNow DEF Net!Tx
<1>2. net[d] \in Net!Interfaces /\ Net!Sound(net[d]) /\ Net!Received(net[d])
  BY <1>1 DEF NetAllWell, NetStates
<1>3. /\ i \in Net!Interfaces /\ i.skb = "held" /\ i.ppool = net[d].ppool
      /\ i.rx_queue = net[d].rx_queue /\ i.total = net[d].total /\ i.state = net[d].state
  BY <1>2 DEF Net!Interfaces
<1>4. Net!Sound(i) /\ Net!Received(i)
  BY <1>2 DEF Net!Sound, Net!Received, Net!Interfaces
<1>5. s = [net EXCEPT ![d] = i]
  OBVIOUS
<1> HIDE DEF s, i
<1>6. s \in NetStates /\ s[d] = i /\ \A c \in Net!Devs \ {d} : s[c] = net[c]
  BY <1>1, <1>3, <1>5 DEF NetAllWell, NetStates
<1>7. NetAllWell(s) /\ s[d].ppool > 0
  BY <1>1, <1>3, <1>4, <1>6 DEF NetAllWell
<1>8. \A c \in Net!Devs :
        /\ s[c].state = net[c].state /\ s[c].total = net[c].total
        /\ s[c].ppool = net[c].ppool /\ s[c].rx_queue = net[c].rx_queue
  BY <1>3, <1>6
<1>9. NetAllWell(t) /\ NetBalanced(s, t) /\ t[d].skb = "held"
  BY <1>1, <1>3, <1>6, <1>7, NetDeliverOk
<1>10. NetBalanced(net, t)
  BY <1>8, <1>9, NetDevFacts DEF NetBalanced
<1> HIDE DEF t
<1>11. t \in NetStates /\ t[d] \in Net!Interfaces /\ Net!Sound(t[d]) /\ Net!Received(t[d])
  BY <1>9 DEF NetAllWell, NetStates
<1> DEFINE k == NetRaised(t[d], "tx")
<1>12. /\ k \in Net!Interfaces /\ Net!Sound(k) /\ k.ppool = t[d].ppool
           /\ k.rx_queue = t[d].rx_queue
       /\ k.total = t[d].total /\ k.state = t[d].state /\ "rx" \notin k.status
       /\ k.rx_int_enabled = t[d].rx_int_enabled
       /\ k.scheduled = t[d].scheduled /\ k.shut = t[d].shut
  BY <1>9, <1>11, NetRaisedOk DEF Net!Received
<1>13. u = [t EXCEPT ![d] = k]
  BY <1>11, NetOfOne
<1> HIDE DEF k, u
<1>14. u \in NetStates /\ u[d] = k
  BY <1>11, <1>12, <1>13 DEF NetStates
<1>15. PICK lost \in {FALSE, lockup} :
         net' = IF lost THEN [u EXCEPT ![d].stopped = TRUE] ELSE Net!Interrupt(u, d,
          "interrupt")
  BY DEF Net!Tx, Net!HwTx, u, t, s
<1>16. UNCHANGED <<use_napi, polling, fault>>
  BY DEF Net!Tx
<1>17. ASSUME NEW m \in Net!Interfaces, net' = [t EXCEPT ![d] = m], Net!Sound(m),
                     Net!Received(m),
              m.ppool = k.ppool, m.rx_queue = k.rx_queue, m.total = k.total, m.state = k.state
       PROVE  Net!IInv'
  <2>1. net' \in NetStates /\ net'[d] = m /\ \A c \in Net!Devs \ {d} : net'[c] = t[c]
    BY <1>11, <1>17 DEF NetStates
  <2>2. NetAllWell(net')
    BY <1>9, <1>17, <2>1 DEF NetAllWell
  <2>3. \A c \in Net!Devs :
          /\ net'[c].state = t[c].state /\ net'[c].total = t[c].total
          /\ net'[c].ppool = t[c].ppool /\ net'[c].rx_queue = t[c].rx_queue
    BY <1>12, <1>17, <2>1
  <2>4. NetBalanced(net, net')
    BY <1>10, <2>3, NetDevFacts DEF NetBalanced
  <2> QED
    BY <1>16, <2>2, <2>4, NetSentStep
<1>18. CASE lost
  <2> DEFINE m == [k EXCEPT !.stopped = TRUE]
  <2>1. net' = [t EXCEPT ![d] = m]
    BY <1>11, <1>13, <1>14, <1>15, <1>18 DEF NetStates
  <2>2. /\ m \in Net!Interfaces /\ m.ppool = k.ppool /\ m.rx_queue = k.rx_queue
        /\ m.total = k.total /\ m.state = k.state /\ m.status = k.status /\ m.skb = k.skb
        /\ m.stopped /\ m.rx_int_enabled = k.rx_int_enabled
        /\ m.scheduled = k.scheduled /\ m.shut = k.shut
    BY <1>12 DEF Net!Interfaces
  <2>3. Net!Sound(m)
    BY <1>12, <2>2 DEF Net!Sound
  <2>4. Net!Received(m)
    BY <1>11, <1>12, <2>2 DEF Net!Received
  <2> HIDE DEF m
  <2> QED
    BY <1>17, <2>1, <2>2, <2>3, <2>4
<1>19. CASE ~lost
  <2> DEFINE m == NetHandled(k, "interrupt")
  <2>1. /\ m \in Net!Interfaces /\ Net!Sound(m) /\ m.ppool = k.ppool /\ m.rx_queue = k.rx_queue
        /\ m.total = k.total /\ m.state = k.state /\ m.status = {}
        /\ m.rx_int_enabled = k.rx_int_enabled
        /\ m.scheduled = k.scheduled /\ m.shut = k.shut
    BY <1>12, NetHandledOk DEF Net!Sound
  <2>2. net' = [u EXCEPT ![d] = m]
    BY <1>1, <1>12, <1>14, <1>15, <1>19, NetEndOfTransmission
  <2>3. net' = [t EXCEPT ![d] = m]
    BY <1>11, <1>13, <2>2 DEF NetStates
  <2>4. Net!Received(m)
    BY <1>11, <1>12, <2>1 DEF Net!Received
  <2> HIDE DEF m
  <2> QED
    BY <1>17, <2>1, <2>3, <2>4
<1> QED
  BY <1>18, <1>19

LEMMA NetCrashStep ==
  ASSUME Net!IInv, NEW why, Net!Crash(why), why \notin {"none",
          "pool_empty_started_by_release"},
         UNCHANGED use_napi
  PROVE  Net!IInv'
<1>1. fault' = why /\ net' = [d \in Net!Devs |-> Net!Interface(0)] /\ polling' = Net!None
  BY DEF Net!Crash
<1>2. 0 \in Nat
  OBVIOUS
<1>3. net' \in [Net!Devs -> Net!Interfaces]
  BY <1>1, <1>2, NetInterfaceOk
<1>4. ASSUME NEW d \in Net!Devs
      PROVE  Net!Sound(net[d])' /\ Net!Received(net[d])'
  <2>1. net'[d] = Net!Interface(0)
    BY <1>1
  <2>2. Net!Sound(Net!Interface(0)) /\ Net!Received(Net!Interface(0))
    BY <1>2, NetInterfaceOk
  <2> QED
    BY <2>1, <2>2 DEF Net!Sound, Net!Received
<1>5. ~Net!Alive' /\ Net!EmptyPoolNotSent'
  BY <1>1 DEF Net!Alive, Net!EmptyPoolNotSent
<1>6. Net!BuffersConserved'
  BY <1>5 DEF Net!BuffersConserved
<1>7. use_napi' \in BOOLEAN /\ polling' \in {0, 1, Net!None} /\ (~use_napi'
       => polling' = Net!None)
  BY <1>1 DEF Net!IInv
<1> QED
  BY <1>3, <1>4, <1>5, <1>6, <1>7 DEF Net!IInv

\* A step that changes one interface.
LEMMA NetOneStep ==
  ASSUME Net!IInv, fault = "none", NEW d \in Net!Devs, NEW m \in Net!Interfaces,
          net' = [net EXCEPT ![d] = m],
         Net!Sound(m), Net!Received(m), UNCHANGED <<use_napi, fault, polling>>,
         m.state # "freed" =>
           /\ net[d].state # "freed" /\ m.total = net[d].total
           /\ m.ppool = net[d].ppool /\ m.rx_queue = net[d].rx_queue
  PROVE  Net!IInv'
<1>1. NetAllWell(net)
  BY NetWellNow
<1>2. net' \in NetStates /\ net'[d] = m /\ \A c \in Net!Devs \ {d} : net'[c] = net[c]
  BY <1>1 DEF NetAllWell, NetStates
<1>3. NetAllWell(net')
  BY <1>1, <1>2 DEF NetAllWell
<1>4. Net!Alive' => Net!Alive /\ m.state # "freed"
  BY <1>2 DEF Net!Alive
<1>5. ASSUME Net!Alive', NEW c \in Net!Devs
      PROVE  /\ net'[c].total = net[c].total
             /\ net'[c].ppool + net'[Net!Twin(c)].rx_queue + Net!InHand(Net!Twin(c))'
                  = net[c].ppool + net[Net!Twin(c)].rx_queue + Net!InHand(Net!Twin(c))
  <2>1. \A b \in Net!Devs : /\ net'[b].total = net[b].total /\ net'[b].ppool = net[b].ppool
                        /\ net'[b].rx_queue = net[b].rx_queue
    BY <1>2, <1>4, <1>5
  <2>2. Net!Twin(c) \in Net!Devs /\ Net!InHand(Net!Twin(c))' = Net!InHand(Net!Twin(c))
    BY NetDevFacts DEF Net!InHand
  <2> QED
    BY <2>1, <2>2
<1>6. polling' \in {0, 1, Net!None} /\ (~use_napi => polling' = Net!None)
  BY DEF Net!IInv
<1> QED
  BY <1>3, <1>4, <1>5, <1>6, NetSameBuffers


LEMMA NetTxFaultStep ==
  ASSUME Net!IInv, fault = "none", NEW d \in Net!Devs, Net!TxFault(d)
  PROVE  Net!IInv'
<1>1. use_napi' = use_napi
  BY DEF Net!TxFault
<1>2. CASE net[Net!Twin(d)].state = "freed" /\ Net!Crash("freed_twin")
  BY <1>1, <1>2, NetCrashStep
<1>3. CASE net[d].ppool = 0 /\ Net!Crash(Net!Empty(d))
  <2>1. Net!Sound(net[d]) /\ ~net[d].stopped
    BY DEF Net!IInv, Net!TxFault
  <2>2. net[d].starter # "release"
    BY <1>3, <2>1 DEF Net!Sound
  <2>3. Net!Empty(d) = "pool_empty"
    BY <2>2 DEF Net!Empty
  <2> QED
    BY <1>1, <1>3, <2>3, NetCrashStep
<1> QED
  BY <1>2, <1>3 DEF Net!TxFault

LEMMA NetTxTimeoutStep ==
  ASSUME Net!IInv, fault = "none", NEW d \in Net!Devs, Net!TxTimeout(d)
  PROVE  Net!IInv'
<1> DEFINE i == [net[d] EXCEPT !.status = {"tx"}]
           s == [net EXCEPT ![d] = i]
           h == NetHandled(i, "timeout")
           m == [h EXCEPT !.stopped = FALSE, !.starter = "timeout"]
<1>1. net \in NetStates /\ use_napi \in BOOLEAN /\ net[d] \in Net!Interfaces
      /\ Net!Sound(net[d]) /\ Net!Received(net[d])
  BY NetWellNow DEF NetAllWell, NetStates
<1>2. /\ i \in Net!Interfaces /\ i.ppool = net[d].ppool /\ i.rx_queue = net[d].rx_queue
      /\ i.total = net[d].total /\ i.state = net[d].state /\ i.status = {"tx"}
      /\ i.starter = net[d].starter /\ i.stopped = net[d].stopped
      /\ i.rx_int_enabled = net[d].rx_int_enabled
      /\ i.scheduled = net[d].scheduled /\ i.shut = net[d].shut
  BY <1>1 DEF Net!Interfaces
<1>3. s \in NetStates /\ s[d] = i /\ s = [net EXCEPT ![d].status = {"tx"}]
  BY <1>1, <1>2 DEF NetStates
<1> HIDE DEF s, i
<1>4. /\ h \in Net!Interfaces /\ h.ppool = i.ppool /\ h.rx_queue = i.rx_queue
      /\ h.total = i.total /\ h.state = i.state /\ h.status = {}
      /\ h.rx_int_enabled = i.rx_int_enabled
      /\ h.scheduled = i.scheduled /\ h.shut = i.shut
  BY <1>1, <1>2, NetHandledOk DEF Net!Sound
<1>5. Net!Interrupt(s, d, "timeout") = [s EXCEPT ![d] = h]
  <2>1. "rx" \notin s[d].status
    BY <1>2, <1>3
  <2> HIDE DEF h
  <2>2. h = NetHandled(s[d], "timeout")
    BY <1>3 DEF h
  <2>3. s \in NetStates /\ use_napi \in BOOLEAN
    BY <1>1, <1>3
  <2>4. Net!Interrupt(s, d, "timeout") = [s EXCEPT ![d] = NetHandled(s[d], "timeout")]
    BY <2>1, <2>3, NetEndOfTransmission
  <2> QED
    BY <2>2, <2>4
<1> HIDE DEF h
<1>6. [s EXCEPT ![d] = h] = [net EXCEPT ![d] = h]
  BY <1>1, <1>2, <1>4 DEF NetStates, s
<1>7. net' = [net EXCEPT ![d] = m]
  <2>1. net' = [[net EXCEPT ![d] = h] EXCEPT ![d].stopped = FALSE, ![d].starter = "timeout"]
    BY <1>3, <1>5, <1>6 DEF Net!TxTimeout
  <2> QED
    BY <1>1, <1>4, <2>1 DEF NetStates
<1>8. /\ m \in Net!Interfaces /\ m.ppool = h.ppool /\ m.rx_queue = h.rx_queue
      /\ m.total = h.total /\ m.state = h.state /\ m.status = {} /\ m.starter = "timeout"
      /\ m.rx_int_enabled = h.rx_int_enabled
      /\ m.scheduled = h.scheduled /\ m.shut = h.shut
  BY <1>4 DEF Net!Interfaces
<1> HIDE DEF m
<1>9. Net!Sound(m) /\ Net!Received(m)
  BY <1>1, <1>2, <1>4, <1>8 DEF Net!Sound, Net!Received
<1>10. UNCHANGED <<use_napi, polling, fault>> /\ net[d].state = "up"
  BY DEF Net!TxTimeout
<1> QED
  BY <1>2, <1>4, <1>7, <1>8, <1>9, <1>10, NetOneStep

\* A step that only opens, closes or completes the poll of an interface.
LEMMA NetQuiet ==
  ASSUME Net!IInv, fault = "none", NEW d \in Net!Devs,
         NEW st \in {"up", "down", "closing", "freed"}, NEW stopped \in BOOLEAN,
         NEW starter \in {"none", "open", "timeout", "release"},
         NEW e \in BOOLEAN, NEW sch \in BOOLEAN,
         net' = [net EXCEPT ![d] = [net[d] EXCEPT !.state = st, !.stopped = stopped,
                    !.starter = starter, !.rx_int_enabled = e, !.scheduled = sch]],
         UNCHANGED <<use_napi, polling, fault>>, st = "freed" \/ net[d].state # "freed",
         starter = "release" => starter = net[d].starter /\ (net[d].stopped => stopped),
         \/ e = net[d].rx_int_enabled /\ sch = net[d].scheduled
         \/ e /\ ~sch /\ net[d].rx_queue = 0
  PROVE  Net!IInv'
<1> DEFINE m == [net[d] EXCEPT !.state = st, !.stopped = stopped,
                    !.starter = starter, !.rx_int_enabled = e, !.scheduled = sch]
<1>1. net[d] \in Net!Interfaces /\ Net!Sound(net[d]) /\ Net!Received(net[d])
  BY DEF Net!IInv
<1>2. m \in Net!Interfaces
  BY <1>1 DEF Net!Interfaces
<1>3. /\ m.ppool = net[d].ppool /\ m.rx_queue = net[d].rx_queue /\ m.skb = net[d].skb
      /\ m.total = net[d].total /\ m.state = st /\ m.status = net[d].status
      /\ m.starter = starter /\ m.stopped = stopped
      /\ m.rx_int_enabled = e /\ m.scheduled = sch /\ m.shut = net[d].shut
  BY <1>1 DEF Net!Interfaces
<1>4. net' = [net EXCEPT ![d] = m]
  OBVIOUS
<1> HIDE DEF m
<1>5. Net!Sound(m)
  BY <1>1, <1>3 DEF Net!Sound
<1>6. net[d].rx_queue \in Nat
  BY <1>1 DEF Net!Interfaces
<1>7. Net!Received(m)
  BY <1>1, <1>3, <1>6 DEF Net!Received
<1> QED
  BY <1>2, <1>3, <1>4, <1>5, <1>7, NetOneStep

LEMMA NetQuietSteps ==
  ASSUME Net!IInv, fault = "none", NEW d \in Net!Devs,
         Net!PollDone(d) \/ Net!Open(d) \/ Net!Close(d) \/ Net!Release(d)
  PROVE  Net!IInv'
<1>1. net \in [Net!Devs -> Net!Interfaces] /\ net[d] \in Net!Interfaces /\ Net!Received(net[d])
  BY DEF Net!IInv
<1>2. /\ net[d].state \in {"down", "up", "closing", "freed"} /\ net[d].stopped \in BOOLEAN
      /\ net[d].starter \in {"none", "open", "timeout", "release"}
      /\ net[d].rx_int_enabled \in BOOLEAN /\ net[d].scheduled \in BOOLEAN
  BY <1>1 DEF Net!Interfaces
<1>3. CASE Net!PollDone(d)
  <2>1. net' = [net EXCEPT ![d] = [net[d] EXCEPT !.state = net[d].state,
         !.stopped = net[d].stopped,
                    !.starter = net[d].starter, !.rx_int_enabled = TRUE, !.scheduled = FALSE]]
    BY <1>1, <1>3 DEF Net!PollDone, Net!Complete, Net!Interfaces
  <2>2. net[d].rx_queue = 0 /\ UNCHANGED <<use_napi, polling, fault>>
    BY <1>3 DEF Net!PollDone
  <2> QED
    BY <1>2, <1>3, <2>1, <2>2, NetQuiet
<1>4. CASE Net!Open(d)
  <2>1. net' = [net EXCEPT ![d] = [net[d] EXCEPT !.state = "up", !.stopped = FALSE,
                    !.starter = "open", !.rx_int_enabled = net[d].rx_int_enabled,
                    !.scheduled = net[d].scheduled]]
    BY <1>1, <1>4 DEF Net!Open, Net!Interfaces
  <2>2. net[d].state # "freed" /\ UNCHANGED <<use_napi, polling, fault>>
    BY <1>4 DEF Net!Open
  <2> QED
    BY <1>2, <2>1, <2>2, NetQuiet
<1>5. CASE Net!Close(d)
  <2> DEFINE m == [net[d] EXCEPT !.state = "closing"]
  <2>1. net' = [net EXCEPT ![d] = m] /\ net[d].state # "freed"
        /\ UNCHANGED <<use_napi, polling, fault>>
    BY <1>1, <1>5 DEF Net!Close
  <2>2. /\ m \in Net!Interfaces /\ m.ppool = net[d].ppool /\ m.rx_queue = net[d].rx_queue
        /\ m.skb = net[d].skb /\ m.total = net[d].total /\ m.status = net[d].status
        /\ m.starter = net[d].starter /\ m.stopped = net[d].stopped
        /\ m.rx_int_enabled = net[d].rx_int_enabled
        /\ m.scheduled = net[d].scheduled /\ m.shut = net[d].shut
    BY <1>1 DEF Net!Interfaces
  <2>3. Net!Sound(net[d])
    BY DEF Net!IInv
  <2> HIDE DEF m
  <2>4. Net!Sound(m) /\ Net!Received(m)
    BY <1>1, <2>2, <2>3 DEF Net!Sound, Net!Received
  <2> QED
    BY <2>1, <2>2, <2>4, NetOneStep
<1>6. CASE Net!Release(d)
  <2>1. net' = [net EXCEPT ![d] = [net[d] EXCEPT !.state = "down", !.stopped = TRUE,
                    !.starter = net[d].starter, !.rx_int_enabled = net[d].rx_int_enabled,
                    !.scheduled = net[d].scheduled]]
    BY <1>1, <1>6 DEF Net!Release, Net!Interfaces
  <2>2. net[d].state # "freed" /\ UNCHANGED <<use_napi, polling, fault>>
    BY <1>6 DEF Net!Release
  <2> QED
    BY <1>2, <2>1, <2>2, NetQuiet
<1> QED
  BY <1>3, <1>4, <1>5, <1>6

LEMMA NetPollTakeStep ==
  ASSUME Net!IInv, fault = "none", NEW d \in Net!Devs, Net!PollTake(d)
  PROVE  Net!IInv'
<1> DEFINE m == NetLess(net[d])
<1>1. net \in NetStates /\ use_napi \in BOOLEAN /\ NetAllWell(net)
      /\ net[d] \in Net!Interfaces /\ Net!Sound(net[d]) /\ Net!Received(net[d])
  BY NetWellNow DEF NetAllWell, NetStates
<1>2. net' = [net EXCEPT ![d] = m]
  BY <1>1, NetOfOne DEF Net!PollTake
<1>3. net[d].rx_queue \in Nat /\ net[d].rx_queue - 1 \in Nat /\ net[d].rx_queue > 0
  BY <1>1 DEF Net!PollTake, Net!Interfaces
<1>4. /\ m \in Net!Interfaces /\ m.ppool = net[d].ppool /\ m.rx_queue = net[d].rx_queue - 1
      /\ m.total = net[d].total /\ m.state = net[d].state /\ m.status = net[d].status
      /\ m.starter = net[d].starter /\ m.stopped = net[d].stopped /\ m.skb = net[d].skb
      /\ m.rx_int_enabled = net[d].rx_int_enabled
      /\ m.scheduled = net[d].scheduled /\ m.shut = net[d].shut
  BY <1>1, <1>3 DEF Net!Interfaces, NetLess
<1> HIDE DEF m
<1>5. net[d].scheduled /\ polling = Net!None /\ polling' = d /\ UNCHANGED <<use_napi, fault>>
  BY DEF Net!PollTake
<1>6. use_napi
  BY <1>1, <1>5 DEF Net!Received
<1>7. Net!Sound(m)
  BY <1>1, <1>4 DEF Net!Sound
<1>8. Net!Received(m)
  BY <1>1, <1>4, <1>5, <1>6 DEF Net!Received
<1>9. net' \in NetStates /\ net'[d] = m /\ \A c \in Net!Devs \ {d} : net'[c] = net[c]
  BY <1>1, <1>2, <1>4 DEF NetStates
<1>10. NetAllWell(net')
  BY <1>1, <1>7, <1>8, <1>9 DEF NetAllWell
<1>11. Net!Alive' => Net!Alive
  BY <1>4, <1>5, <1>9 DEF Net!Alive
<1>12. ASSUME NEW c \in Net!Devs
       PROVE  /\ net'[c].total = net[c].total
              /\ net'[c].ppool + net'[Net!Twin(c)].rx_queue + Net!InHand(Net!Twin(c))'
                   = net[c].ppool + net[Net!Twin(c)].rx_queue + Net!InHand(Net!Twin(c))
  <2>1. Net!Twin(c) \in Net!Devs /\ Net!None \notin Net!Devs
    BY NetDevFacts
  <2>2. net[c].ppool \in Nat /\ net[Net!Twin(c)].rx_queue \in Nat
    BY <1>1, <2>1 DEF NetStates, Net!Interfaces
  <2>3. net'[c].total = net[c].total /\ net'[c].ppool = net[c].ppool
    BY <1>4, <1>9
  <2>4. Net!InHand(Net!Twin(c)) = 0
    BY <1>5, <2>1 DEF Net!InHand
  <2>5. CASE Net!Twin(c) = d
    BY <1>4, <1>5, <1>9, <2>2, <2>3, <2>4, <2>5 DEF Net!InHand
  <2>6. CASE Net!Twin(c) # d
    BY <1>5, <1>9, <2>1, <2>2, <2>3, <2>4, <2>6 DEF Net!InHand
  <2> QED
    BY <2>5, <2>6
<1>13. polling' \in {0, 1, Net!None}
  BY <1>5 DEF Net!Devs
<1> QED
  BY <1>5, <1>6, <1>10, <1>11, <1>12, <1>13, NetSameBuffers

LEMMA NetPollReleaseStep ==
  ASSUME Net!IInv, fault = "none", NEW d \in Net!Devs, Net!PollRelease(d)
  PROVE  Net!IInv'
<1> DEFINE e == Net!Twin(d)
           m == NetGivenBack(net[e])
<1>1. e \in Net!Devs /\ Net!Twin(e) = d /\ e # d /\ d # Net!None
       /\ \A c \in Net!Devs : c = d \/ c = e
  BY NetDevFacts
<1> HIDE DEF e
<1>2. net \in NetStates /\ use_napi \in BOOLEAN /\ NetAllWell(net)
      /\ net[e] \in Net!Interfaces /\ Net!Sound(net[e]) /\ Net!Received(net[e])
  BY <1>1, NetWellNow DEF NetAllWell, NetStates
<1>3. use_napi' = use_napi /\ polling = d /\ use_napi
  BY <1>1 DEF Net!PollRelease, Net!IInv
<1>4. CASE net[e].state = "freed"
  BY <1>3, <1>4, NetCrashStep DEF Net!PollRelease, e
<1>5. CASE net[e].state # "freed"
  <2>1. net' = Net!ReleaseBuffer(net, e) /\ polling' = Net!None /\ fault' = fault
    BY <1>5 DEF Net!PollRelease, e
  <2>2. net' = [net EXCEPT ![e] = m]
    BY <1>1, <1>2, <2>1, NetOfOne
  <2>3. /\ m \in Net!Interfaces /\ Net!Sound(m)
        /\ m.ppool = net[e].ppool + 1 /\ m.rx_queue = net[e].rx_queue
        /\ m.total = net[e].total /\ m.state = net[e].state
        /\ m.status = net[e].status /\ m.skb = net[e].skb
        /\ m.rx_int_enabled = net[e].rx_int_enabled
        /\ m.scheduled = net[e].scheduled /\ m.shut = net[e].shut
    BY <1>2, NetGivenBackOk
  <2> HIDE DEF m
  <2>4. Net!Received(m)
    BY <1>2, <2>3 DEF Net!Received
  <2>5. net' \in NetStates /\ net'[e] = m /\ net'[d] = net[d]
    BY <1>1, <1>2, <2>2, <2>3 DEF NetStates
  <2>6. NetAllWell(net')
    BY <1>1, <1>2, <2>3, <2>4, <2>5 DEF NetAllWell
  <2>7. Net!Alive' => Net!Alive
    BY <1>1, <2>1, <2>3, <2>5 DEF Net!Alive
  <2>8. /\ net[d].ppool \in Nat /\ net[e].ppool \in Nat
        /\ net[d].rx_queue \in Nat /\ net[e].rx_queue \in Nat
    BY <1>1, <1>2 DEF NetStates, Net!Interfaces
  <2>9. Net!InHand(d) = 1 /\ Net!InHand(e) = 0 /\ Net!InHand(d)' = 0 /\ Net!InHand(e)' = 0
    BY <1>1, <1>3, <2>1, NetDevFacts DEF Net!InHand
  <2>10. Net!Twin(d) = e
    BY DEF e
  <2>11. ASSUME NEW c \in Net!Devs
         PROVE  /\ net'[c].total = net[c].total
                /\ net'[c].ppool + net'[Net!Twin(c)].rx_queue + Net!InHand(Net!Twin(c))'
                     = net[c].ppool + net[Net!Twin(c)].rx_queue + Net!InHand(Net!Twin(c))
    <3>1. CASE c = d
      BY <2>3, <2>5, <2>8, <2>9, <2>10, <3>1
    <3>2. CASE c = e
      BY <1>1, <2>3, <2>5, <2>8, <2>9, <3>2
    <3> QED
      BY <1>1, <3>1, <3>2
  <2>12. polling' \in {0, 1, Net!None} /\ (~use_napi => polling' = Net!None)
    BY <2>1
  <2> QED
    BY <1>3, <2>1, <2>6, <2>7, <2>11, <2>12, NetSameBuffers
<1> QED
  BY <1>4, <1>5

LEMMA NetCleanupStep ==
  ASSUME Net!IInv, fault = "none", NEW d \in Net!Devs, Net!Cleanup(d)
  PROVE  Net!IInv'
<1>1. /\ Net!TornDown \in Net!Interfaces /\ Net!Sound(Net!TornDown)
          /\ Net!Received(Net!TornDown)
      /\ Net!TornDown.state = "freed"
  <2>1. /\ Net!TornDown.starter = "none" /\ Net!TornDown.status = {}
            /\ Net!TornDown.rx_queue = 0
        /\ Net!TornDown.rx_int_enabled /\ ~Net!TornDown.scheduled
            /\ Net!TornDown.state = "freed"
    BY DEF Net!TornDown, Net!Interface
  <2>2. Net!TornDown \in Net!Interfaces
    BY DEF Net!TornDown, Net!Interface, Net!Interfaces
  <2> QED
    BY <2>1, <2>2 DEF Net!Sound, Net!Received
<1>2. net' = [net EXCEPT ![d] = Net!TornDown] /\ UNCHANGED <<use_napi, polling, fault>>
  BY DEF Net!Cleanup
<1> QED
  BY <1>1, <1>2, NetOneStep

LEMMA NetNextIInv == ASSUME Net!IInv, Net!Next \/ UNCHANGED Net!vars PROVE Net!IInv'
<1>1. CASE UNCHANGED Net!vars
  <2>1. UNCHANGED <<use_napi, net, polling, fault>>
    BY <1>1 DEF Net!vars
  <2> QED
    BY <2>1 DEF Net!IInv, Net!BuffersConserved, Net!Alive, Net!InHand, Net!EmptyPoolNotSent,
       Net!Sound, Net!Received
<1>2. ASSUME fault = "none", NEW d \in Net!Devs, Net!Step(d) PROVE Net!IInv'
  BY <1>2, NetTxStep, NetTxFaultStep, NetTxTimeoutStep, NetPollTakeStep, NetPollReleaseStep,
     NetQuietSteps,
     NetCleanupStep DEF Net!Step
<1> QED
  BY <1>1, <1>2 DEF Net!Next, Net!Stop

\* What the inductive invariant says of the properties that TLC checks.
LEMMA NetIInvSafe == ASSUME Net!IInv PROVE Net!PacketsSafe
<1>1. ASSUME NEW d \in Net!Devs
      PROVE  net[d].skb # "freed_again" /\ (net[d].rx_queue > 0 => net[d].scheduled
              \/ net[d].shut)
  <2>1. net[d] \in Net!Interfaces /\ Net!Received(net[d])
    BY DEF Net!IInv
  <2> QED
    BY <2>1 DEF Net!Interfaces, Net!Received
<1> QED
  BY <1>1 DEF Net!IInv, Net!PacketsSafe, Net!SkbFreedOnce, Net!NothingStranded

-----------------------------------------------------------------------------
(* shortprint: what drives the output.                                     *)

PrinterSlots == 0..(Size - 1)

LEMMA PrinterInitIInv == ASSUME Printer!Init PROVE Printer!IInv
<1>1. Printer!TypeOK
  BY SizesAssumption DEF Printer!Init, Printer!TypeOK, Printer!Phases, Printer!Loading,
     Printer!Leaving, Printer!Blank
<1>2. Printer!TypeInv
  BY <1>1 DEF Printer!Init, Printer!TypeInv, Printer!Labels
<1> QED
  BY <1>2 DEF Printer!Init, Printer!IInv, Printer!DrivenInv, Printer!WaitingIsSent,
     Printer!TimerOnlyWhileActive, Printer!NoWorkLeft,
     Printer!ClosedInv, Printer!EarlyInv, Printer!LoadInv, Printer!FaultsExplained

LEMMA PrinterMoves ==
  ASSUME Printer!TypeInv, NEW w \in Writers, NEW from, NEW to \in Printer!Labels,
          Printer!Goto(w, from, to)
  PROVE  /\ print_pc[w] = from /\ print_pc' \in [Writers -> Printer!Labels] /\ print_pc'[w] = to
         /\ \A x \in Writers \ {w} : print_pc'[x] = print_pc[x]
BY DEF Printer!TypeInv, Printer!Goto

\* A writer goes on, and leaves the output as it is.
LEMMA PrinterWriterStep ==
  ASSUME Printer!IInv, ~print_fault, NEW w \in Writers,
          NEW from \in Printer!Labels \ {"start"}, NEW to \in Printer!Labels,
         Printer!Goto(w, from, to), to # "closed" \/ ~active \/ cut'
          \/ Printer!StillOpen', cut' \in BOOLEAN,
         UNCHANGED <<Printer!module, Printer!buffer, active, timer, queued, work, early>>,
         left' \in [Writers -> 0..MaxCount]
  PROVE  Printer!IInv'
<1>1. UNCHANGED <<phase, lacks, print_fault, data, head, tail, active, timer, queued, work,
                 early>>
  BY DEF Printer!module, Printer!buffer
<1>2. Printer!TypeInv
  BY DEF Printer!IInv
<1>3. /\ print_pc[w] = from /\ print_pc' \in [Writers -> Printer!Labels] /\ print_pc'[w] = to
      /\ \A x \in Writers \ {w} : print_pc'[x] = print_pc[x]
  BY <1>2, PrinterMoves
<1>4. Printer!TypeInv'
  BY <1>1, <1>2, <1>3 DEF Printer!TypeInv, Printer!TypeOK
<1>5. (\E x \in Writers : print_pc[x] = "start") => \E x \in Writers : print_pc'[x] = "start"
  BY <1>3
<1>6. Printer!ClosedInv'
  BY <1>1, <1>3 DEF Printer!ClosedInv, Printer!StillOpen
<1> QED
  BY <1>1, <1>4, <1>5, <1>6 DEF Printer!IInv, Printer!DrivenInv, Printer!WaitingIsSent,
     Printer!TimerOnlyWhileActive,
     Printer!NoWorkLeft, Printer!EarlyInv, Printer!LoadInv, Printer!FaultsExplained

LEMMA PrinterWriterSteps ==
  ASSUME Printer!IInv, ~print_fault, NEW w \in Writers,
         Printer!Open(w) \/ Printer!Release(w) \/ Printer!Released(w) \/ Printer!Down(w)
          \/ Printer!Up(w) \/ Printer!Sleep(w)
  PROVE  Printer!IInv'
<1>1. left \in [Writers -> 0..MaxCount] /\ cut \in BOOLEAN
  BY DEF Printer!IInv, Printer!TypeInv, Printer!TypeOK
<1>2. CASE Printer!Open(w)
  BY <1>1, <1>2, PrinterWriterStep DEF Printer!Open, Printer!Labels
<1>3. CASE Printer!Release(w)
  BY <1>1, <1>3, PrinterWriterStep DEF Printer!Release, Printer!Labels, Printer!output
<1>4. CASE Printer!Released(w)
  <2>1. /\ Printer!Goto(w, "release", "closed") /\ left' = left
        /\ UNCHANGED <<Printer!module, Printer!buffer, active, timer, queued, work, early>>
    BY <1>4 DEF Printer!Released
  <2>2. cut' \in BOOLEAN
    BY <1>1, <1>4 DEF Printer!Released
  <2>3. ~active \/ cut' \/ Printer!StillOpen'
    <3>1. CASE Printer!OutputEnded
      BY <3>1 DEF Printer!OutputEnded
    <3>2. CASE cut' = (\A v \in Writers \ {w} : print_pc[v] = "closed")
      <4>1. \A v \in Writers \ {w} : print_pc'[v] = print_pc[v]
        BY <2>1, PrinterMoves DEF Printer!IInv, Printer!Labels
      <4> QED
        BY <3>2, <4>1 DEF Printer!StillOpen
    <3> QED
      BY <1>4, <3>1, <3>2 DEF Printer!Released
  <2> QED
    BY <1>1, <2>1, <2>2, <2>3, PrinterWriterStep DEF Printer!Labels
<1>5. CASE Printer!Down(w)
  <2>1. PICK n \in 1..MaxCount : left' = [left EXCEPT ![w] = n]
    BY <1>5 DEF Printer!Down
  <2>2. left' \in [Writers -> 0..MaxCount]
    BY <1>1, <2>1, SizesAssumption
  <2> QED
    BY <1>1, <1>5, <2>2, PrinterWriterStep DEF Printer!Down, Printer!Labels, Printer!output
<1>6. CASE Printer!Up(w)
  <2>1. ASSUME NEW from \in {"space", "asleep"}, Printer!Leave(w, from) PROVE Printer!IInv'
    <3>1. left' \in [Writers -> 0..MaxCount]
      BY <1>1, <2>1, SizesAssumption DEF Printer!Leave
    <3> QED
      BY <1>1, <2>1, <3>1, PrinterWriterStep DEF Printer!Leave, Printer!Labels, Printer!output
  <2> QED
    BY <1>6, <2>1 DEF Printer!Up
<1>7. CASE Printer!Sleep(w)
  BY <1>1, <1>7, PrinterWriterStep DEF Printer!Sleep, Printer!Labels, Printer!output
<1> QED
  BY <1>2, <1>3, <1>4, <1>5, <1>6, <1>7

\* The space that is free from the head.
LEMMA PrinterSpace ==
  ASSUME Printer!TypeOK, Printer!OutSpace > 0
  PROVE  /\ Printer!OutSpace \in Nat /\ head + Printer!OutSpace <= Size
         /\ IF tail <= head THEN Printer!OutSpace <= Size - 1 - (head - tail) ELSE Printer!OutSpace <= tail - head - 1
BY SizesAssumption DEF Printer!TypeOK, Printer!OutSpace

LEMMA PrinterAdvanced ==
  ASSUME NEW i \in PrinterSlots, NEW n \in Nat, i + n <= Size
  PROVE  /\ Printer!IncrOutBp(i, n) \in PrinterSlots
         /\ Printer!IncrOutBp(i, n) = IF i + n = Size THEN 0 ELSE i + n
BY SizesAssumption DEF PrinterSlots, Printer!IncrOutBp

LEMMA PrinterMoveEffect ==
  ASSUME Printer!TypeInv, NEW w \in Writers, Printer!Move(w)
  PROVE  \E n \in Nat \ {0} :
           /\ head + n <= Size /\ n <= left[w]
           /\ IF tail <= head THEN n <= Size - 1 - (head - tail) ELSE n <= tail - head - 1
           /\ head' = Printer!IncrOutBp(head, n)
           /\ left' = [left EXCEPT ![w] = @ - n]
           /\ data' = [i \in PrinterSlots |-> IF i \in head..(head + n - 1) THEN w ELSE data[i]]
           /\ last' = [i \in 1..n |-> w]
<1> DEFINE n == IF Printer!OutSpace > left[w] THEN left[w] ELSE Printer!OutSpace
<1>1. Printer!TypeOK /\ Printer!OutSpace > 0 /\ left[w] > 0 /\ left[w] \in Nat
       /\ head \in Nat /\ tail \in Nat
  BY SizesAssumption DEF Printer!Move, Printer!TypeInv, Printer!TypeOK
<1>2. /\ Printer!OutSpace \in Nat /\ head + Printer!OutSpace <= Size
      /\ IF tail <= head THEN Printer!OutSpace <= Size - 1 - (head - tail) ELSE Printer!OutSpace <= tail - head - 1
  BY <1>1, PrinterSpace
<1>3. n \in Nat \ {0} /\ n <= Printer!OutSpace /\ n <= left[w]
  BY <1>1, <1>2
<1>4. /\ head' = Printer!IncrOutBp(head, n)
      /\ left' = [left EXCEPT ![w] = @ - n]
      /\ data' = [i \in PrinterSlots |-> IF i \in head..(head + n - 1) THEN w ELSE data[i]]
      /\ last' = [i \in 1..n |-> w]
  BY DEF Printer!Move, PrinterSlots
<1> HIDE DEF n
<1>5. head + n <= Size
       /\ IF tail <= head THEN n <= Size - 1 - (head - tail) ELSE n <= tail - head - 1
  BY <1>1, <1>2, <1>3, SizesAssumption
<1> QED
  BY <1>3, <1>4, <1>5

LEMMA PrinterMoveStep ==
  ASSUME Printer!IInv, ~print_fault, NEW w \in Writers, Printer!Move(w)
  PROVE  Printer!IInv'
<1>1. Printer!TypeInv /\ Printer!TypeOK
  BY DEF Printer!IInv, Printer!TypeInv
<1>2. PICK n \in Nat \ {0} :
        /\ head + n <= Size /\ n <= left[w]
        /\ IF tail <= head THEN n <= Size - 1 - (head - tail) ELSE n <= tail - head - 1
        /\ head' = Printer!IncrOutBp(head, n)
        /\ left' = [left EXCEPT ![w] = @ - n]
        /\ data' = [i \in PrinterSlots |-> IF i \in head..(head + n - 1) THEN w ELSE data[i]]
        /\ last' = [i \in 1..n |-> w]
  BY <1>1, PrinterMoveEffect
<1>3. /\ UNCHANGED <<phase, lacks, print_fault, tail, active, timer, queued, work, early, cut>>
      /\ Printer!Goto(w, "space", "start")
  BY DEF Printer!Move, Printer!module, Printer!output
<1>4. print_pc[w] = "space" /\ print_pc' \in [Writers -> Printer!Labels]
       /\ print_pc'[w] = "start"
  BY <1>1, <1>3, PrinterMoves DEF Printer!Labels
<1>5. head' \in PrinterSlots
  BY <1>1, <1>2, PrinterAdvanced DEF Printer!TypeOK, PrinterSlots
<1>6. data' \in [PrinterSlots -> Writers \cup {Printer!NoByte}]
  BY <1>1, <1>2 DEF Printer!TypeOK, PrinterSlots
<1>7. left' \in [Writers -> 0..MaxCount]
  <2>1. left[w] \in 0..MaxCount /\ left \in [Writers -> 0..MaxCount]
    BY <1>1 DEF Printer!TypeOK
  <2>2. left[w] - n \in 0..MaxCount
    BY <1>2, <2>1, SizesAssumption
  <2> QED
    BY <1>2, <2>1, <2>2
<1>8. Printer!TypeOK'
  BY <1>1, <1>3, <1>5, <1>6, <1>7 DEF Printer!TypeOK, PrinterSlots
<1>9. Printer!TypeInv'
  BY <1>1, <1>3, <1>4, <1>8 DEF Printer!TypeInv
<1>10. Printer!WaitingIsSent' /\ Printer!EarlyInv' /\ Printer!ClosedInv'
  BY <1>4 DEF Printer!WaitingIsSent, Printer!EarlyInv, Printer!ClosedInv, Printer!StillOpen
<1> QED
  BY <1>3, <1>9, <1>10 DEF Printer!IInv, Printer!DrivenInv, Printer!TimerOnlyWhileActive,
     Printer!NoWorkLeft, Printer!LoadInv,
     Printer!FaultsExplained

LEMMA PrinterStartOutputStep ==
  ASSUME Printer!IInv, ~print_fault, NEW w \in Writers, Printer!StartOutput(w)
  PROVE  Printer!IInv'
<1>1. Printer!TypeInv
  BY DEF Printer!IInv
<1>2. /\ UNCHANGED <<phase, lacks, print_fault, data, head, tail, work, cut, left>>
      /\ Printer!Goto(w, "start", "space")
  BY DEF Printer!StartOutput, Printer!module, Printer!buffer
<1>3. /\ active' = TRUE /\ timer' = (timer \/ ~active) /\ queued' = (queued \/ ~active)
      /\ early' = FALSE /\ (active \/ Printer!CanQueue)
  BY DEF Printer!StartOutput
<1>4. print_pc[w] = "start" /\ print_pc' \in [Writers -> Printer!Labels]
       /\ print_pc'[w] = "space"
  BY <1>1, <1>2, PrinterMoves DEF Printer!Labels
<1>5. Printer!TypeInv'
  BY <1>1, <1>2, <1>3, <1>4 DEF Printer!TypeInv, Printer!TypeOK
<1>6. Printer!DrivenInv' /\ Printer!NoWorkLeft' /\ Printer!LoadInv'
  <2>1. CASE active
    BY <1>2, <1>3, <2>1 DEF Printer!IInv, Printer!DrivenInv, Printer!NoWorkLeft, Printer!LoadInv
  <2>2. CASE ~active
    BY <1>2, <1>3, <2>2 DEF Printer!DrivenInv, Printer!NoWorkLeft, Printer!LoadInv,
       Printer!CanQueue
  <2> QED
    BY <2>1, <2>2
<1>7. Printer!ClosedInv'
  BY <1>4 DEF Printer!ClosedInv, Printer!StillOpen
<1> QED
  BY <1>2, <1>3, <1>5, <1>6, <1>7 DEF Printer!IInv, Printer!WaitingIsSent,
     Printer!TimerOnlyWhileActive, Printer!EarlyInv,
     Printer!FaultsExplained

LEMMA PrinterDoWorkStep == ASSUME Printer!IInv, ~print_fault, Printer!DoWork PROVE Printer!IInv'
<1>1. Printer!TypeInv /\ Printer!TypeOK
  BY DEF Printer!IInv, Printer!TypeInv
<1>2. /\ work = "wait" /\ work' = "read_side"
      /\ UNCHANGED <<phase, lacks, print_fault, queued, left, data, head>>
      /\ phase \notin {"freeing", "gone"}
  BY DEF Printer!DoWork, Printer!module, Printer!buffer, Printer!IInv, Printer!NoWorkLeft
<1>3. ASSUME NEW t, Printer!WakeWriters(t)
      PROVE  /\ print_pc' \in [Writers -> Printer!Labels]
             /\ (\E w \in Writers : print_pc[w] = "start")
                 => \E w \in Writers : print_pc'[w] = "start"
             /\ Printer!StillOpen => Printer!StillOpen'
  <2>1. /\ print_pc' \in [Writers -> Printer!Labels]
        /\ \A w \in Writers : /\ print_pc[w] # "closed" => print_pc'[w] # "closed"
                              /\ print_pc[w] = "start" => print_pc'[w] = "start"
    BY <1>1, <1>3 DEF Printer!WakeWriters, Printer!TypeInv, Printer!Labels
  <2> QED
    BY <2>1 DEF Printer!StillOpen
<1>4. CASE Printer!Done /\ Printer!Finish /\ early' = FALSE /\ cut' = FALSE
            /\ Printer!WakeWriters(tail) /\ UNCHANGED Printer!buffer
  <2>1. tail' = tail /\ active' = FALSE /\ timer' = FALSE /\ head = tail
    BY <1>4 DEF Printer!buffer, Printer!Finish, Printer!Done
  <2>2. Printer!TypeInv'
    BY <1>1, <1>2, <1>3, <1>4, <2>1 DEF Printer!TypeInv, Printer!TypeOK
  <2>3. Printer!DrivenInv' /\ Printer!WaitingIsSent' /\ Printer!TimerOnlyWhileActive'
         /\ Printer!NoWorkLeft'
    BY <1>2, <2>1 DEF Printer!DrivenInv, Printer!WaitingIsSent, Printer!TimerOnlyWhileActive,
       Printer!NoWorkLeft
  <2> QED
    BY <1>2, <1>4, <2>1, <2>2, <2>3 DEF Printer!IInv, Printer!ClosedInv, Printer!EarlyInv,
       Printer!LoadInv, Printer!FaultsExplained
<1>5. CASE /\ ~Printer!Done /\ timer' = TRUE /\ tail' = Printer!IncrOutBp(tail, 1)
               /\ last' = <<data[tail]>>
           /\ early' = ~active /\ Printer!WakeWriters(tail')
               /\ UNCHANGED <<data, head, active, cut>>
  <2>1. tail \in PrinterSlots /\ 1 \in Nat /\ tail + 1 <= Size
    BY <1>1, SizesAssumption DEF Printer!TypeOK, PrinterSlots
  <2>2. tail' \in PrinterSlots
    BY <1>5, <2>1, PrinterAdvanced
  <2>3. Printer!TypeOK'
    BY <1>1, <1>2, <1>5, <2>2 DEF Printer!TypeOK, PrinterSlots
  <2>4. Printer!TypeInv'
    BY <1>1, <1>2, <1>3, <1>5, <2>3 DEF Printer!TypeInv
  <2>5. /\ (\E w \in Writers : print_pc[w] = "start")
            => \E w \in Writers : print_pc'[w] = "start"
        /\ Printer!StillOpen => Printer!StillOpen'
    BY <1>3, <1>5
  <2>6. active \/ \E w \in Writers : print_pc'[w] = "start"
    BY <1>5, <2>5 DEF Printer!IInv, Printer!WaitingIsSent, Printer!Done
  <2>7. Printer!WaitingIsSent' /\ Printer!EarlyInv' /\ Printer!ClosedInv'
    BY <1>5, <2>5, <2>6 DEF Printer!IInv, Printer!WaitingIsSent, Printer!EarlyInv,
       Printer!ClosedInv
  <2>8. Printer!DrivenInv' /\ Printer!TimerOnlyWhileActive' /\ Printer!NoWorkLeft'
    BY <1>2, <1>5 DEF Printer!DrivenInv, Printer!TimerOnlyWhileActive, Printer!NoWorkLeft
  <2> QED
    BY <1>2, <1>5, <2>4, <2>7, <2>8 DEF Printer!IInv, Printer!LoadInv, Printer!FaultsExplained
<1> QED
  BY <1>4, <1>5 DEF Printer!DoWork

\* A step of the load or of the cleanup, of which the writers see the phase.
LEMMA PrinterModuleSteps ==
  ASSUME Printer!IInv, ~print_fault, Printer!Load \/ Printer!Cleanup
  PROVE  Printer!IInv'
<1>1. Printer!TypeInv /\ Printer!TypeOK /\ print_pc \in [Writers -> Printer!Labels]
       /\ left \in [Writers -> 0..MaxCount]
  BY DEF Printer!IInv, Printer!TypeInv, Printer!TypeOK
<1>2. CASE Printer!ShortpInit
  <2>1. /\ phase = "gone" /\ phase' = "device" /\ ~timer /\ lacks' = {}
            /\ print_fault' = print_fault
        /\ data' = Printer!Blank /\ head' = 0 /\ tail' = 0
        /\ active' = FALSE /\ early' = FALSE /\ cut' = FALSE
        /\ UNCHANGED <<timer, queued, work, print_pc, left>>
    BY <1>2 DEF Printer!ShortpInit, Printer!Reach, Printer!writing
  <2>2. Printer!TypeOK'
    BY <1>1, <2>1, SizesAssumption DEF Printer!TypeOK, Printer!Phases, Printer!Loading,
       Printer!Blank
  <2>3. Printer!TypeInv'
    BY <1>1, <2>1, <2>2 DEF Printer!TypeInv
  <2> QED
    BY <2>1, <2>3 DEF Printer!IInv, Printer!DrivenInv, Printer!WaitingIsSent,
       Printer!TimerOnlyWhileActive, Printer!NoWorkLeft,
       Printer!ClosedInv, Printer!EarlyInv, Printer!LoadInv, Printer!FaultsExplained
<1>3. CASE Printer!InitPages
  <2>1. /\ phase = "device" /\ phase' = "pages" /\ head' = 0 /\ tail' = 0
            /\ print_fault' = print_fault
        /\ lacks' \subseteq {"in_page", "out_page", "workqueue"}
        /\ UNCHANGED <<data, active, timer, queued, work, early, cut, print_pc, left>>
    BY <1>3 DEF Printer!InitPages, Printer!Reach, Printer!output
  <2>2. Printer!TypeOK'
    BY <1>1, <2>1, SizesAssumption DEF Printer!TypeOK, Printer!Phases, Printer!Loading
  <2>3. Printer!TypeInv'
    BY <1>1, <2>1, <2>2 DEF Printer!TypeInv
  <2> QED
    BY <2>1, <2>3 DEF Printer!IInv, Printer!DrivenInv, Printer!WaitingIsSent,
       Printer!TimerOnlyWhileActive, Printer!NoWorkLeft,
       Printer!ClosedInv, Printer!EarlyInv, Printer!LoadInv, Printer!FaultsExplained,
       Printer!StillOpen
<1>4. CASE Printer!InitOutput \/ Printer!InitQueue \/ Printer!InitIrq \/ Printer!Cleanup
  <2>1. /\ UNCHANGED <<print_fault, data, head, tail, queued, work, early, cut, print_pc, left>>
        /\ phase' \in Printer!Phases /\ lacks' \subseteq {"in_page", "out_page", "workqueue"}
        /\ phase' \in {"freeing", "gone"} => ~queued /\ work = "idle"
        /\ phase' \notin Printer!Leaving => phase \notin Printer!Leaving /\ timer' = timer
        /\ phase' \in {"device", "pages", "timer"} => ~active
        /\ timer' \in BOOLEAN /\ (timer' => timer) /\ active' = active
    <3>1. /\ timer \in BOOLEAN /\ active \in BOOLEAN
          /\ lacks \subseteq {"in_page", "out_page", "workqueue"}
          /\ phase \in {"device", "pages", "timer"} => ~active
          /\ phase \in {"freeing", "gone"} => ~queued /\ work = "idle"
      BY <1>1 DEF Printer!IInv, Printer!TypeInv, Printer!TypeOK, Printer!LoadInv,
         Printer!NoWorkLeft
    <3>2. CASE Printer!InitOutput
      BY <3>1, <3>2 DEF Printer!InitOutput, Printer!Reach, Printer!Phases, Printer!Loading,
         Printer!Leaving, Printer!buffer, Printer!writing
    <3>3. CASE Printer!InitQueue
      <4>1. /\ phase = "timer" /\ phase' = "queue"
            /\ UNCHANGED <<print_fault, data, head, tail, active, timer, queued, work, early,
                cut, print_pc, left>>
        BY <3>3 DEF Printer!InitQueue, Printer!Reach, Printer!buffer, Printer!output,
           Printer!writing
      <4>2. lacks' \subseteq {"in_page", "out_page", "workqueue"}
        BY <3>1, <3>3 DEF Printer!InitQueue
      <4> QED
        BY <3>1, <4>1, <4>2 DEF Printer!Phases, Printer!Loading, Printer!Leaving
    <3>4. CASE Printer!InitIrq
      <4>1. /\ phase = "queue" /\ phase' \in {"live", "failed"} /\ lacks' = lacks
            /\ UNCHANGED <<print_fault, data, head, tail, active, timer, queued, work, early,
                cut, print_pc, left>>
        BY <3>4 DEF Printer!InitIrq, Printer!buffer, Printer!output, Printer!writing
      <4> QED
        BY <3>1, <4>1 DEF Printer!Phases, Printer!Loading, Printer!Leaving
    <3>5. CASE Printer!Cleanup
      <4>1. /\ UNCHANGED <<lacks, print_fault, data, head, tail, active, queued, work, early,
                cut, print_pc, left>>
            /\ phase' \in {"free", "flush", "freeing", "gone"}
        BY <3>5 DEF Printer!Cleanup, Printer!CleanupIrq, Printer!CleanupTimer,
           Printer!CleanupFlush, Printer!CleanupPages,
           Printer!CleanupStep, Printer!Reach, Printer!buffer, Printer!writing
      <4>2. phase' \in {"freeing", "gone"} => ~queued /\ work = "idle"
        BY <3>1, <3>5 DEF Printer!Cleanup, Printer!CleanupIrq, Printer!CleanupTimer,
           Printer!CleanupFlush, Printer!CleanupPages,
           Printer!CleanupStep, Printer!Flushed, Printer!Reach
      <4>3. timer' \in BOOLEAN /\ (timer' => timer)
        <5>1. timer' = timer \/ timer' = (timer /\ ~active)
          BY <3>5 DEF Printer!Cleanup, Printer!CleanupIrq, Printer!CleanupTimer,
             Printer!CleanupFlush, Printer!CleanupPages
        <5>2. (timer' = timer \/ timer' = FALSE) /\ timer \in BOOLEAN
          BY <3>1, <5>1
        <5>3. CASE timer' = timer
          BY <5>2, <5>3
        <5>4. CASE timer' = FALSE
          BY <5>4
        <5> QED
          BY <5>2, <5>3, <5>4
      <4> QED
        BY <3>1, <4>1, <4>2, <4>3 DEF Printer!Phases, Printer!Leaving
    <3> QED
      BY <1>4, <3>2, <3>3, <3>4, <3>5
  <2>2. Printer!TypeInv'
    BY <1>1, <2>1 DEF Printer!TypeInv, Printer!TypeOK
  <2> QED
    BY <2>1, <2>2 DEF Printer!IInv, Printer!DrivenInv, Printer!WaitingIsSent,
       Printer!TimerOnlyWhileActive, Printer!NoWorkLeft,
       Printer!ClosedInv, Printer!EarlyInv, Printer!LoadInv, Printer!FaultsExplained,
       Printer!StillOpen
<1> QED
  BY <1>2, <1>3, <1>4 DEF Printer!Load

\* The other steps of the work, the interrupt and the timer.
LEMMA PrinterOtherSteps ==
  ASSUME Printer!IInv, ~print_fault, Printer!WorkStart \/ Printer!ReadSide
          \/ Printer!Interrupt \/ Printer!Timeout
  PROVE  Printer!IInv'
<1>1. Printer!TypeInv /\ Printer!TypeOK
  BY DEF Printer!IInv, Printer!TypeInv
<1>2. /\ UNCHANGED <<phase, lacks, print_fault, data, head, tail, active, early, cut, print_pc,
          left>>
      /\ timer' \in BOOLEAN /\ queued' \in BOOLEAN /\ work' \in {"idle", "wait", "read_side"}
      /\ timer' => timer
      /\ phase \in {"freeing", "gone"} => ~queued' /\ work' = "idle"
      /\ active /\ (timer \/ queued \/ work = "wait") => timer' \/ queued' \/ work' = "wait"
  <2>1. /\ timer \in BOOLEAN /\ queued \in BOOLEAN /\ work \in {"idle", "wait", "read_side"}
        /\ phase \in {"freeing", "gone"} => ~queued /\ work = "idle"
    BY <1>1 DEF Printer!IInv, Printer!TypeInv, Printer!NoWorkLeft
  <2>2. CASE Printer!WorkStart
    BY <2>1, <2>2 DEF Printer!WorkStart, Printer!module, Printer!buffer, Printer!writing
  <2>3. CASE Printer!ReadSide
    BY <2>1, <2>3 DEF Printer!ReadSide, Printer!module, Printer!buffer, Printer!writing
  <2>4. CASE Printer!Interrupt
    BY <2>1, <2>4 DEF Printer!Interrupt, Printer!module, Printer!buffer, Printer!writing
  <2>5. CASE Printer!Timeout
    <3>1. UNCHANGED <<phase, lacks, print_fault, data, head, tail, active, early, cut,
                     print_pc, left, work>>
      BY <2>5 DEF Printer!Timeout, Printer!module, Printer!buffer, Printer!writing
    <3>2. CASE ~active /\ timer' = FALSE /\ UNCHANGED queued
      BY <2>1, <3>1, <3>2
    <3>3. CASE active /\ Printer!Busy
      BY <2>1, <2>5, <3>1, <3>3 DEF Printer!Busy, Printer!Timeout
    <3>4. CASE active /\ Printer!CanQueue /\ Printer!Missed
      BY <2>1, <3>1, <3>4 DEF Printer!CanQueue, Printer!Missed
    <3> QED
      BY <2>5, <3>2, <3>3, <3>4 DEF Printer!Timeout
  <2> QED
    BY <2>2, <2>3, <2>4, <2>5
<1>3. Printer!TypeInv'
  BY <1>1, <1>2 DEF Printer!TypeInv, Printer!TypeOK
<1> QED
  BY <1>2, <1>3 DEF Printer!IInv, Printer!DrivenInv, Printer!WaitingIsSent,
     Printer!TimerOnlyWhileActive, Printer!NoWorkLeft,
     Printer!ClosedInv, Printer!EarlyInv, Printer!LoadInv, Printer!FaultsExplained,
     Printer!StillOpen

LEMMA PrinterIInvTimer == ASSUME Printer!IInv PROVE Printer!TimerLeft
<1>1. timer => active \/ Printer!StillOpen
  BY DEF Printer!IInv, Printer!TimerOnlyWhileActive, Printer!EarlyInv, Printer!StillOpen
<1> QED
  BY <1>1 DEF Printer!IInv, Printer!ClosedInv, Printer!TimerLeft

LEMMA PrinterFaultStep == ASSUME Printer!IInv, Printer!Fault PROVE Printer!IInv'
<1>1. /\ print_fault' = TRUE /\ Printer!TypeInv
      /\ UNCHANGED <<phase, lacks, data, head, tail, active, timer, queued, work, early, cut,
                     print_pc, left>>
  BY DEF Printer!Fault, Printer!buffer, Printer!output, Printer!writing, Printer!IInv
<1>2. Printer!TypeInv'
  BY <1>1 DEF Printer!TypeInv, Printer!TypeOK
<1>3. \/ phase \in {"device", "pages", "timer"}
      \/ lacks # {}
      \/ phase \in Printer!Leaving /\ (cut \/ Printer!StillOpen)
  <2>1. CASE Printer!WorkFaults \/ Printer!FlushFaults
    BY <2>1 DEF Printer!WorkFaults, Printer!FlushFaults
  <2>2. CASE Printer!TimerFaults
    BY <2>2, PrinterIInvTimer DEF Printer!TimerFaults, Printer!TimerLeft, Printer!IInv,
       Printer!ClosedInv, Printer!Leaving
  <2>3. ASSUME NEW w \in Writers, Printer!WriterFaults(w)
        PROVE  \/ phase \in {"device", "pages", "timer"}
               \/ lacks # {}
               \/ phase \in Printer!Leaving /\ (cut \/ Printer!StillOpen)
    <3>1. print_pc[w] = "start" => Printer!StillOpen
      BY DEF Printer!StillOpen
    <3>2. CASE print_pc[w] = "start" /\ ~active /\ ~Printer!CanQueue
      BY <3>1, <3>2 DEF Printer!CanQueue, Printer!Leaving
    <3>3. CASE phase = "gone" /\ print_pc[w] # "closed"
      BY <3>3 DEF Printer!StillOpen, Printer!Leaving
    <3> QED
      BY <2>3, <3>2, <3>3 DEF Printer!WriterFaults
  <2> QED
    BY <2>1, <2>2, <2>3 DEF Printer!Fault
<1>4. Printer!FaultsExplained'
  BY <1>1, <1>3 DEF Printer!FaultsExplained, Printer!StillOpen
<1> QED
  BY <1>1, <1>2, <1>4 DEF Printer!IInv, Printer!DrivenInv, Printer!WaitingIsSent,
     Printer!TimerOnlyWhileActive, Printer!NoWorkLeft,
     Printer!ClosedInv, Printer!EarlyInv, Printer!LoadInv, Printer!StillOpen

LEMMA PrinterNextIInv ==
  ASSUME Printer!IInv, Printer!Next \/ UNCHANGED Printer!vars
  PROVE  Printer!IInv'
<1>1. CASE UNCHANGED Printer!vars
  <2>1. UNCHANGED <<phase, lacks, print_fault, data, head, tail, active, timer, queued, work,
                   early,
                    cut, print_pc, left>>
    BY <1>1 DEF Printer!vars, Printer!module, Printer!buffer, Printer!output, Printer!writing
  <2> QED
    BY <2>1 DEF Printer!IInv, Printer!TypeInv, Printer!TypeOK, Printer!DrivenInv,
       Printer!WaitingIsSent, Printer!TimerOnlyWhileActive,
       Printer!NoWorkLeft, Printer!ClosedInv, Printer!EarlyInv, Printer!LoadInv,
       Printer!FaultsExplained, Printer!StillOpen
<1>2. CASE Printer!Stop
  BY <1>1, <1>2 DEF Printer!Stop
<1>3. ASSUME ~print_fault, NEW w \in Writers, Printer!Open(w) \/ Printer!Release(w)
              \/ Printer!Released(w) \/ Printer!Write(w)
      PROVE  Printer!IInv'
  BY <1>3, PrinterWriterSteps, PrinterMoveStep, PrinterStartOutputStep DEF Printer!Write
<1>4. CASE ~print_fault /\ (Printer!Work \/ Printer!Interrupt \/ Printer!Timeout)
  BY <1>4, PrinterOtherSteps, PrinterDoWorkStep DEF Printer!Work
<1>5. CASE ~print_fault /\ (Printer!Load \/ Printer!Cleanup)
  BY <1>5, PrinterModuleSteps
<1> QED
  BY <1>1, <1>2, <1>3, <1>4, <1>5, PrinterFaultStep DEF Printer!Next, Printer!Step

\* What the inductive invariant says of the property that TLC checks.
LEMMA PrinterIInvSafe == ASSUME Printer!IInv PROVE Printer!PrintSafe
BY PrinterIInvTimer DEF Printer!IInv, Printer!TypeInv, Printer!PrintSafe, Printer!DrivenInv,
   Printer!ActiveIsDriven

-----------------------------------------------------------------------------
(* The buffer of shortprint is a stream.  HeldIn is what a buffer c holds  *)
(* between the tail r and the head w.                                      *)

LEMMA PrinterWrap ==
  ASSUME NEW a \in Nat, a < 2 * Size
  PROVE  a % Size = IF a < Size THEN a ELSE a - Size
<1>1. ASSUME NEW n \in Nat \ {0}, a < 2 * n
      PROVE  a % n = IF a < n THEN a ELSE a - n
  BY <1>1, SMTT(30)
<1> QED
  BY <1>1, SizesAssumption

PrinterHeldIn(c, r, w) == [i \in 1..((Size + w - r) % Size) |-> c[(r + i - 1) % Size]]
PrinterHeld == PrinterHeldIn(data, tail, head)
PrinterCells == Writers \cup {Printer!NoByte}

LEMMA PrinterHeldIs ==
  ASSUME NEW c \in [PrinterSlots -> PrinterCells], NEW r \in PrinterSlots,
                NEW w \in PrinterSlots
  PROVE  /\ PrinterHeldIn(c, r, w) \in Seq(PrinterCells)
         /\ Len(PrinterHeldIn(c, r, w)) = IF r <= w THEN w - r ELSE w + Size - r
         /\ \A i \in 1..Len(PrinterHeldIn(c, r, w)) :
              PrinterHeldIn(c, r,
               w)[i] = c[IF r + i - 1 < Size THEN r + i - 1 ELSE r + i - 1 - Size]
<1> DEFINE used == IF r <= w THEN w - r ELSE w + Size - r
<1>1. used \in 0..Size-1
  BY SizesAssumption DEF PrinterSlots
<1>2. (Size + w - r) % Size = used
  <2> DEFINE a == Size + w - r
  <2>1. a \in Nat /\ a < 2 * Size /\ used = IF a < Size THEN a ELSE a - Size
    BY SizesAssumption DEF PrinterSlots
  <2> HIDE DEF a, used
  <2>2. a % Size = IF a < Size THEN a ELSE a - Size
    BY <2>1, PrinterWrap
  <2> QED
    BY <2>1, <2>2 DEF a
<1>3. ASSUME NEW i \in 1..used
      PROVE  /\ (r + i - 1) % Size = IF r + i - 1 < Size THEN r + i - 1 ELSE r + i - 1 - Size
             /\ (r + i - 1) % Size \in PrinterSlots
  <2> DEFINE a == r + i - 1
  <2>1. a \in Nat /\ a < 2 * Size
    BY <1>1, SizesAssumption DEF PrinterSlots
  <2> HIDE DEF a, used
  <2>2. a % Size = IF a < Size THEN a ELSE a - Size
    BY <2>1, PrinterWrap
  <2>3. a % Size \in PrinterSlots
    BY <2>1, <2>2, SizesAssumption DEF PrinterSlots
  <2>4. a = r + i - 1
    BY DEF a
  <2>5. (r + i - 1) % Size = IF r + i - 1 < Size THEN r + i - 1 ELSE r + i - 1 - Size
    <3>1. r \in Int /\ i \in Int /\ Size \in Int
      BY <1>1, SizesAssumption DEF PrinterSlots, used
    <3> QED
      BY <2>1, <2>2, <2>4, <3>1
  <2>6. (r + i - 1) % Size \in PrinterSlots
    BY <2>3, <2>4
  <2> QED
    BY <2>5, <2>6
<1> HIDE DEF used
<1>4. PrinterHeldIn(c, r, w) = [i \in 1..used |-> c[(r + i - 1) % Size]]
  BY <1>2 DEF PrinterHeldIn
<1>5. PrinterHeldIn(c, r, w) \in [1..used -> PrinterCells]
  BY <1>3, <1>4
<1>6. PrinterHeldIn(c, r, w) \in Seq(PrinterCells) /\ Len(PrinterHeldIn(c, r, w)) = used
  BY <1>1, <1>5
<1> QED
  BY <1>3, <1>4, <1>6 DEF used

LEMMA PrinterNothingHeld ==
  ASSUME NEW c \in [PrinterSlots -> PrinterCells] PROVE PrinterHeldIn(c, 0, 0) = <<>>
<1>1. 0 \in PrinterSlots
  BY SizesAssumption DEF PrinterSlots
<1>2. PrinterHeldIn(c, 0, 0) \in Seq(PrinterCells) /\ Len(PrinterHeldIn(c, 0, 0)) = 0
  BY <1>1, PrinterHeldIs
<1> QED
  BY <1>2, EmptySeq

PrinterWithout(q, n) == SubSeq(q, n + 1, Len(q))

\* A read takes the first n bytes away.
LEMMA PrinterHeldAfterTake ==
  ASSUME NEW c \in [PrinterSlots -> PrinterCells], NEW r \in PrinterSlots,
                NEW w \in PrinterSlots,
         NEW n \in Nat \ {0}, r # w, r + n <= Size, r < w => r + n <= w,
         NEW s \in PrinterSlots, s = IF r + n = Size THEN 0 ELSE r + n
  PROVE  /\ n \in 1..Len(PrinterHeldIn(c, r, w))
         /\ PrinterHeldIn(c, s, w) = PrinterWithout(PrinterHeldIn(c, r, w), n)
<1> DEFINE held == PrinterHeldIn(c, r, w)
           shorter == PrinterHeldIn(c, s, w)
           rest == SubSeq(held, n + 1, Len(held))
<1>1. /\ held \in Seq(PrinterCells) /\ Len(held) = IF r <= w THEN w - r ELSE w + Size - r
      /\ \A i \in 1..Len(held) :
           held[i] = c[IF r + i - 1 < Size THEN r + i - 1 ELSE r + i - 1 - Size]
  BY PrinterHeldIs
<1>2. /\ shorter \in Seq(PrinterCells) /\ Len(shorter) = IF s <= w THEN w - s ELSE w + Size - s
      /\ \A i \in 1..Len(shorter) :
           shorter[i] = c[IF s + i - 1 < Size THEN s + i - 1 ELSE s + i - 1 - Size]
  BY PrinterHeldIs
<1> HIDE DEF held, shorter
<1>3. /\ Len(held) \in Nat /\ n \in 1..Len(held)
      /\ Len(shorter) = Len(held) - n
  BY <1>1, <1>2, SizesAssumption DEF PrinterSlots
<1>4. /\ rest \in Seq(PrinterCells) /\ Len(rest) = Len(held) - n
      /\ \A i \in 1..Len(held) - n : rest[i] = held[n + i]
  <2>1. \A i \in n+1..Len(held) : held[i] \in PrinterCells
    BY <1>1, <1>3, ElementOfSeq
  <2>2. n + 1 \in Int /\ Len(held) \in Int
    BY <1>3
  <2>3. /\ rest \in Seq(PrinterCells)
        /\ Len(rest) = IF n + 1 <= Len(held) THEN Len(held) - (n + 1) + 1 ELSE 0
        /\ \A i \in 1..Len(held) - (n + 1) + 1 : rest[i] = held[n + 1 + i - 1]
    BY <2>1, <2>2, SubSeqProperties
  <2> HIDE DEF rest
  <2>4. Len(held) - (n + 1) + 1 = Len(held) - n /\ \A i \in Int : n + 1 + i - 1 = n + i
    BY <1>3
  <2>5. Len(rest) = Len(held) - n
    <3>1. CASE n + 1 <= Len(held)
      BY <2>3, <2>4, <3>1
    <3>2. CASE ~(n + 1 <= Len(held))
      <4>1. Len(held) - n = 0
        BY <1>3, <3>2
      <4>2. Len(rest) = 0
        BY <2>3, <3>2
      <4> QED
        BY <4>1, <4>2
    <3> QED
      BY <3>1, <3>2
  <2>6. \A i \in 1..Len(held) - n : rest[i] = held[n + i]
    BY <1>3, <2>3, <2>4
  <2> QED
    BY <2>3, <2>5, <2>6
<1> HIDE DEF rest
<1>5. ASSUME NEW i \in 1..Len(shorter) PROVE shorter[i] = rest[i]
  <2>1. rest[i] = held[n + i] /\ n + i \in 1..Len(held)
    BY <1>3, <1>4
  <2>2. held[n + i] = c[IF r + (n + i) - 1 < Size THEN r + (n + i) - 1
                                                  ELSE r + (n + i) - 1 - Size]
    BY <1>1, <2>1
  <2>3. (IF r + (n + i) - 1 < Size THEN r + (n + i) - 1 ELSE r + (n + i) - 1 - Size)
          = (IF s + i - 1 < Size THEN s + i - 1 ELSE s + i - 1 - Size)
    BY <1>2, SizesAssumption DEF PrinterSlots
  <2> QED
    BY <1>2, <2>1, <2>2, <2>3
<1>6. shorter = rest
  BY <1>2, <1>3, <1>4, <1>5, SeqEqual
<1> QED
  BY <1>3, <1>6 DEF held, shorter, rest, PrinterWithout

\* A write appends its n bytes.
PrinterPutAt(c, e, r, w, v, n, bytes) ==
  /\ w + n <= Size /\ v = IF w + n = Size THEN 0 ELSE w + n
  /\ IF r <= w THEN n <= Size - 1 - (w - r) ELSE n <= r - w - 1
  /\ Len(bytes) = n
  /\ \A i \in PrinterSlots : e[i] = IF i \in w..w+n-1 THEN bytes[i - w + 1] ELSE c[i]

LEMMA PrinterHeldAfterPut ==
  ASSUME NEW c \in [PrinterSlots -> PrinterCells], NEW e \in [PrinterSlots -> PrinterCells],
         NEW r \in PrinterSlots, NEW w \in PrinterSlots, NEW v \in PrinterSlots,
         NEW n \in Nat \ {0}, NEW bytes \in Seq(PrinterCells), PrinterPutAt(c, e, r, w, v, n,
                bytes)
  PROVE  /\ n \in 1..(Size - 1) - Len(PrinterHeldIn(c, r, w))
         /\ PrinterHeldIn(e, r, v) = PrinterHeldIn(c, r, w) \o bytes
<1> DEFINE held == PrinterHeldIn(c, r, w)
           more == PrinterHeldIn(e, r, v)
           both == held \o bytes
<1>1. /\ held \in Seq(PrinterCells) /\ Len(held) = IF r <= w THEN w - r ELSE w + Size - r
      /\ \A i \in 1..Len(held) :
           held[i] = c[IF r + i - 1 < Size THEN r + i - 1 ELSE r + i - 1 - Size]
  BY PrinterHeldIs
<1>2. /\ more \in Seq(PrinterCells) /\ Len(more) = IF r <= v THEN v - r ELSE v + Size - r
      /\ \A i \in 1..Len(more) :
           more[i] = e[IF r + i - 1 < Size THEN r + i - 1 ELSE r + i - 1 - Size]
  BY PrinterHeldIs
<1> HIDE DEF held, more
<1>3. /\ w + n <= Size /\ v = IF w + n = Size THEN 0 ELSE w + n
      /\ IF r <= w THEN n <= Size - 1 - (w - r) ELSE n <= r - w - 1
      /\ Len(bytes) = n
      /\ \A i \in PrinterSlots : e[i] = IF i \in w..w+n-1 THEN bytes[i - w + 1] ELSE c[i]
  BY DEF PrinterPutAt
<1>4. /\ Len(held) = IF r <= w THEN w - r ELSE w + Size - r
      /\ Len(more) = IF r <= v THEN v - r ELSE v + Size - r
  BY <1>1, <1>2
<1>5. /\ Len(held) \in Nat /\ n \in 1..(Size - 1) - Len(held)
      /\ Len(more) = Len(held) + n
  BY <1>3, <1>4, SizesAssumption DEF PrinterSlots
<1>6. /\ both \in Seq(PrinterCells) /\ Len(both) = Len(held) + n
      /\ \A i \in 1..Len(held) + n :
           both[i] = IF i <= Len(held) THEN held[i] ELSE bytes[i - Len(held)]
  <2>1. held \in Seq(PrinterCells)
    BY <1>1
  <2>2. /\ both \in Seq(PrinterCells) /\ Len(both) = Len(held) + Len(bytes)
        /\ \A i \in 1..Len(held) + Len(bytes) :
             both[i] = IF i <= Len(held) THEN held[i] ELSE bytes[i - Len(held)]
    BY <2>1, ConcatProperties
  <2> HIDE DEF both
  <2> QED
    BY <1>3, <2>2
<1> HIDE DEF both
<1>7. ASSUME NEW i \in 1..Len(more) PROVE more[i] = both[i]
  <2> DEFINE slot == IF r + i - 1 < Size THEN r + i - 1 ELSE r + i - 1 - Size
  <2>1. more[i] = e[slot]
    BY <1>2
  <2>2. slot \in PrinterSlots /\ Len(held) \in Nat /\ i \in Nat \ {0}
    BY <1>5, <1>4, SizesAssumption DEF PrinterSlots
  <2>3. CASE i <= Len(held)
    <3>1. slot \notin w..w+n-1
      BY <1>5, <1>3, <1>4, <2>2, <2>3, SizesAssumption DEF PrinterSlots
    <3>2. e[slot] = c[slot]
      BY <1>3, <2>2, <3>1
    <3>3. held[i] = c[slot]
      BY <1>1, <2>2, <2>3
    <3> QED
      BY <1>5, <1>6, <2>1, <2>3, <3>2, <3>3
  <2>4. CASE i > Len(held)
    <3>1. slot = w + (i - Len(held)) - 1 /\ slot \in w..w+n-1
      <4>1. CASE r <= w
        BY <1>5, <1>3, <1>4, <2>2, <2>4, <4>1, SizesAssumption DEF PrinterSlots
      <4>2. CASE r > w
        BY <1>5, <1>3, <1>4, <2>2, <2>4, <4>2, SizesAssumption DEF PrinterSlots
      <4> QED
        BY <4>1, <4>2 DEF PrinterSlots
    <3> HIDE DEF slot
    <3>2. e[slot] = bytes[slot - w + 1] /\ slot - w + 1 = i - Len(held)
      <4>1. slot - w + 1 = i - Len(held)
        BY <2>2, <3>1 DEF PrinterSlots
      <4> QED
        BY <1>3, <2>2, <3>1, <4>1
    <3> QED
      BY <1>5, <1>6, <2>1, <2>2, <2>4, <3>2
  <2> QED
    BY <2>2, <2>3, <2>4
<1>8. more = both
  BY <1>2, <1>5, <1>6, <1>7, SeqEqual
<1> QED
  BY <1>5, <1>8 DEF held, more, both

LEMMA PrinterMapping == Printer!Waiting = PrinterHeld
BY DEF Printer!Waiting, PrinterHeld, PrinterHeldIn

LEMMA PrinterBuffer ==
  ASSUME Printer!TypeOK
  PROVE  data \in [PrinterSlots -> PrinterCells] /\ tail \in PrinterSlots
          /\ head \in PrinterSlots
BY DEF Printer!TypeOK, PrinterCells, PrinterSlots

LEMMA PrinterStreamStutters ==
  ASSUME UNCHANGED Printer!buffer
  PROVE  UNCHANGED Printer!Stream!svars
BY DEF Printer!buffer, Printer!Stream!svars, Printer!Waiting

LEMMA PrinterMoveIsPut ==
  ASSUME Printer!TypeInv, NEW w \in Writers, Printer!Move(w)
  PROVE  Printer!Stream!Put
<1>1. data \in [PrinterSlots -> PrinterCells] /\ tail \in PrinterSlots /\ head \in PrinterSlots
  BY PrinterBuffer DEF Printer!TypeInv
<1>2. PICK n \in Nat \ {0} :
        /\ head + n <= Size /\ n <= left[w]
        /\ IF tail <= head THEN n <= Size - 1 - (head - tail) ELSE n <= tail - head - 1
        /\ head' = Printer!IncrOutBp(head, n)
        /\ left' = [left EXCEPT ![w] = @ - n]
        /\ data' = [i \in PrinterSlots |-> IF i \in head..(head + n - 1) THEN w ELSE data[i]]
        /\ last' = [i \in 1..n |-> w]
  BY PrinterMoveEffect
<1>3. head' \in PrinterSlots /\ head' = IF head + n = Size THEN 0 ELSE head + n
  BY <1>1, <1>2, PrinterAdvanced
<1>4. last' \in [1..n -> Writers]
  BY <1>2
<1>5. last' \in Seq(PrinterCells) /\ Len(last') = n /\ \A i \in 1..n : last'[i] = w
  BY <1>2, <1>4 DEF PrinterCells
<1>6. data' \in [PrinterSlots -> PrinterCells]
  BY <1>1, <1>2 DEF PrinterCells
<1>7. \A i \in PrinterSlots : data'[i] = IF i \in head..head+n-1 THEN last'[i - head + 1] ELSE data[i]
  <2>1. ASSUME NEW i \in PrinterSlots, i \in head..head+n-1
        PROVE  last'[i - head + 1] = w
    <3>1. i - head + 1 \in 1..n
      BY <1>1, <2>1 DEF PrinterSlots
    <3> QED
      BY <1>5, <3>1
  <2> QED
    BY <1>2, <2>1
<1>8. PrinterPutAt(data, data', tail, head, head', n, last')
  BY <1>2, <1>3, <1>5, <1>7 DEF PrinterPutAt
<1>9. ASSUME NEW e \in [PrinterSlots -> PrinterCells], NEW v \in PrinterSlots,
                    NEW put \in Seq(PrinterCells),
             PrinterPutAt(data, e, tail, head, v, n, put)
      PROVE  /\ n \in 1..(Size - 1) - Len(PrinterHeldIn(data, tail, head))
             /\ PrinterHeldIn(e, tail, v) = PrinterHeldIn(data, tail, head) \o put
  <2>1. PrinterHeldIn(e, tail, v) = PrinterHeldIn(data, tail, head) \o put
    BY <1>1, <1>9, PrinterHeldAfterPut
  <2>2. n \in 1..(Size - 1) - Len(PrinterHeldIn(data, tail, head))
    BY <1>1, <1>9, PrinterHeldAfterPut
  <2> QED
    BY <2>1, <2>2
<1>10. /\ n \in 1..(Size - 1) - Len(PrinterHeldIn(data, tail, head))
       /\ PrinterHeldIn(data', tail, head') = PrinterHeldIn(data, tail, head) \o last'
  BY <1>3, <1>5, <1>6, <1>8, <1>9
<1>11. tail' = tail
  BY DEF Printer!Move
<1>12. n \in 1..(Size - 1) - Len(Printer!Waiting) /\ Printer!Waiting' = Printer!Waiting \o last'
  BY <1>10, <1>11, PrinterMapping DEF PrinterHeld, PrinterHeldIn, Printer!Waiting
<1> QED
  BY <1>4, <1>12 DEF Printer!Stream!Put

LEMMA PrinterWorkIsTake ==
  ASSUME Printer!TypeInv, Printer!DoWork
  PROVE  Printer!Stream!Take \/ UNCHANGED Printer!Stream!svars
<1>1. data \in [PrinterSlots -> PrinterCells] /\ tail \in PrinterSlots /\ head \in PrinterSlots
  BY PrinterBuffer DEF Printer!TypeInv
<1>2. CASE UNCHANGED Printer!buffer
  BY <1>2, PrinterStreamStutters
<1>3. CASE /\ ~Printer!Done /\ tail' = Printer!IncrOutBp(tail, 1) /\ last' = <<data[tail]>>
           /\ UNCHANGED <<data, head>>
  <2>1. tail # head /\ tail + 1 <= Size /\ (tail < head => tail + 1 <= head)
    BY <1>1, <1>3, SizesAssumption DEF Printer!Done, PrinterSlots
  <2>2. tail' \in PrinterSlots /\ tail' = IF tail + 1 = Size THEN 0 ELSE tail + 1
    BY <1>1, <1>3, <2>1, PrinterAdvanced
  <2>3. ASSUME NEW n \in Nat \ {0}, n = 1
        PROVE  /\ n \in 1..Len(PrinterHeld)
               /\ PrinterHeldIn(data, tail', head) = SubSeq(PrinterHeld, n + 1,
                   Len(PrinterHeld))
               /\ SubSeq(PrinterHeld, 1, n) = last'
    <3>1. ASSUME NEW t \in PrinterSlots, t = IF tail + n = Size THEN 0 ELSE tail + n
          PROVE  /\ n \in 1..Len(PrinterHeldIn(data, tail, head))
                 /\ PrinterHeldIn(data, t, head) = PrinterWithout(PrinterHeldIn(data, tail,
                     head), n)
      <4>1. tail + n <= Size /\ (tail < head => tail + n <= head)
        BY <2>1, <2>3
      <4>2. n \in 1..Len(PrinterHeldIn(data, tail, head))
        BY <1>1, <2>1, <3>1, <4>1, PrinterHeldAfterTake
      <4>3. PrinterHeldIn(data, t, head) = PrinterWithout(PrinterHeldIn(data, tail, head), n)
        BY <1>1, <2>1, <3>1, <4>1, PrinterHeldAfterTake
      <4> QED
        BY <4>2, <4>3
    <3>2. /\ n \in 1..Len(PrinterHeldIn(data, tail, head))
          /\ PrinterHeldIn(data, tail', head) = PrinterWithout(PrinterHeldIn(data, tail, head),
              n)
      BY <2>2, <2>3, <3>1
    <3> DEFINE first == SubSeq(PrinterHeld, 1, n)
    <3>3. /\ PrinterHeld \in Seq(PrinterCells)
          /\ \A i \in 1..Len(PrinterHeld) :
               PrinterHeld[i] = data[IF tail + i - 1 < Size THEN tail + i - 1 ELSE tail + i - 1 - Size]
      BY <1>1, PrinterHeldIs DEF PrinterHeld
    <3>4. n \in 1..Len(PrinterHeld) /\ 1 \in 1..Len(PrinterHeld)
      BY <2>3, <3>2 DEF PrinterHeld
    <3>5. first \in Seq(PrinterCells) /\ Len(first) = n
           /\ \A i \in 1..n : first[i] = PrinterHeld[i]
      <4>1. \A i \in 1..n : PrinterHeld[i] \in PrinterCells
        BY <3>3, <3>4, ElementOfSeq
      <4> QED
        BY <3>4, <4>1, SubSeqProperties
    <3> HIDE DEF first
    <3>6. PrinterHeld[1] = data[IF tail + 1 - 1 < Size THEN tail + 1 - 1 ELSE tail + 1 - 1 - Size]
      BY <3>3, <3>4
    <3>7. (IF tail + 1 - 1 < Size THEN tail + 1 - 1 ELSE tail + 1 - 1 - Size) = tail
      BY <1>1, SizesAssumption DEF PrinterSlots
    <3>8. PrinterHeld[1] = data[tail]
      BY <3>6, <3>7
    <3>9. last' \in Seq(PrinterCells) /\ Len(last') = n /\ \A i \in 1..n : last'[i] = data[tail]
      BY <1>1, <1>3, <2>3
    <3>10. \A i \in 1..n : last'[i] = first[i]
      BY <2>3, <3>5, <3>8, <3>9
    <3>11. last' = first
      BY <3>5, <3>9, <3>10, SeqEqual
    <3> QED
      BY <3>2, <3>11 DEF PrinterHeld, first, PrinterWithout
  <2>4. 1 \in Nat \ {0}
    OBVIOUS
  <2>5. /\ 1 \in 1..Len(PrinterHeld)
        /\ PrinterHeldIn(data, tail', head) = SubSeq(PrinterHeld, 1 + 1, Len(PrinterHeld))
        /\ SubSeq(PrinterHeld, 1, 1) = last'
    BY <2>3, <2>4
  <2>6. /\ 1 \in 1..Len(Printer!Waiting) /\ last' = SubSeq(Printer!Waiting, 1, 1)
        /\ Printer!Waiting' = SubSeq(Printer!Waiting, 1 + 1, Len(Printer!Waiting))
    <3>1. Printer!Waiting' = PrinterHeldIn(data, tail', head)
      BY <1>3 DEF Printer!Waiting, PrinterHeldIn
    <3> QED
      BY <2>5, <3>1, PrinterMapping
  <2> QED
    BY <2>6 DEF Printer!Stream!Take
<1> QED
  BY <1>2, <1>3 DEF Printer!DoWork

LEMMA PrinterBlankHoldsNothing == data = Printer!Blank /\ head = 0 /\ tail = 0
                                   => Printer!Waiting = <<>>
<1>1. Printer!Blank \in [PrinterSlots -> PrinterCells]
  BY DEF Printer!Blank, PrinterSlots, PrinterCells
<1> QED
  BY <1>1, PrinterNothingHeld, PrinterMapping DEF PrinterHeld

LEMMA PrinterStreamInit == ASSUME Printer!Init PROVE Printer!Stream!Init
BY PrinterBlankHoldsNothing DEF Printer!Init, Printer!Stream!Init

LEMMA PrinterLoadIsDiscard ==
  ASSUME Printer!TypeInv, Printer!ShortpInit \/ Printer!InitPages
  PROVE  Printer!Stream!Discard
<1>1. Printer!Blank \in [PrinterSlots -> PrinterCells]
       /\ data \in [PrinterSlots -> PrinterCells]
  BY PrinterBuffer DEF Printer!TypeInv, Printer!Blank, PrinterSlots, PrinterCells
<1>2. data' \in [PrinterSlots -> PrinterCells] /\ tail' = 0 /\ head' = 0 /\ last' = last
  BY <1>1 DEF Printer!ShortpInit, Printer!InitPages
<1>3. PrinterHeldIn(data', tail', head') = <<>>
  BY <1>2, PrinterNothingHeld
<1> QED
  BY <1>2, <1>3 DEF Printer!Stream!Discard, Printer!Waiting, PrinterHeldIn

LEMMA PrinterStreamStep ==
  ASSUME Printer!IInv, Printer!Next \/ UNCHANGED Printer!vars
  PROVE   Printer!Stream!Next \/ UNCHANGED Printer!Stream!svars
<1>1. Printer!TypeInv
  BY DEF Printer!IInv
<1>2. ASSUME NEW w \in Writers, Printer!Open(w) \/ Printer!Release(w) \/ Printer!Released(w)
                    \/ Printer!Write(w)
      PROVE  Printer!Stream!Next \/ UNCHANGED Printer!Stream!svars
  <2>1. CASE Printer!Move(w)
    BY <1>1, <2>1, PrinterMoveIsPut DEF Printer!Stream!Next
  <2>2. CASE ~Printer!Move(w)
    BY <1>2, <2>2, PrinterStreamStutters DEF Printer!Open, Printer!Release, Printer!Released,
       Printer!Write, Printer!Down, Printer!Up, Printer!Leave, Printer!Sleep,
       Printer!StartOutput
  <2> QED
    BY <2>1, <2>2
<1>3. CASE Printer!ShortpInit \/ Printer!InitPages
  BY <1>1, <1>3, PrinterLoadIsDiscard DEF Printer!Stream!Next
<1>4. CASE Printer!DoWork
  BY <1>1, <1>4, PrinterWorkIsTake DEF Printer!Stream!Next
<1>5. CASE \/ Printer!InitOutput \/ Printer!InitQueue \/ Printer!InitIrq \/ Printer!Cleanup
               \/ Printer!Fault \/ Printer!Stop
           \/ Printer!WorkStart \/ Printer!ReadSide \/ Printer!Interrupt \/ Printer!Timeout
               \/ UNCHANGED Printer!vars
  <2>1. UNCHANGED Printer!buffer
    BY <1>5 DEF Printer!InitOutput, Printer!InitQueue, Printer!InitIrq, Printer!Cleanup,
       Printer!CleanupIrq, Printer!CleanupTimer, Printer!CleanupFlush,
       Printer!CleanupPages, Printer!CleanupStep, Printer!Fault, Printer!Stop,
       Printer!WorkStart, Printer!ReadSide, Printer!Interrupt, Printer!Timeout, Printer!vars
  <2> QED
    BY <2>1, PrinterStreamStutters
<1> QED
  BY <1>2, <1>3, <1>4, <1>5 DEF Printer!Next, Printer!Step, Printer!Load, Printer!Work

-----------------------------------------------------------------------------
(* A step of the program is a step of the module that is loaded.           *)

LEMMA AccessAlone == ASSUME [Next]_vars PROVE Access!Next \/ UNCHANGED Access!vars
BY DEF Next, vars, accessVars, Access!vars, Access!policy

LEMMA NetAlone == ASSUME [Next]_vars PROVE Net!Next \/ UNCHANGED Net!vars
BY DEF Next, vars, snullVars, Net!vars

LEMMA PrinterAlone == ASSUME [Next]_vars PROVE Printer!Next \/ UNCHANGED Printer!vars
BY DEF Next, vars, printVars, Printer!vars, Printer!module, Printer!buffer, Printer!output,
   Printer!writing

-----------------------------------------------------------------------------
(* The theorems.                                                           *)

(* For any finite number of processes and any users, however opens and     *)
(* closes cross: scullsingle has at most one opener and can be opened      *)
(* again, scullsuid and scullwuid have the openers they count and one user *)
(* among those without the capability, and a private device is that of its *)
(* terminal.                                                               *)
THEOREM AccessSafeHolds == Spec => []AccessSafe
<1>1. Init => Access!IInv
  BY AccessInitIInv DEF Init
<1>2. Access!IInv /\ [Next]_vars => Access!IInv'
  BY AccessAlone, AccessNextIInv
<1>3. Access!IInv => AccessSafe
  BY AccessIInvSafe DEF AccessSafe
<1> QED
  BY <1>1, <1>2, <1>3, PTL DEF Spec

(* For pools of any size: no packet buffer of snull is lost or is in two   *)
(* places, snull_tx finds the pool empty only after an open or a timeout   *)
(* has started the queue, no interrupt frees a packet that is freed, and a *)
(* packet received with the interrupts disabled has a poll to come, unless *)
(* an interrupt while the interface was closed has disabled them for good  *)
(* (shut).  What snull_tx_timeout frees a second time is not covered.      *)
THEOREM PacketsSafeHolds == Spec => []PacketsSafe
<1>1. Init => Net!IInv
  BY NetInitIInv DEF Init
<1>2. Net!IInv /\ [Next]_vars => Net!IInv'
  BY NetAlone, NetNextIInv
<1>3. Net!IInv => PacketsSafe
  BY NetIInvSafe DEF PacketsSafe
<1> QED
  BY <1>1, <1>2, <1>3, PTL DEF Spec

\* The inductive invariant of shortprint, for the two theorems about it.
LEMMA PrinterInvariant == Spec => []Printer!IInv
<1>1. Init => Printer!IInv
  BY PrinterInitIInv DEF Init
<1>2. Printer!IInv /\ [Next]_vars => Printer!IInv'
  BY PrinterAlone, PrinterNextIInv
<1> QED
  BY <1>1, <1>2, PTL DEF Spec

(* For any number of writers and any size of the page, with opens and      *)
(* writes in the middle of the load and under the cleanup of a failed one: *)
(* until the cleanup an output that is active is driven on whichever       *)
(* interrupts are missed; the bytes that wait are being sent or about to   *)
(* be; no work is left when the queue is destroyed; a timer outlives the   *)
(* module only after a close that a signal cut short, or under a file left *)
(* open by a failed load; and only there, early in the load and for want   *)
(* of memory is something used that is not there.                          *)
THEOREM PrintSafeHolds == Spec => []PrintSafe
<1>1. Printer!IInv => PrintSafe
  BY PrinterIInvSafe DEF PrintSafe
<1> QED
  BY <1>1, PrinterInvariant, PTL

(* The circular buffer of shortprint is a stream: wherever the head and    *)
(* the tail wrap, a write appends its bytes, and the work sends the oldest *)
(* one; only loading the module throws bytes away.                         *)
THEOREM PrinterIsStream == Spec => ImplementsPrinter
<1>1. Init => Printer!Stream!Init
  BY PrinterStreamInit DEF Init
<1>2. Printer!IInv /\ [Next]_vars => [Printer!Stream!Next]_(Printer!Stream!svars)
  BY PrinterAlone, PrinterStreamStep
<1> QED
  BY <1>1, <1>2, PrinterInvariant, PTL DEF Spec, ImplementsPrinter, Printer!ImplementsStream
===============================================================================
