------------------------- MODULE BlockSearchProofs -------------------------
(***************************************************************************)
(* Proofs about BlockSearch, for chains of any length, any epochs and      *)
(* ranges, and any growth, finalization and reorganization of the chain    *)
(* during the search.                                                      *)
(***************************************************************************)
EXTENDS BlockSearch, TLAPS

\* Slots ascend along the chain.
ChainInv == \A i, j \in 1 .. Len(slots) : i < j => slots[i] < slots[j]

\* The range stays within the blocks there were at the call and the one after.
BoundsInv ==
  search # None =>
    /\ search.best <= Len(slots)
    /\ search.settled <= finalized
    /\ search.settled <= search.best
    /\ search.left >= 1 /\ search.left <= search.best + 2
    /\ search.right <= search.best + 1
    /\ search.left <= search.right + 1
    /\ search.status = "found" => search.result \in 1 .. Len(slots)

\* Block b is before what s looks for, and stays so as the chain grows.
Early(s, b) ==
  IF s.kind = "AnyBlockInEpoch" THEN EpochOf(b) < s.lo
  ELSE IF s.kind = "LastBlockInEpoch"
  THEN \/ EpochOf(b) < s.lo
       \/ EpochOf(b) = s.lo /\ b + 1 <= Len(slots) /\ EpochOf(b + 1) <= s.lo
  ELSE IF s.kind = "AnyBlockInSlotRange" THEN slots[b] < s.lo
  ELSE slots[b] < s.lo \/ (b < s.best /\ slots[b + 1] < s.hi)

\* Block b is after what s looks for.
Late(s, b) ==
  IF s.kind \in {"AnyBlockInEpoch", "LastBlockInEpoch"} THEN EpochOf(b) > s.lo
  ELSE slots[b] >= s.hi

\* The blocks that were left out are early or late.
ExcludedInv ==
  search # None /\ ~search.reorged =>
    /\ search.left <= Len(slots) + 1
    /\ \A b \in 1 .. Len(slots) : b < search.left => Early(search, b)
    /\ \A b \in 1 .. search.best : b > search.right => Late(search, b)

\* A final block that matches is in the range, or is what was found.
SettledInv ==
  search # None =>
    \A b \in 1 .. search.settled :
      /\ search.kind = "AnyBlockInEpoch" /\ EpochOf(b) = search.lo =>
           /\ search.status # "none"
           /\ search.status = "running" => search.left <= b /\ b <= search.right
      /\ /\ search.kind \in {"AnyBlockInEpoch", "LastBlockInEpoch"}
         /\ EpochOf(b) = search.lo
         /\ b + 1 <= search.settled /\ EpochOf(b + 1) > search.lo
         => /\ search.status # "none"
            /\ search.status = "running" => search.left <= b /\ b <= search.right
            /\ search.status = "found" =>
                 /\ search.result <= b
                 /\ EpochOf(search.result) = search.lo
                 /\ search.kind = "LastBlockInEpoch" => search.result = b

Inv ==
  /\ TypeOK /\ ChainInv /\ BoundsInv /\ ExcludedInv /\ SettledInv
  /\ FoundIsRight /\ NoneIsRight

-----------------------------------------------------------------------------
(* Arithmetic, sequences and records.                                      *)

LEMMA DivBounds ==
  ASSUME NEW a \in Nat, NEW n \in Nat \ {0}
  PROVE  a \div n \in Nat /\ n * (a \div n) <= a /\ a < n * (a \div n) + n
BY Z3

LEMMA TimesMonotone ==
  ASSUME NEW p \in Nat, NEW q \in Nat, NEW n \in Nat \ {0}, q < p
  PROVE  n * q + n <= n * p
BY Z3

LEMMA DivMonotone ==
  ASSUME NEW a \in Nat, NEW b \in Nat, NEW n \in Nat \ {0}, a <= b
  PROVE  a \div n <= b \div n
<1>. DEFINE p == a \div n
            q == b \div n
            u == n * p
            v == n * q
<1>1. p \in Nat /\ u <= a
  BY DivBounds
<1>2. q \in Nat /\ b < v + n
  BY DivBounds
<1>. HIDE DEF p, q
<1>3. u \in Nat /\ v \in Nat
  BY <1>1, <1>2
<1>4. q < p => v + n <= u
  BY <1>1, <1>2, TimesMonotone
<1>. HIDE DEF u, v
<1>5. ~(q < p)
  BY <1>1, <1>2, <1>3, <1>4
<1>6. p <= q
  BY <1>1, <1>2, <1>5
<1>. QED
  BY <1>6 DEF p, q

LEMMA SeqFacts ==
  ASSUME NEW q \in Seq(Nat)
  PROVE  /\ Len(q) \in Nat
         /\ DOMAIN q = 1 .. Len(q)
         /\ \A i \in 1 .. Len(q) : q[i] \in Nat
         /\ q = <<>> <=> Len(q) = 0
OBVIOUS

LEMMA SeqAppend ==
  ASSUME NEW q \in Seq(Nat), NEW e \in Nat
  PROVE  /\ Append(q, e) \in Seq(Nat)
         /\ Len(Append(q, e)) = Len(q) + 1
         /\ Append(q, e)[Len(q) + 1] = e
         /\ \A i \in 1 .. Len(q) : Append(q, e)[i] = q[i]
OBVIOUS

LEMMA SeqOfFunction ==
  ASSUME NEW n \in Nat, NEW f \in [1 .. n -> Nat]
  PROVE  f \in Seq(Nat) /\ Len(f) = n
OBVIOUS

LEMMA SearchFields ==
  ASSUME NEW s \in Searches
  PROVE  /\ s.kind \in Kinds
         /\ s.lo \in Nat /\ s.hi \in Nat
         /\ s.best \in Nat /\ s.settled \in Nat
         /\ s.reorged \in BOOLEAN
         /\ s.left \in Nat /\ s.right \in Nat
         /\ s.result \in Nat \cup {None}
         /\ s.status \in {"running", "found", "none"}
BY DEF Searches

\* Epochs do not descend along the chain.
LEMMA EpochMonotone ==
  ASSUME TypeOK, ChainInv
  PROVE  /\ \A i \in 1 .. Len(slots) : EpochOf(i) \in Nat
         /\ \A i, j \in 1 .. Len(slots) : i <= j => EpochOf(i) <= EpochOf(j)
<1>1. slots \in Seq(Nat)
  BY DEF TypeOK
<1>2. \A i \in 1 .. Len(slots) : slots[i] \in Nat
  BY <1>1, SeqFacts
<1>3. \A i \in 1 .. Len(slots) : EpochOf(i) \in Nat
  BY <1>2, DivBounds, ConstantsAssumption DEF EpochOf
<1>4. ASSUME NEW i \in 1 .. Len(slots), NEW j \in 1 .. Len(slots), i <= j
      PROVE  EpochOf(i) <= EpochOf(j)
  <2>1. slots[i] <= slots[j]
    BY <1>1, <1>2, <1>4, SeqFacts DEF ChainInv
  <2>. QED
    BY <1>2, <2>1, DivMonotone, ConstantsAssumption DEF EpochOf
<1>. QED
  BY <1>3, <1>4

-----------------------------------------------------------------------------
(* What the answers of CompareBlock mean.                                  *)

LEMMA CompareLess ==
  ASSUME TypeOK, ChainInv, NEW s \in Searches, NEW m \in Nat, CompareBlock(s, m) = "Less"
  PROVE  m \in 1 .. Len(slots) /\ \A b \in 1 .. m : Early(s, b)
<1>1. Len(slots) \in Nat /\ DOMAIN slots = 1 .. Len(slots)
      /\ \A i \in 1 .. Len(slots) : slots[i] \in Nat
  BY SeqFacts DEF TypeOK
<1>2. m \in 1 .. Len(slots)
  BY <1>1 DEF CompareBlock, AnyBlockInEpoch, LastBlockInEpoch, AnyBlockInSlotRange,
              LatestBlockInSlotRange
<1>3. s.lo \in Nat /\ s.hi \in Nat /\ s.best \in Nat /\ s.kind \in Kinds
  BY SearchFields
<1>. SUFFICES ASSUME NEW b \in 1 .. m PROVE Early(s, b)
  BY <1>2
<1>4. b \in 1 .. Len(slots) /\ b \in Nat /\ b <= m
  BY <1>1, <1>2
<1>5. EpochOf(b) \in Nat /\ EpochOf(m) \in Nat /\ EpochOf(b) <= EpochOf(m)
  BY <1>2, <1>4, EpochMonotone
<1>6. slots[b] <= slots[m] /\ slots[b] \in Nat /\ slots[m] \in Nat
  BY <1>1, <1>2, <1>4 DEF ChainInv
<1>7. CASE s.kind = "AnyBlockInEpoch"
  BY <1>1, <1>2, <1>3, <1>5, <1>7 DEF CompareBlock, AnyBlockInEpoch, Cmp, Early
<1>8. CASE s.kind = "LastBlockInEpoch"
  <2>1. CASE EpochOf(m) < s.lo
    BY <1>3, <1>5, <1>8, <2>1 DEF Early
  <2>2. CASE ~(EpochOf(m) < s.lo)
    <3>1. EpochOf(m) = s.lo /\ m + 1 \in 1 .. Len(slots) /\ ~(EpochOf(m + 1) > s.lo)
      BY <1>1, <1>2, <1>3, <1>5, <1>8, <2>2
      DEF CompareBlock, LastBlockInEpoch, AnyBlockInEpoch, Cmp
    <3>2. EpochOf(m + 1) \in Nat /\ EpochOf(m + 1) <= s.lo
      BY <1>3, <3>1, EpochMonotone
    <3>3. b + 1 \in 1 .. Len(slots) /\ b + 1 <= m + 1 /\ m + 1 \in 1 .. Len(slots)
      BY <1>1, <1>2, <1>4, <3>1
    <3>4. EpochOf(b + 1) \in Nat /\ EpochOf(b + 1) <= EpochOf(m + 1)
      BY <3>3, EpochMonotone
    <3>. QED
      BY <1>1, <1>3, <1>5, <1>8, <3>1, <3>2, <3>3, <3>4 DEF Early
  <2>. QED
    BY <2>1, <2>2
<1>9. CASE s.kind = "AnyBlockInSlotRange"
  BY <1>1, <1>2, <1>3, <1>6, <1>9 DEF CompareBlock, AnyBlockInSlotRange, Early
<1>10. CASE s.kind = "LatestBlockInSlotRange"
  <2>1. CASE slots[m] < s.lo
    BY <1>3, <1>6, <1>10, <2>1 DEF Early
  <2>2. CASE ~(slots[m] < s.lo)
    <3>1. slots[m] < s.hi /\ m < s.best /\ m + 1 \in 1 .. Len(slots) /\ slots[m + 1] < s.hi
      BY <1>1, <1>2, <1>3, <1>6, <1>10, <2>2
      DEF CompareBlock, LatestBlockInSlotRange, AnyBlockInSlotRange
    <3>2. CASE b = m
      BY <1>10, <3>1, <3>2 DEF Early
    <3>3. CASE b < m
      <4>1. b + 1 \in 1 .. Len(slots) /\ b + 1 <= m
        BY <1>1, <1>2, <1>4, <3>3
      <4>2. slots[b + 1] <= slots[m] /\ slots[b + 1] \in Nat
        BY <1>1, <1>2, <4>1 DEF ChainInv
      <4>. QED
        BY <1>2, <1>3, <1>4, <1>6, <1>10, <3>1, <3>3, <4>2, SMTT(30) DEF Early
    <3>. QED
      BY <1>4, <3>2, <3>3
  <2>. QED
    BY <2>1, <2>2
<1>. QED
  BY <1>3, <1>7, <1>8, <1>9, <1>10 DEF Kinds

LEMMA CompareGreater ==
  ASSUME TypeOK, ChainInv, NEW s \in Searches, NEW m \in Nat, CompareBlock(s, m) = "Greater"
  PROVE  m \in 1 .. Len(slots) /\ \A b \in m .. Len(slots) : Late(s, b)
<1>1. Len(slots) \in Nat /\ DOMAIN slots = 1 .. Len(slots)
      /\ \A i \in 1 .. Len(slots) : slots[i] \in Nat
  BY SeqFacts DEF TypeOK
<1>2. m \in 1 .. Len(slots)
  BY <1>1 DEF CompareBlock, AnyBlockInEpoch, LastBlockInEpoch, AnyBlockInSlotRange,
              LatestBlockInSlotRange
<1>3. s.lo \in Nat /\ s.hi \in Nat /\ s.best \in Nat /\ s.kind \in Kinds
  BY SearchFields
<1>. SUFFICES ASSUME NEW b \in m .. Len(slots) PROVE Late(s, b)
  BY <1>2
<1>4. b \in 1 .. Len(slots) /\ m <= b
  BY <1>1, <1>2
<1>5. EpochOf(b) \in Nat /\ EpochOf(m) \in Nat /\ EpochOf(m) <= EpochOf(b)
  BY <1>2, <1>4, EpochMonotone
<1>6. slots[m] <= slots[b] /\ slots[b] \in Nat /\ slots[m] \in Nat
  BY <1>1, <1>2, <1>4 DEF ChainInv
<1>7. CASE s.kind \in {"AnyBlockInEpoch", "LastBlockInEpoch"}
  <2>1. EpochOf(m) > s.lo
    BY <1>1, <1>2, <1>3, <1>5, <1>7 DEF CompareBlock, LastBlockInEpoch, AnyBlockInEpoch, Cmp
  <2>. QED
    BY <1>3, <1>5, <1>7, <2>1 DEF Late
<1>8. CASE s.kind \in {"AnyBlockInSlotRange", "LatestBlockInSlotRange"}
  <2>1. slots[m] >= s.hi
    BY <1>1, <1>2, <1>3, <1>6, <1>8
    DEF CompareBlock, LatestBlockInSlotRange, AnyBlockInSlotRange
  <2>. QED
    BY <1>3, <1>6, <1>8, <2>1 DEF Late
<1>. QED
  BY <1>3, <1>7, <1>8 DEF Kinds

LEMMA CompareEqual ==
  ASSUME TypeOK, ChainInv, NEW s \in Searches, NEW m \in Nat, CompareBlock(s, m) = "Equal",
         s.best <= Len(slots)
  PROVE  /\ m \in 1 .. Len(slots)
         /\ Wanted(s, m)
         /\ s.kind = "LastBlockInEpoch" => EndsEpoch(s, m, Len(slots))
         /\ s.kind = "LatestBlockInSlotRange" => \A b \in m + 1 .. s.best : ~Wanted(s, b)
<1>1. Len(slots) \in Nat /\ DOMAIN slots = 1 .. Len(slots)
      /\ \A i \in 1 .. Len(slots) : slots[i] \in Nat
  BY SeqFacts DEF TypeOK
<1>2. m \in 1 .. Len(slots)
  BY <1>1 DEF CompareBlock, AnyBlockInEpoch, LastBlockInEpoch, AnyBlockInSlotRange,
              LatestBlockInSlotRange
<1>3. s.lo \in Nat /\ s.hi \in Nat /\ s.best \in Nat /\ s.kind \in Kinds
  BY SearchFields
<1>4. EpochOf(m) \in Nat /\ slots[m] \in Nat
  BY <1>1, <1>2, EpochMonotone
<1>5. CASE s.kind = "AnyBlockInEpoch"
  BY <1>1, <1>2, <1>3, <1>4, <1>5 DEF CompareBlock, AnyBlockInEpoch, Cmp, Wanted
<1>6. CASE s.kind = "LastBlockInEpoch"
  <2>1. EpochOf(m) = s.lo /\ m + 1 \in DOMAIN slots /\ EpochOf(m + 1) > s.lo
    BY <1>1, <1>2, <1>3, <1>4, <1>6
    DEF CompareBlock, LastBlockInEpoch, AnyBlockInEpoch, Cmp
  <2>. QED
    BY <1>1, <1>2, <1>6, <2>1 DEF Wanted, EndsEpoch
<1>7. CASE s.kind = "AnyBlockInSlotRange"
  BY <1>1, <1>2, <1>3, <1>4, <1>7 DEF CompareBlock, AnyBlockInSlotRange, Wanted
<1>8. CASE s.kind = "LatestBlockInSlotRange"
  <2>1. s.lo <= slots[m] /\ slots[m] < s.hi
    BY <1>1, <1>2, <1>3, <1>4, <1>8
    DEF CompareBlock, LatestBlockInSlotRange, AnyBlockInSlotRange
  <2>2. ASSUME NEW b \in m + 1 .. s.best PROVE ~Wanted(s, b)
    <3>1. m < s.best /\ m + 1 \in 1 .. Len(slots) /\ b \in 1 .. Len(slots)
      BY <1>1, <1>2, <1>3, <2>2
    <3>2. slots[m + 1] >= s.hi
      <4>. HIDE DEF Wanted
      <4>1. slots[m + 1] \in Nat
        BY <1>1, <3>1
      <4>2. AnyBlockInSlotRange(s.lo, s.hi, m) = "Equal"
        BY <1>1, <1>2, <2>1, <1>3, <1>4 DEF AnyBlockInSlotRange
      <4>3. AnyBlockInSlotRange(s.lo, s.hi, m + 1) = "Greater"
        BY <1>2, <1>3, <1>8, <3>1, <4>2 DEF CompareBlock, LatestBlockInSlotRange
      <4>. QED
        BY <1>1, <1>3, <3>1, <4>1, <4>3 DEF AnyBlockInSlotRange
    <3>3. slots[b] >= slots[m + 1] /\ slots[b] \in Nat /\ slots[m + 1] \in Nat
      BY <1>1, <1>2, <2>2, <3>1 DEF ChainInv
    <3>. QED
      BY <1>3, <1>8, <3>2, <3>3 DEF Wanted
  <2>. QED
    BY <1>1, <1>2, <1>8, <2>1, <2>2 DEF Wanted
<1>. QED
  BY <1>3, <1>5, <1>6, <1>7, <1>8 DEF Kinds

\* The block does not exist, or it is the best one and the next one is asked
\* for.
LEMMA CompareError ==
  ASSUME TypeOK, ChainInv, NEW s \in Searches, NEW m \in Nat, CompareBlock(s, m) = "Error",
         s.best <= Len(slots), m >= 1
  PROVE  \/ m > Len(slots)
         \/ s.kind = "LastBlockInEpoch" /\ m = Len(slots) /\ EpochOf(m) = s.lo
<1>1. Len(slots) \in Nat /\ DOMAIN slots = 1 .. Len(slots)
  BY SeqFacts DEF TypeOK
<1>2. s.lo \in Nat /\ s.hi \in Nat /\ s.best \in Nat /\ s.kind \in Kinds
  BY SearchFields
<1>a. m > Len(slots) \/ m \in 1 .. Len(slots)
  BY <1>1
<1>. SUFFICES ASSUME m \in 1 .. Len(slots)
              PROVE  s.kind = "LastBlockInEpoch" /\ m = Len(slots) /\ EpochOf(m) = s.lo
  BY <1>a, Zenon
<1>3. EpochOf(m) \in Nat
  BY EpochMonotone
<1>4. s.kind # "AnyBlockInEpoch" /\ s.kind # "AnyBlockInSlotRange"
  BY <1>1, <1>2 DEF CompareBlock, AnyBlockInEpoch, AnyBlockInSlotRange, Cmp
<1>5. ASSUME s.kind = "LatestBlockInSlotRange" PROVE FALSE
  <2>1. AnyBlockInSlotRange(s.lo, s.hi, m) # "Error"
    BY <1>1 DEF AnyBlockInSlotRange
  <2>2. m < s.best /\ AnyBlockInSlotRange(s.lo, s.hi, m + 1) = "Error"
    BY <1>2, <1>5, <2>1 DEF CompareBlock, LatestBlockInSlotRange
  <2>3. m + 1 \in DOMAIN slots
    BY <1>1, <1>2, <2>2
  <2>. QED
    BY <2>2, <2>3 DEF AnyBlockInSlotRange
<1>6. s.kind = "LastBlockInEpoch"
  BY <1>2, <1>4, <1>5 DEF Kinds
<1>7. AnyBlockInEpoch(s.lo, m) # "Error"
  BY <1>1 DEF AnyBlockInEpoch, Cmp
<1>8. AnyBlockInEpoch(s.lo, m) = "Equal" /\ m + 1 \notin DOMAIN slots
  BY <1>6, <1>7 DEF CompareBlock, LastBlockInEpoch
<1>9. EpochOf(m) = s.lo
  BY <1>1, <1>2, <1>3, <1>8 DEF AnyBlockInEpoch, Cmp
<1>10. m = Len(slots)
  <2>. DEFINE len == Len(slots)
  <2>1. m + 1 \notin 1 .. len /\ m \in 1 .. len /\ len \in Nat
    BY <1>1, <1>8, Zenon
  <2>. HIDE DEF len
  <2>2. m = len
    BY <2>1
  <2>. QED
    BY <2>2 DEF len
<1>. QED
  BY <1>6, <1>9, <1>10, Zenon

-----------------------------------------------------------------------------
(* The inductive invariant.                                                *)

LEMMA InitInv ==
  ASSUME Init
  PROVE  Inv
<1>1. slots \in Seq(Nat) /\ Len(slots) = 0
  BY DEF Init
<1>2. TypeOK /\ ChainInv
  BY <1>1 DEF Init, TypeOK, ChainInv
<1>. QED
  BY <1>2 DEF Init, Inv, BoundsInv, ExcludedInv, SettledInv, FoundIsRight, NoneIsRight

\* The chain grows, is finalized further or is replaced: final blocks stay, and
\* so do all blocks where none is replaced.
LEMMA ChainSteps ==
  ASSUME Inv, NewBlock \/ Finalize \/ Reorg
  PROVE  /\ slots' \in Seq(Nat) /\ Len(slots') >= Len(slots) /\ Len(slots') \in Nat
         /\ ChainInv'
         /\ finalized' \in 0 .. Len(slots') /\ finalized' >= finalized
         /\ reorgs' \in Nat
         /\ \A i \in 1 .. finalized : slots'[i] = slots[i]
         /\ ~Reorg => search' = search /\ \A i \in 1 .. Len(slots) : slots'[i] = slots[i]
         /\ search # None => search' \in {search, [search EXCEPT !.reorged = TRUE]}
         /\ Reorg /\ search # None => search' = [search EXCEPT !.reorged = TRUE]
         /\ search = None => search' = None
<1>. USE ConstantsAssumption
<1>1. slots \in Seq(Nat) /\ finalized \in 0 .. Len(slots) /\ reorgs \in Nat /\ Len(slots) \in Nat
      /\ DOMAIN slots = 1 .. Len(slots) /\ \A i \in 1 .. Len(slots) : slots[i] \in Nat
  BY SeqFacts DEF Inv, TypeOK
<1>2. \A i, j \in 1 .. Len(slots) : i < j => slots[i] < slots[j]
  BY DEF Inv, ChainInv
<1>. DEFINE len == Len(slots)
<1>a. reorgs' = reorgs => ~Reorg
  <2>1. Reorg => reorgs' = reorgs + 1
    BY DEF Reorg
  <2>. QED
    BY <1>1, <2>1
<1>3. CASE NewBlock
  <2>1. PICK slot \in Last(slots) + 1 .. MaxSlot : slots' = Append(slots, slot)
    BY <1>3 DEF NewBlock
  <2>2. Last(slots) \in Nat /\ \A i \in 1 .. len : slots[i] <= Last(slots)
    <3>1. CASE slots = <<>>
      BY <1>1, <3>1, SeqFacts DEF Last
    <3>2. CASE slots # <<>>
      <4>1. len \in 1 .. len
        BY <1>1, <3>2, SeqFacts
      <4>. QED
        BY <1>1, <1>2, <3>2, <4>1 DEF Last
    <3>. QED
      BY <3>1, <3>2
  <2>3. slot \in Nat /\ \A i \in 1 .. len : slots[i] < slot
    BY <1>1, <2>1, <2>2
  <2>4. /\ slots' \in Seq(Nat) /\ Len(slots') = len + 1
        /\ slots'[len + 1] = slot /\ \A i \in 1 .. len : slots'[i] = slots[i]
    BY <1>1, <2>1, <2>3, SeqAppend
  <2>5. ChainInv'
    <3>. SUFFICES ASSUME NEW i \in 1 .. Len(slots'), NEW j \in 1 .. Len(slots'), i < j
                  PROVE  slots'[i] < slots'[j]
      BY DEF ChainInv
    <3>1. i \in 1 .. len
      BY <1>1, <2>4
    <3>2. CASE j \in 1 .. len
      BY <1>2, <2>4, <3>1, <3>2
    <3>3. CASE j = len + 1
      BY <2>3, <2>4, <3>1, <3>3
    <3>. QED
      BY <1>1, <2>4, <3>2, <3>3, SMTT(30)
  <2>6. finalized' = finalized /\ reorgs' = reorgs /\ search' = search
    BY <1>3 DEF NewBlock
  <2>7. \A i \in 1 .. finalized : slots'[i] = slots[i]
    BY <1>1, <2>4
  <2>8. ~Reorg
    BY <1>a, <2>6
  <2>. QED
    BY <1>1, <2>4, <2>5, <2>6, <2>7, <2>8
<1>4. CASE Finalize
  <2>1. slots' = slots /\ reorgs' = reorgs /\ search' = search
        /\ finalized' \in finalized + 1 .. Len(slots)
    BY <1>4 DEF Finalize
  <2>2. ~Reorg
    BY <1>a, <2>1
  <2>3. ChainInv'
    BY <2>1 DEF Inv, ChainInv
  <2>. QED
    BY <1>1, <2>1, <2>2, <2>3
<1>5. CASE Reorg
  <2>. DEFINE first(kept) == IF kept = 0 THEN 1 ELSE slots[kept] + 1
  <2>1. PICK kept \in finalized .. Len(slots) - 1 :
          \E fork \in [kept + 1 .. Len(slots) + 1 -> first(kept) .. MaxSlot] :
             /\ \A i, j \in kept + 1 .. Len(slots) + 1 : i < j => fork[i] < fork[j]
             /\ slots' = [i \in 1 .. Len(slots) + 1 |-> IF i <= kept THEN slots[i] ELSE fork[i]]
    BY <1>5 DEF Reorg
  <2>2. PICK fork \in [kept + 1 .. len + 1 -> first(kept) .. MaxSlot] :
             /\ \A i, j \in kept + 1 .. len + 1 : i < j => fork[i] < fork[j]
             /\ slots' = [i \in 1 .. len + 1 |-> IF i <= kept THEN slots[i] ELSE fork[i]]
    BY <2>1
  <2>3. kept \in Nat /\ kept >= finalized /\ kept < len
    BY <1>1, <2>1
  <2>4. first(kept) \in Nat /\ \A i \in 1 .. kept : slots[i] < first(kept)
    BY <1>1, <1>2, <2>3, SMTT(30)
  <2>. HIDE DEF first
  <2>5. \A i \in kept + 1 .. len + 1 : fork[i] \in Nat /\ fork[i] >= first(kept)
    BY <1>1, <2>2, <2>3, <2>4, SMTT(30)
  <2>6. slots' \in [1 .. len + 1 -> Nat]
    BY <1>1, <2>2, <2>3, <2>5
  <2>7. slots' \in Seq(Nat) /\ Len(slots') = len + 1
    <3>. DEFINE size == len + 1
    <3>1. size \in Nat /\ slots' \in [1 .. size -> Nat]
      BY <1>1, <2>6
    <3>. HIDE DEF size
    <3>2. slots' \in Seq(Nat) /\ Len(slots') = size
      BY <3>1, SeqOfFunction
    <3>. QED
      BY <3>2 DEF size
  <2>8. ChainInv'
    <3>. SUFFICES ASSUME NEW i \in 1 .. Len(slots'), NEW j \in 1 .. Len(slots'), i < j
                  PROVE  slots'[i] < slots'[j]
      BY DEF ChainInv
    <3>1. i \in 1 .. len + 1 /\ j \in 1 .. len + 1
      BY <2>7
    <3>2. CASE j <= kept
      BY <1>1, <1>2, <2>2, <2>3, <3>1, <3>2
    <3>3. CASE i <= kept /\ j > kept
      <4>1. slots'[i] = slots[i] /\ slots'[j] = fork[j] /\ i \in 1 .. kept /\ j \in kept + 1 .. len + 1
        BY <1>1, <2>2, <2>3, <3>1, <3>3
      <4>2. slots[i] \in Nat
        BY <1>1, <2>3, <4>1
      <4>. QED
        BY <2>4, <2>5, <4>1, <4>2
    <3>4. CASE i > kept
      BY <1>1, <2>2, <2>3, <3>1, <3>4
    <3>. QED
      BY <1>1, <2>3, <3>1, <3>2, <3>3, <3>4
  <2>9. \A i \in 1 .. finalized : slots'[i] = slots[i]
    BY <1>1, <2>2, <2>3
  <2>10. finalized' = finalized /\ reorgs' = reorgs + 1
         /\ search' = IF search = None THEN None ELSE [search EXCEPT !.reorged = TRUE]
    BY <1>5 DEF Reorg
  <2>11. Len(slots') >= Len(slots) /\ Len(slots') \in Nat
         /\ finalized' \in 0 .. Len(slots') /\ finalized' >= finalized /\ reorgs' \in Nat
    <3>1. finalized \in 0 .. len /\ len \in Nat /\ reorgs \in Nat /\ len = Len(slots)
      BY <1>1
    <3>. QED
      BY ONLY <2>7, <2>10, <3>1
  <2>12. /\ search # None => search' = [search EXCEPT !.reorged = TRUE]
         /\ search = None => search' = None
    BY <2>10, Zenon
  <2>. QED
    BY <1>5, <2>7, <2>8, <2>9, <2>11, <2>12, Zenon
<1>. QED
  BY <1>3, <1>4, <1>5

LEMMA ChainStepsInv ==
  ASSUME Inv, NewBlock \/ Finalize \/ Reorg
  PROVE  Inv'
<1>1. /\ slots' \in Seq(Nat) /\ Len(slots') >= Len(slots) /\ Len(slots') \in Nat
      /\ ChainInv'
      /\ finalized' \in 0 .. Len(slots') /\ finalized' >= finalized
      /\ reorgs' \in Nat
      /\ \A i \in 1 .. finalized : slots'[i] = slots[i]
  BY ChainSteps
<1>2. Len(slots) \in Nat /\ DOMAIN slots = 1 .. Len(slots) /\ finalized \in 0 .. Len(slots)
      /\ DOMAIN slots' = 1 .. Len(slots')
  BY <1>1, SeqFacts DEF Inv, TypeOK
<1>3. CASE search = None
  <2>1. search' = None
    BY <1>3, ChainSteps
  <2>2. TypeOK'
    BY <1>1, <2>1 DEF TypeOK
  <2>. QED
    BY <1>1, <2>1, <2>2
    DEF Inv, BoundsInv, ExcludedInv, SettledInv, FoundIsRight, NoneIsRight
<1>4. CASE search # None
  <2>1. search \in Searches
    BY <1>4 DEF Inv, TypeOK
  <2>2. search' \in {search, [search EXCEPT !.reorged = TRUE]}
    BY <1>4, ChainSteps
  <2>3. search' \in Searches
    BY <2>1, <2>2 DEF Searches
  <2>4. /\ search'.kind = search.kind /\ search'.lo = search.lo /\ search'.hi = search.hi
        /\ search'.best = search.best /\ search'.settled = search.settled
        /\ search'.left = search.left /\ search'.right = search.right
        /\ search'.result = search.result /\ search'.status = search.status
    BY <2>1, <2>2 DEF Searches
  <2>5. /\ search.kind \in Kinds /\ search.lo \in Nat /\ search.hi \in Nat
        /\ search.best \in Nat /\ search.settled \in Nat
        /\ search.left \in Nat /\ search.right \in Nat
    BY <2>1, SearchFields
  <2>6. TypeOK'
    BY <1>1, <2>3 DEF TypeOK
  <2>7. BoundsInv'
    <3>. DEFINE best == search.best
                settled == search.settled
                len == Len(slots)
                next == Len(slots')
    <3>1. /\ best <= len /\ settled <= finalized /\ settled <= best
          /\ search.left >= 1 /\ search.left <= best + 2
          /\ search.right <= best + 1 /\ search.left <= search.right + 1
          /\ search.status = "found" => search.result \in 1 .. len
      BY <1>4 DEF Inv, BoundsInv
    <3>2. /\ best \in Nat /\ settled \in Nat /\ len \in Nat /\ next \in Nat /\ next >= len
          /\ finalized \in Nat /\ finalized' \in Nat /\ finalized' >= finalized
      BY <1>1, <1>2, <2>5
    <3>. HIDE DEF best, settled, len, next
    <3>3. /\ best <= next /\ settled <= finalized'
          /\ \A r \in 1 .. len : r \in 1 .. next
      BY <3>1, <3>2
    <3>4. search.status = "found" => search.result \in 1 .. next
      BY <3>1, <3>3, Zenon
    <3>. QED
      BY <2>4, <3>1, <3>3, <3>4, Zenon DEF BoundsInv, best, settled, next
  <2>8. SettledInv'
    <3>1. search.settled <= finalized
      BY <1>4 DEF Inv, BoundsInv
    <3>2. \A b \in 1 .. search.settled : EpochOf(b)' = EpochOf(b)
      BY <1>1, <1>2, <2>5, <3>1 DEF EpochOf
    <3>3. \A b \in 1 .. search.settled :
            b + 1 <= search.settled => EpochOf(b + 1)' = EpochOf(b + 1)
      BY <1>1, <1>2, <2>5, <3>1 DEF EpochOf
    <3>. SUFFICES ASSUME NEW b \in 1 .. search.settled
                  PROVE  (/\ search.kind = "AnyBlockInEpoch" /\ EpochOf(b) = search.lo =>
                              /\ search.status # "none"
                              /\ search.status = "running" => search.left <= b /\ b <= search.right
                          /\ /\ search.kind \in {"AnyBlockInEpoch", "LastBlockInEpoch"}
                             /\ EpochOf(b) = search.lo
                             /\ b + 1 <= search.settled /\ EpochOf(b + 1) > search.lo
                             => /\ search.status # "none"
                                /\ search.status = "running" => search.left <= b /\ b <= search.right
                                /\ search.status = "found" =>
                                     /\ search.result <= b
                                     /\ EpochOf(search.result) = search.lo
                                     /\ search.kind = "LastBlockInEpoch" => search.result = b)'
      BY <2>4 DEF SettledInv
    <3>4. search.status = "found" => search.result \in 1 .. Len(slots)
      BY <1>4 DEF Inv, BoundsInv
    <3>5. ASSUME search.status = "found", search.result <= b
          PROVE  EpochOf(search.result)' = EpochOf(search.result)
      <4>1. search.result \in 1 .. search.settled
        BY <1>2, <2>5, <3>4, <3>5
      <4>2. search.result \in 1 .. finalized
        BY <1>2, <2>5, <3>1, <4>1
      <4>3. slots'[search.result] = slots[search.result]
        BY <1>1, <4>2
      <4>. QED
        BY <2>4, <4>3, Zenon DEF EpochOf
    <3>. QED
      BY <1>4, <2>4, <3>2, <3>3, <3>5 DEF Inv, SettledInv
  <2>9. CASE search'.reorged
    BY <1>1, <2>6, <2>7, <2>8, <2>9 DEF Inv, ExcludedInv, FoundIsRight, NoneIsRight
  <2>10. CASE ~search'.reorged
    <3>1. search' = search
      <4>1. [search EXCEPT !.reorged = TRUE].reorged = TRUE
        BY <2>1 DEF Searches
      <4>. QED
        BY <2>2, <2>10, <4>1
    <3>2. ~Reorg
      <4>1. [search EXCEPT !.reorged = TRUE].reorged = TRUE
        BY <2>1 DEF Searches
      <4>. QED
        BY <1>4, <2>10, <4>1, ChainSteps
    <3>3. \A i \in 1 .. Len(slots) : slots'[i] = slots[i]
      BY <3>2, ChainSteps
    <3>4. \A i \in 1 .. Len(slots) : EpochOf(i)' = EpochOf(i)
      BY <3>3 DEF EpochOf
    <3>5. ExcludedInv'
      <4>1. /\ search.left <= Len(slots) + 1
            /\ \A b \in 1 .. Len(slots) : b < search.left => Early(search, b)
            /\ \A b \in 1 .. search.best : b > search.right => Late(search, b)
        BY <1>4, <2>10, <3>1 DEF Inv, ExcludedInv
      <4>2. search.best <= Len(slots)
        BY <1>4 DEF Inv, BoundsInv
      <4>3. ASSUME NEW b \in 1 .. Len(slots'), b < search.left
            PROVE  Early(search, b)'
        <5>1. b \in 1 .. Len(slots) /\ Early(search, b)
          BY <1>2, <2>5, <4>1, <4>3
        <5>2. EpochOf(b)' = EpochOf(b) /\ slots'[b] = slots[b]
          BY <3>3, <3>4, <5>1
        <5>3. b + 1 <= Len(slots) =>
                EpochOf(b + 1)' = EpochOf(b + 1) /\ slots'[b + 1] = slots[b + 1]
          BY <1>2, <3>3, <3>4, <5>1
        <5>4. b + 1 <= Len(slots) => b + 1 <= Len(slots')
          BY <1>1, <1>2, <5>1
        <5>5. b < search.best => b + 1 <= Len(slots)
          BY <1>2, <2>5, <4>2, <5>1
        <5>. QED
          BY <3>1, <5>1, <5>2, <5>3, <5>4, <5>5 DEF Early
      <4>4. ASSUME NEW b \in 1 .. search.best, b > search.right
            PROVE  Late(search, b)'
        <5>1. b \in 1 .. Len(slots) /\ Late(search, b)
          BY <1>2, <2>5, <4>1, <4>2, <4>4
        <5>. QED
          BY <3>1, <3>3, <3>4, <5>1 DEF Late
      <4>5. search.left <= Len(slots') + 1
        BY <1>1, <1>2, <2>5, <4>1
      <4>. QED
        BY <3>1, <4>3, <4>4, <4>5 DEF ExcludedInv
    <3>6. FoundIsRight' /\ NoneIsRight'
      <4>1. search.best <= Len(slots)
            /\ (search.status = "found" => search.result \in 1 .. Len(slots))
        BY <1>4 DEF Inv, BoundsInv
      <4>2. \A b \in 1 .. Len(slots) : Wanted(search, b)' <=> Wanted(search, b)
        <5>. SUFFICES ASSUME NEW b \in 1 .. Len(slots)
                      PROVE  Wanted(search, b)' <=> Wanted(search, b)
          OBVIOUS
        <5>1. b \in DOMAIN slots /\ b \in DOMAIN slots'
          BY <1>1, <1>2
        <5>. QED
          BY <3>1, <3>3, <3>4, <5>1 DEF Wanted
      <4>3. \A b \in 1 .. Len(slots) : \A n \in 0 .. Len(slots) :
              EndsEpoch(search, b, n)' <=> EndsEpoch(search, b, n)
        <5>. SUFFICES ASSUME NEW b \in 1 .. Len(slots), NEW n \in 0 .. Len(slots)
                      PROVE  EndsEpoch(search, b, n)' <=> EndsEpoch(search, b, n)
          OBVIOUS
        <5>1. b + 1 <= n => b + 1 \in 1 .. Len(slots) /\ b + 1 \in 1 .. Len(slots')
          BY <1>1, <1>2
        <5>. QED
          BY <1>2, <3>1, <3>4, <5>1 DEF EndsEpoch
      <4>4. ASSUME NEW b \in 1 .. Len(slots), EndsEpoch(search, b, Len(slots))
            PROVE  EndsEpoch(search, b, Len(slots))'
        <5>1. b + 1 \in 1 .. Len(slots) /\ b + 1 \in 1 .. Len(slots')
          BY <1>1, <1>2, <4>4 DEF EndsEpoch
        <5>2. b + 1 <= Len(slots')
          BY <1>1, <5>1
        <5>. QED
          BY <1>2, <3>1, <3>4, <4>4, <5>1, <5>2 DEF EndsEpoch
      <4>5. FoundIsRight'
        <5>. SUFFICES ASSUME search.status = "found"
                      PROVE  /\ Wanted(search, search.result)'
                             /\ search.kind = "LastBlockInEpoch" =>
                                  EndsEpoch(search, search.result, Len(slots))'
                             /\ search.kind = "LatestBlockInSlotRange" =>
                                  \A b \in search.result + 1 .. search.best : ~Wanted(search, b)'
          BY <3>1 DEF FoundIsRight
        <5>1. /\ Wanted(search, search.result)
              /\ search.kind = "LastBlockInEpoch" =>
                   EndsEpoch(search, search.result, Len(slots))
              /\ search.kind = "LatestBlockInSlotRange" =>
                   \A b \in search.result + 1 .. search.best : ~Wanted(search, b)
          BY <1>4, <2>10, <3>1 DEF Inv, FoundIsRight
        <5>2. Wanted(search, search.result)'
          BY <3>1, <4>1, <4>2, <5>1
        <5>3. search.kind = "LastBlockInEpoch" => EndsEpoch(search, search.result, Len(slots))'
          BY <3>1, <4>1, <4>4, <5>1
        <5>4. ASSUME search.kind = "LatestBlockInSlotRange",
                     NEW b \in search.result + 1 .. search.best
              PROVE  ~Wanted(search, b)'
          <6>1. b \in 1 .. Len(slots)
            BY <1>2, <2>5, <4>1, <5>4
          <6>. QED
            BY <4>2, <5>1, <5>4, <6>1
        <5>. QED
          BY <5>2, <5>3, <5>4
      <4>6. NoneIsRight'
        <5>. SUFFICES ASSUME search.status = "none", NEW b \in 1 .. search.best
                      PROVE  IF search.kind = "LastBlockInEpoch"
                             THEN ~EndsEpoch(search, b, search.best)'
                             ELSE ~Wanted(search, b)'
          BY <3>1 DEF NoneIsRight
        <5>1. b \in 1 .. Len(slots) /\ search.best \in 0 .. Len(slots)
          BY <1>2, <2>5, <4>1
        <5>2. IF search.kind = "LastBlockInEpoch"
              THEN ~EndsEpoch(search, b, search.best)
              ELSE ~Wanted(search, b)
          BY <1>4, <2>10, <3>1 DEF Inv, NoneIsRight
        <5>. QED
          BY <3>1, <4>2, <4>3, <5>1, <5>2
      <4>. QED
        BY <4>5, <4>6
    <3>. QED
      BY <1>1, <2>6, <2>7, <2>8, <3>5, <3>6 DEF Inv
  <2>. QED
    BY <2>9, <2>10
<1>. QED
  BY <1>3, <1>4

LEMMA FindBlockNumberInv ==
  ASSUME Inv, FindBlockNumber
  PROVE  Inv'
<1>1. slots' = slots /\ finalized' = finalized /\ reorgs' = reorgs
  BY DEF FindBlockNumber
<1>2. slots \in Seq(Nat) /\ Len(slots) \in Nat /\ finalized \in 0 .. Len(slots) /\ reorgs \in Nat
  BY SeqFacts DEF Inv, TypeOK
<1>3. PICK kind \in Kinds, lo \in 0 .. MaxSlot : \E hi \in lo .. MaxSlot + 1 :
        search' = [kind |-> kind, lo |-> lo, hi |-> hi, best |-> Len(slots),
                   settled |-> finalized, reorged |-> FALSE,
                   left |-> 1, right |-> Len(slots) + 1, result |-> None,
                   status |-> "running"]
  BY DEF FindBlockNumber
<1>4. PICK hi \in lo .. MaxSlot + 1 :
        search' = [kind |-> kind, lo |-> lo, hi |-> hi, best |-> Len(slots),
                   settled |-> finalized, reorged |-> FALSE,
                   left |-> 1, right |-> Len(slots) + 1, result |-> None,
                   status |-> "running"]
  BY <1>3
<1>5. lo \in Nat /\ hi \in Nat
  BY <1>3, <1>4, ConstantsAssumption
<1>6. search' \in Searches
  BY <1>2, <1>4, <1>5 DEF Searches
<1>7. /\ search'.best = Len(slots) /\ search'.settled = finalized
      /\ search'.left = 1 /\ search'.right = Len(slots) + 1 /\ search'.status = "running"
  BY <1>4
<1>8. TypeOK' /\ ChainInv'
  BY <1>1, <1>2, <1>6 DEF Inv, TypeOK, ChainInv
<1>9. BoundsInv'
  BY <1>1, <1>2, <1>7 DEF BoundsInv
<1>10. ExcludedInv'
  BY <1>1, <1>2, <1>7 DEF ExcludedInv
<1>11. SettledInv'
  BY <1>1, <1>2, <1>7 DEF SettledInv
<1>12. FoundIsRight' /\ NoneIsRight'
  BY <1>7 DEF FoundIsRight, NoneIsRight
<1>. QED
  BY <1>8, <1>9, <1>10, <1>11, <1>12 DEF Inv

LEMMA Middle ==
  ASSUME NEW l \in Nat, NEW r \in Nat
  PROVE  /\ (l + r) \div 2 \in Nat
         /\ l <= r => l <= (l + r) \div 2 /\ (l + r) \div 2 <= r
         /\ 2 * ((l + r) \div 2) <= l + r
OBVIOUS

LEMMA CompareValues ==
  ASSUME NEW s, NEW m
  PROVE  CompareBlock(s, m) \in {"Less", "Greater", "Equal", "Error"}
<1>1. \A e, b : AnyBlockInEpoch(e, b) \in {"Less", "Greater", "Equal", "Error"}
  BY DEF AnyBlockInEpoch, Cmp
<1>2. \A lo, hi, b : AnyBlockInSlotRange(lo, hi, b) \in {"Less", "Greater", "Equal", "Error"}
  BY DEF AnyBlockInSlotRange
<1>3. LastBlockInEpoch(s.lo, m) \in {"Less", "Greater", "Equal", "Error"}
  BY <1>1 DEF LastBlockInEpoch
<1>4. LatestBlockInSlotRange(s.lo, s.hi, s.best, m) \in {"Less", "Greater", "Equal", "Error"}
  BY <1>2 DEF LatestBlockInSlotRange
<1>. QED
  BY <1>1, <1>2, <1>3, <1>4 DEF CompareBlock

\* Where the blocks split into early and late ones, none is looked for.
LEMMA NothingBetween ==
  ASSUME TypeOK, ChainInv, NEW s \in Searches, s.best <= Len(slots), NEW k \in 0 .. s.best,
         \A b \in 1 .. k : Early(s, b),
         \A b \in k + 1 .. s.best : Late(s, b)
  PROVE  \A b \in 1 .. s.best : IF s.kind = "LastBlockInEpoch" THEN ~EndsEpoch(s, b, s.best)
                                ELSE ~Wanted(s, b)
<1>1. Len(slots) \in Nat /\ \A i \in 1 .. Len(slots) : slots[i] \in Nat
  BY SeqFacts DEF TypeOK
<1>2. s.lo \in Nat /\ s.hi \in Nat /\ s.best \in Nat /\ s.kind \in Kinds
  BY SearchFields
<1>. SUFFICES ASSUME NEW b \in 1 .. s.best
              PROVE  IF s.kind = "LastBlockInEpoch" THEN ~EndsEpoch(s, b, s.best)
                     ELSE ~Wanted(s, b)
  OBVIOUS
<1>3. b \in 1 .. Len(slots) /\ EpochOf(b) \in Nat /\ slots[b] \in Nat
  BY <1>1, <1>2, EpochMonotone
<1>4. CASE b > k
  <2>1. Late(s, b)
    BY <1>2, <1>4
  <2>. QED
    BY <1>2, <1>3, <2>1 DEF Late, EndsEpoch, Wanted, Kinds
<1>5. CASE b <= k
  <2>1. Early(s, b)
    BY <1>2, <1>5
  <2>2. CASE s.kind = "AnyBlockInEpoch"
    BY <1>2, <1>3, <2>1, <2>2 DEF Early, Wanted
  <2>3. CASE s.kind = "AnyBlockInSlotRange"
    BY <1>2, <1>3, <2>1, <2>3 DEF Early, Wanted
  <2>4. CASE s.kind = "LastBlockInEpoch"
    <3>1. b + 1 <= Len(slots) => EpochOf(b + 1) \in Nat
      BY <1>1, <1>3, EpochMonotone
    <3>. QED
      BY <1>2, <1>3, <2>1, <2>4, <3>1 DEF Early, EndsEpoch
  <2>5. CASE s.kind = "LatestBlockInSlotRange"
    <3>1. k \in 1 .. s.best /\ k \in 1 .. Len(slots) /\ Early(s, k)
      BY <1>1, <1>2, <1>3, <1>5
    <3>2. slots[k] < s.lo
      <4>1. CASE k = s.best
        BY <1>2, <2>5, <3>1, <4>1 DEF Early
      <4>2. CASE k < s.best
        <5>1. Late(s, k + 1) /\ k + 1 \in 1 .. Len(slots)
          BY <1>1, <1>2, <3>1, <4>2
        <5>2. slots[k + 1] \in Nat /\ slots[k + 1] >= s.hi
          BY <1>1, <2>5, <5>1 DEF Late
        <5>. QED
          BY <1>2, <2>5, <3>1, <5>2 DEF Early
      <4>. QED
        BY <1>2, <3>1, <4>1, <4>2
    <3>3. slots[b] <= slots[k] /\ slots[k] \in Nat
      BY <1>1, <1>3, <1>5, <3>1 DEF ChainInv
    <3>4. slots[b] < s.lo
      BY <1>2, <1>3, <3>2, <3>3
    <3>. QED
      BY <1>2, <1>3, <2>5, <3>4 DEF Wanted
  <2>. QED
    BY <1>2, <2>2, <2>3, <2>4, <2>5 DEF Kinds
<1>. QED
  BY <1>2, <1>4, <1>5

LEMMA StepInv ==
  ASSUME Inv, Step
  PROVE  Inv'
<1>. DEFINE l == search.left
            r == search.right
            m == (l + r) \div 2
            cmp == CompareBlock(search, m)
            len == Len(slots)
            Settled(b) == /\ b \in 1 .. search.settled
                          /\ EpochOf(b) = search.lo
                          /\ \/ search.kind = "AnyBlockInEpoch"
                             \/ /\ search.kind = "LastBlockInEpoch"
                                /\ b + 1 <= search.settled /\ EpochOf(b + 1) > search.lo
<1>1. search # None /\ search.status = "running"
      /\ slots' = slots /\ finalized' = finalized /\ reorgs' = reorgs
      /\ search' = IF l > r \/ cmp = "Error" THEN [search EXCEPT !.status = "none"]
                   ELSE IF cmp = "Equal"
                   THEN [search EXCEPT !.status = "found", !.result = m]
                   ELSE IF cmp = "Less" THEN [search EXCEPT !.left = m + 1]
                   ELSE [search EXCEPT !.right = m - 1]
  BY DEF Step
<1>2. search \in Searches /\ TypeOK /\ ChainInv
  BY <1>1 DEF Inv, TypeOK
<1>3. /\ search.kind \in Kinds /\ search.lo \in Nat /\ search.hi \in Nat
      /\ search.best \in Nat /\ search.settled \in Nat /\ l \in Nat /\ r \in Nat
      /\ search.result \in Nat \cup {None}
  BY <1>2, SearchFields
<1>4. len \in Nat /\ finalized \in 0 .. len /\ slots \in Seq(Nat) /\ DOMAIN slots = 1 .. len
  BY <1>2, SeqFacts DEF TypeOK
<1>5. /\ search.best <= len /\ search.settled <= finalized /\ search.settled <= search.best
      /\ l >= 1 /\ l <= search.best + 2 /\ r <= search.best + 1 /\ l <= r + 1
  BY <1>1 DEF Inv, BoundsInv
<1>6. m \in Nat /\ (l <= r => l <= m /\ m <= r) /\ 2 * m <= l + r
  BY <1>3, Middle
<1>7. cmp \in {"Less", "Greater", "Equal", "Error"}
  BY CompareValues
<1>8. ~search.reorged =>
        /\ l <= len + 1
        /\ \A b \in 1 .. len : b < l => Early(search, b)
        /\ \A b \in 1 .. search.best : b > r => Late(search, b)
  BY <1>1 DEF Inv, ExcludedInv
<1>9. \A b : Settled(b) => l <= b /\ b <= r
  BY <1>1 DEF Inv, SettledInv
<1>10. \A i \in 1 .. len : EpochOf(i) \in Nat
  BY <1>2, EpochMonotone
<1>11. \A i, j \in 1 .. len : i <= j => EpochOf(i) <= EpochOf(j)
  BY <1>2, EpochMonotone
<1>12. ChainInv'
  BY <1>1, <1>2 DEF ChainInv
<1>. HIDE DEF l, r, m, cmp, len
<1>13. \A b : Settled(b) => b \in 1 .. len /\ b <= search.best
  BY <1>3, <1>4, <1>5, SMTT(30)
<1>14. \A b : Settled(b) /\ b + 1 <= search.settled => b + 1 \in 1 .. len
  BY <1>3, <1>4, <1>5, SMTT(30)
<1>15. CASE l > r \/ cmp = "Error"
  <2>1. search' = [search EXCEPT !.status = "none"]
    BY <1>1, <1>15
  <2>2. search' \in Searches
    BY <1>2, <2>1 DEF Searches
  <2>3. /\ search'.kind = search.kind /\ search'.lo = search.lo /\ search'.hi = search.hi
        /\ search'.best = search.best /\ search'.settled = search.settled
        /\ search'.left = search.left /\ search'.right = search.right
        /\ search'.reorged = search.reorged /\ search'.status = "none"
    BY <1>2, <2>1 DEF Searches
  <2>4. ASSUME l <= r
        PROVE  \/ m > len
               \/ search.kind = "LastBlockInEpoch" /\ m = len /\ EpochOf(m) = search.lo
    <3>1. CompareBlock(search, m) = "Error" /\ m >= 1
      BY <1>3, <1>5, <1>6, <1>15, <2>4 DEF cmp
    <3>. QED
      BY <1>2, <1>5, <1>6, <3>1, CompareError DEF len
  <2>5. ASSUME NEW b, Settled(b) PROVE FALSE
    <3>1. l <= b /\ b <= r /\ b \in 1 .. len /\ b <= search.best
      BY <1>9, <1>13, <2>5
    <3>2. l <= r
      BY <1>3, <3>1
    <3>3. m <= len
      BY <1>3, <1>4, <1>5, <1>6, <3>1, <3>2
    <3>4. search.kind = "LastBlockInEpoch" /\ m = len /\ EpochOf(m) = search.lo
      BY <1>4, <1>6, <2>4, <3>2, <3>3
    <3>5. b + 1 \in 1 .. len /\ EpochOf(b + 1) > search.lo
      BY <1>14, <2>5, <3>4
    <3>6. EpochOf(b + 1) <= EpochOf(len) /\ EpochOf(len) \in Nat /\ EpochOf(b + 1) \in Nat
      BY <1>4, <1>10, <1>11, <3>5
    <3>. QED
      BY <1>3, <3>4, <3>5, <3>6
  <2>6. TypeOK' /\ BoundsInv'
    BY <1>1, <1>2, <1>3, <1>4, <1>5, <2>2, <2>3 DEF TypeOK, BoundsInv, len, l, r
  <2>7. SettledInv'
    <3>1. \A b \in 1 .. search.settled : EpochOf(b)' = EpochOf(b) /\ EpochOf(b + 1)' = EpochOf(b + 1)
      BY <1>1 DEF EpochOf
    <3>2. \A b \in 1 .. search.settled : ~Settled(b)
      BY <2>5
    <3>. QED
      BY <1>1, <2>3, <3>1, <3>2 DEF SettledInv
  <2>8. ExcludedInv'
    <3>1. \A b : (Early(search, b)' <=> Early(search, b)) /\ (Late(search, b)' <=> Late(search, b))
      BY <1>1, <2>3 DEF Early, Late, EpochOf
    <3>. QED
      BY <1>1, <1>8, <2>3, <3>1 DEF ExcludedInv, len, l, r
  <2>9. FoundIsRight'
    BY <2>3 DEF FoundIsRight
  <2>10. NoneIsRight'
    <3>. SUFFICES ASSUME ~search.reorged
                  PROVE  \A b \in 1 .. search.best :
                           IF search.kind = "LastBlockInEpoch"
                           THEN ~EndsEpoch(search, b, search.best)
                           ELSE ~Wanted(search, b)
      BY <1>1, <2>3 DEF NoneIsRight, EndsEpoch, Wanted, EpochOf
    <3>1. CASE l > r
      <4>. DEFINE k == IF r <= search.best THEN r ELSE search.best
      <4>1. k \in 0 .. search.best
        BY <1>3
      <4>2. ASSUME NEW b \in 1 .. k PROVE Early(search, b)
        <5>1. b \in 1 .. len /\ b < l
          BY <1>3, <1>4, <1>5, <3>1, <4>1, <4>2
        <5>. QED
          BY <1>8, <5>1
      <4>3. ASSUME NEW b \in k + 1 .. search.best PROVE Late(search, b)
        <5>1. b \in 1 .. search.best /\ b > r
          BY <1>3, <4>1, <4>3
        <5>. QED
          BY <1>8, <5>1
      <4>. HIDE DEF k
      <4>. QED
        BY <1>2, <1>5, <4>1, <4>2, <4>3, NothingBetween DEF len
    <3>2. CASE l <= r /\ m > len
      <4>1. l >= search.best + 1
        BY <1>3, <1>4, <1>5, <1>6, <3>2
      <4>2. \A b \in 1 .. search.best : Early(search, b)
        BY <1>3, <1>4, <1>5, <1>8, <4>1
      <4>3. search.best \in 0 .. search.best
            /\ \A b \in search.best + 1 .. search.best : Late(search, b)
        BY <1>3
      <4>. QED
        BY <1>2, <1>5, <4>2, <4>3, NothingBetween DEF len
    <3>3. CASE l <= r /\ ~(m > len)
      <4>1. search.kind = "LastBlockInEpoch" /\ m = len /\ EpochOf(m) = search.lo
        BY <2>4, <3>3
      <4>2. ASSUME NEW b \in 1 .. search.best, EndsEpoch(search, b, search.best) PROVE FALSE
        <5>1. b + 1 \in 1 .. len /\ len \in 1 .. len /\ EpochOf(b + 1) > search.lo
          BY <1>3, <1>4, <1>5, <4>2 DEF EndsEpoch
        <5>2. EpochOf(b + 1) <= EpochOf(len) /\ EpochOf(len) \in Nat /\ EpochOf(b + 1) \in Nat
          BY <1>4, <1>10, <1>11, <5>1
        <5>. QED
          BY <1>3, <4>1, <5>1, <5>2
      <4>. QED
        BY <4>1, <4>2
    <3>. QED
      BY <1>3, <3>1, <3>2, <3>3
  <2>. QED
    BY <1>12, <2>6, <2>7, <2>8, <2>9, <2>10 DEF Inv
<1>16. CASE l <= r /\ cmp = "Equal"
  <2>1. search' = [search EXCEPT !.status = "found", !.result = m]
    BY <1>1, <1>3, <1>16
  <2>2. search' \in Searches
    BY <1>2, <1>6, <2>1 DEF Searches
  <2>3. /\ search'.kind = search.kind /\ search'.lo = search.lo /\ search'.hi = search.hi
        /\ search'.best = search.best /\ search'.settled = search.settled
        /\ search'.left = search.left /\ search'.right = search.right
        /\ search'.reorged = search.reorged /\ search'.status = "found" /\ search'.result = m
    BY <1>2, <2>1 DEF Searches
  <2>4. /\ m \in 1 .. len
        /\ Wanted(search, m)
        /\ search.kind = "LastBlockInEpoch" => EndsEpoch(search, m, len)
        /\ search.kind = "LatestBlockInSlotRange" => \A b \in m + 1 .. search.best : ~Wanted(search, b)
    BY <1>2, <1>5, <1>6, <1>16, CompareEqual DEF cmp, len
  <2>5. TypeOK' /\ BoundsInv'
    BY <1>1, <1>2, <1>3, <1>4, <1>5, <2>2, <2>3, <2>4 DEF TypeOK, BoundsInv, len, l, r
  <2>6. ASSUME NEW b, Settled(b), b + 1 <= search.settled, EpochOf(b + 1) > search.lo
        PROVE  m <= b /\ EpochOf(m) = search.lo /\ (search.kind = "LastBlockInEpoch" => m = b)
    <3>1. b \in 1 .. len /\ b + 1 \in 1 .. len
      BY <1>13, <1>14, <2>6
    <3>2. EpochOf(m) = search.lo
      BY <2>4, <2>6 DEF Wanted
    <3>3. m <= b
      <4>1. ~(b + 1 <= m)
        <5>1. b + 1 <= m => EpochOf(b + 1) <= EpochOf(m)
          BY <1>11, <2>4, <3>1
        <5>. QED
          BY <1>3, <1>10, <2>4, <2>6, <3>1, <3>2, <5>1
      <4>. QED
        BY <1>6, <3>1, <4>1
    <3>4. ASSUME search.kind = "LastBlockInEpoch" PROVE m = b
      <4>1. m + 1 \in 1 .. len /\ EpochOf(m + 1) > search.lo
        BY <1>1, <1>4, <2>4, <3>4 DEF EndsEpoch
      <4>2. ~(m + 1 <= b)
        <5>1. m + 1 <= b => EpochOf(m + 1) <= EpochOf(b)
          BY <1>11, <3>1, <4>1
        <5>. QED
          BY <1>3, <1>10, <2>6, <3>1, <4>1, <5>1
      <4>. QED
        BY <1>6, <3>1, <3>3, <4>2
    <3>. QED
      BY <3>2, <3>3, <3>4
  <2>7. SettledInv'
    <3>1. \A b : EpochOf(b)' = EpochOf(b) /\ EpochOf(b + 1)' = EpochOf(b + 1)
      BY <1>1 DEF EpochOf
    <3>2. EpochOf(search.result)' = EpochOf(m)
      BY <1>1, <2>3 DEF EpochOf
    <3>. QED
      BY <1>1, <2>3, <2>6, <3>1, <3>2 DEF SettledInv
  <2>8. ExcludedInv'
    <3>1. \A b : (Early(search, b)' <=> Early(search, b)) /\ (Late(search, b)' <=> Late(search, b))
      BY <1>1, <2>3 DEF Early, Late, EpochOf
    <3>. QED
      BY <1>1, <1>8, <2>3, <3>1 DEF ExcludedInv, len, l, r
  <2>9. FoundIsRight'
    BY <1>1, <2>3, <2>4 DEF FoundIsRight, EndsEpoch, Wanted, EpochOf, len
  <2>10. NoneIsRight'
    BY <2>3 DEF NoneIsRight
  <2>. QED
    BY <1>12, <2>5, <2>7, <2>8, <2>9, <2>10 DEF Inv
<1>17. CASE l <= r /\ cmp = "Less"
  <2>1. search' = [search EXCEPT !.left = m + 1]
    BY <1>1, <1>3, <1>17
  <2>2. search' \in Searches
    BY <1>2, <1>6, <2>1 DEF Searches
  <2>3. /\ search'.kind = search.kind /\ search'.lo = search.lo /\ search'.hi = search.hi
        /\ search'.best = search.best /\ search'.settled = search.settled
        /\ search'.left = m + 1 /\ search'.right = search.right
        /\ search'.reorged = search.reorged /\ search'.status = "running"
    BY <1>1, <1>2, <2>1 DEF Searches
  <2>4. m \in 1 .. len /\ \A b \in 1 .. m : Early(search, b)
    BY <1>2, <1>6, <1>17, CompareLess DEF cmp, len
  <2>5. TypeOK' /\ BoundsInv'
    <3>1. TypeOK'
      BY <1>1, <1>2, <2>2 DEF TypeOK
    <3>2. m + 1 >= 1 /\ m + 1 <= search.best + 2 /\ m + 1 <= r + 1
      BY <1>3, <1>5, <1>6, <1>17
    <3>. QED
      BY <1>1, <1>5, <2>3, <3>1, <3>2 DEF BoundsInv, len, r
  <2>6. ASSUME NEW b, Settled(b) PROVE m + 1 <= b /\ b <= r
    <3>1. b \in 1 .. len /\ b <= r
      BY <1>9, <1>13, <2>6
    <3>2. ~(b <= m)
      <4>. SUFFICES ASSUME b <= m PROVE FALSE
        OBVIOUS
      <4>1. Early(search, b)
        BY <1>6, <2>4, <3>1
      <4>2. b + 1 <= search.settled => EpochOf(b + 1) \in Nat
        BY <1>10, <1>14, <2>6
      <4>. QED
        BY <1>3, <1>5, <1>10, <2>6, <3>1, <4>1, <4>2 DEF Early
    <3>. QED
      BY <1>6, <3>1, <3>2
  <2>7. SettledInv'
    <3>1. \A b : EpochOf(b)' = EpochOf(b) /\ EpochOf(b + 1)' = EpochOf(b + 1)
      BY <1>1 DEF EpochOf
    <3>. QED
      BY <1>1, <2>3, <2>6, <3>1 DEF SettledInv, r
  <2>8. ExcludedInv'
    <3>1. \A b : (Early(search, b)' <=> Early(search, b)) /\ (Late(search, b)' <=> Late(search, b))
      BY <1>1, <2>3 DEF Early, Late, EpochOf
    <3>2. m + 1 <= len + 1 /\ \A b \in 1 .. len : b < m + 1 => Early(search, b)
      BY <1>4, <1>6, <2>4
    <3>. QED
      BY <1>1, <1>8, <2>3, <3>1, <3>2 DEF ExcludedInv, len, l, r
  <2>. QED
    BY <1>12, <2>3, <2>5, <2>7, <2>8 DEF Inv, FoundIsRight, NoneIsRight
<1>18. CASE l <= r /\ cmp = "Greater"
  <2>1. search' = [search EXCEPT !.right = m - 1] /\ m - 1 \in Nat
    BY <1>1, <1>3, <1>5, <1>6, <1>18
  <2>2. search' \in Searches
    BY <1>2, <2>1 DEF Searches
  <2>3. /\ search'.kind = search.kind /\ search'.lo = search.lo /\ search'.hi = search.hi
        /\ search'.best = search.best /\ search'.settled = search.settled
        /\ search'.left = search.left /\ search'.right = m - 1
        /\ search'.reorged = search.reorged /\ search'.status = "running"
    BY <1>1, <1>2, <2>1 DEF Searches
  <2>4. m \in 1 .. len /\ \A b \in m .. len : Late(search, b)
    BY <1>2, <1>6, <1>18, CompareGreater DEF cmp, len
  <2>5. TypeOK' /\ BoundsInv'
    <3>1. TypeOK'
      BY <1>1, <1>2, <2>2 DEF TypeOK
    <3>2. m - 1 <= search.best + 1 /\ l <= m - 1 + 1
      BY <1>3, <1>5, <1>6, <1>18
    <3>. QED
      BY <1>1, <1>5, <2>3, <3>1, <3>2 DEF BoundsInv, len, l
  <2>6. ASSUME NEW b, Settled(b) PROVE l <= b /\ b <= m - 1
    <3>1. b \in 1 .. len /\ l <= b
      BY <1>9, <1>13, <2>6
    <3>2. ~(m <= b)
      <4>. SUFFICES ASSUME m <= b PROVE FALSE
        OBVIOUS
      <4>1. Late(search, b)
        BY <1>6, <2>4, <3>1
      <4>. QED
        BY <1>3, <1>10, <2>6, <3>1, <4>1 DEF Late
    <3>. QED
      BY <1>6, <3>1, <3>2
  <2>7. SettledInv'
    <3>1. \A b : EpochOf(b)' = EpochOf(b) /\ EpochOf(b + 1)' = EpochOf(b + 1)
      BY <1>1 DEF EpochOf
    <3>. QED
      BY <1>1, <2>3, <2>6, <3>1 DEF SettledInv, l
  <2>8. ExcludedInv'
    <3>1. \A b : (Early(search, b)' <=> Early(search, b)) /\ (Late(search, b)' <=> Late(search, b))
      BY <1>1, <2>3 DEF Early, Late, EpochOf
    <3>2. \A b \in 1 .. search.best : b > m - 1 => Late(search, b)
      BY <1>3, <1>4, <1>5, <1>6, <2>4
    <3>. QED
      BY <1>1, <1>8, <2>3, <3>1, <3>2 DEF ExcludedInv, len, l, r
  <2>. QED
    BY <1>12, <2>3, <2>5, <2>7, <2>8 DEF Inv, FoundIsRight, NoneIsRight
<1>. QED
  BY <1>3, <1>7, <1>15, <1>16, <1>17, <1>18

-----------------------------------------------------------------------------

\* The inductive invariant holds in every reachable state.
THEOREM InvAlways == Spec => []Inv
<1>1. Init => Inv
  BY InitInv
<1>2. Inv /\ [Next]_vars => Inv'
  <2>. SUFFICES ASSUME Inv, [Next]_vars PROVE Inv'
    OBVIOUS
  <2>1. CASE NewBlock \/ Finalize \/ Reorg
    BY <2>1, ChainStepsInv
  <2>2. CASE FindBlockNumber
    BY <2>2, FindBlockNumberInv
  <2>3. CASE Step
    BY <2>3, StepInv
  <2>4. CASE UNCHANGED vars
    BY <2>4
    DEF vars, Inv, TypeOK, ChainInv, BoundsInv, ExcludedInv, SettledInv, FoundIsRight,
        NoneIsRight, Early, Late, Wanted, EndsEpoch, EpochOf
  <2>. QED
    BY <2>1, <2>2, <2>3, <2>4 DEF Next
<1>. QED
  BY <1>1, <1>2, PTL DEF Spec

\* The state keeps its types: `mid - 1' and `mid + 1' of the search never leave
\* the unsigned block numbers.
THEOREM TypeCorrect == Spec => []TypeOK
<1>1. Inv => TypeOK
  BY DEF Inv
<1>. QED
  BY <1>1, InvAlways, PTL

\* A block that find_block_number returns is one that was looked for, on chains
\* of any length that only grew during the search.
THEOREM FoundCorrect == Spec => []FoundIsRight
<1>1. Inv => FoundIsRight
  BY DEF Inv
<1>. QED
  BY <1>1, InvAlways, PTL

\* Where find_block_number returns none, there was nothing to find.
THEOREM NoneCorrect == Spec => []NoneIsRight
<1>1. Inv => NoneIsRight
  BY DEF Inv
<1>. QED
  BY <1>1, InvAlways, PTL

\* Final blocks are found, and found right, whatever happens to the chain above
\* them during the search.
THEOREM SettledCorrect == Spec => []SettledEpochsAreFound
<1>1. ASSUME Inv PROVE SettledEpochsAreFound
  <2>1. CASE search = None
    BY <2>1 DEF SettledEpochsAreFound
  <2>2. CASE search # None
    <3>1. search \in Searches /\ slots \in Seq(Nat) /\ DOMAIN slots = 1 .. Len(slots)
      BY <1>1, <2>2, SeqFacts DEF Inv, TypeOK
    <3>2. search.status = "found" => search.result \in 1 .. Len(slots)
      BY <1>1, <2>2 DEF Inv, BoundsInv
    <3>3. ASSUME search.kind = "AnyBlockInEpoch", NEW b \in 1 .. search.settled, Wanted(search, b)
          PROVE  search.status # "none"
      BY <1>1, <2>2, <3>3 DEF Inv, SettledInv, Wanted
    <3>4. ASSUME search.kind \in {"AnyBlockInEpoch", "LastBlockInEpoch"},
                 NEW b \in 1 .. search.settled, EndsEpoch(search, b, search.settled)
          PROVE  /\ search.status # "none"
                 /\ search.status = "found" =>
                      IF search.kind = "AnyBlockInEpoch" THEN Wanted(search, search.result)
                      ELSE EndsEpoch(search, search.result, search.settled)
      <4>1. /\ search.status # "none"
            /\ search.status = "found" =>
                 /\ EpochOf(search.result) = search.lo
                 /\ search.kind = "LastBlockInEpoch" => search.result = b
        BY <1>1, <2>2, <3>4 DEF Inv, SettledInv, EndsEpoch
      <4>. QED
        BY <3>1, <3>2, <3>4, <4>1 DEF Wanted
    <3>. QED
      BY <3>3, <3>4 DEF SettledEpochsAreFound
  <2>. QED
    BY <2>1, <2>2
<1>. QED
  BY <1>1, InvAlways, PTL

\* The `expect' of find_block does not fail: what was found is a block.
THEOREM FoundExists == Spec => []FoundBlockExists
<1>1. Inv => FoundBlockExists
  BY SeqFacts DEF Inv, TypeOK, BoundsInv, FoundBlockExists
<1>. QED
  BY <1>1, InvAlways, PTL

\* binary_search_by makes fewer comparisons than there are blocks: every
\* iteration leaves out at least one.
THEOREM RangeShrinks == Spec => StepsShrinkTheRange
<1>. DEFINE Shrinks == search # None /\ search' # search /\ search'.status = "running"
                         /\ search'.reorged = search.reorged
                       => search'.right - search'.left < search.right - search.left
<1>1. ASSUME Inv, Next PROVE Shrinks
  <2>1. CASE NewBlock \/ Finalize \/ FindBlockNumber
    BY <2>1 DEF NewBlock, Finalize, FindBlockNumber
  <2>2. CASE Reorg
    <3>. SUFFICES ASSUME search # None, search'.reorged = search.reorged
                  PROVE  search' = search
      OBVIOUS
    <3>1. search \in Searches /\ search' = [search EXCEPT !.reorged = TRUE]
      BY <1>1, <2>2 DEF Inv, TypeOK, Reorg
    <3>2. search.reorged = TRUE
      BY <3>1 DEF Searches
    <3>. QED
      BY <3>1, <3>2 DEF Searches
  <2>3. CASE Step
    <3>. DEFINE l == search.left
                r == search.right
                m == (l + r) \div 2
    <3>1. /\ search \in Searches
          /\ \/ search' = [search EXCEPT !.status = "none"]
             \/ search' = [search EXCEPT !.status = "found", !.result = m]
             \/ ~(l > r) /\ search' = [search EXCEPT !.left = m + 1]
             \/ ~(l > r) /\ search' = [search EXCEPT !.right = m - 1]
      BY <1>1, <2>3 DEF Inv, TypeOK, Step
    <3>2. l \in Nat /\ r \in Nat
      BY <3>1, SearchFields
    <3>3. m \in Nat /\ (l <= r => l <= m /\ m <= r)
      BY <3>2, Middle
    <3>. HIDE DEF m
    <3>4. CASE ~(l > r) /\ search' = [search EXCEPT !.left = m + 1]
      <4>1. search'.left = m + 1 /\ search'.right = r
        BY <3>1, <3>4 DEF Searches
      <4>2. r - (m + 1) < r - l
        BY <3>2, <3>3, <3>4
      <4>. QED
        BY <4>1, <4>2
    <3>5. CASE ~(l > r) /\ search' = [search EXCEPT !.right = m - 1]
      <4>1. search'.left = l /\ search'.right = m - 1
        BY <3>1, <3>5 DEF Searches
      <4>2. (m - 1) - l < r - l
        BY <3>2, <3>3, <3>5
      <4>. QED
        BY <4>1, <4>2
    <3>6. CASE search' = [search EXCEPT !.status = "none"]
      BY <3>1, <3>6 DEF Searches
    <3>7. CASE search' = [search EXCEPT !.status = "found", !.result = m]
      BY <3>1, <3>7 DEF Searches
    <3>. QED
      BY <3>1, <3>4, <3>5, <3>6, <3>7
  <2>. QED
    BY <1>1, <2>1, <2>2, <2>3 DEF Next
<1>2. Inv /\ [Next]_vars => [Shrinks]_vars
  BY <1>1
<1>3. Spec => [][Shrinks]_vars
  BY <1>2, InvAlways, PTL DEF Spec
<1>. QED
  BY <1>3 DEF StepsShrinkTheRange

=============================================================================
