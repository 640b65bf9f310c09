------------------------ MODULE McReferenceProofs ------------------------
(***************************************************************************)
(* Proofs about McReference, for any number of nodes, any security         *)
(* parameter, margin and boundaries, and no bound on time.  The main chain *)
(* is assumed long enough not to be shorter than the author's offset       *)
(* (MatureMainChain); without that the properties are false, as the run on *)
(* a young main chain shows.                                               *)
(***************************************************************************)
EXTENDS McReference, TLAPS

\* No database is shorter than what an author subtracts from its length.
DbInv ==
  /\ mcTip >= InitialTip
  /\ \A n \in Nodes : dbTip[n] >= SecurityParameter + StabilityMargin

\* A block in some store: its reference was deep in its author's database and
\* of the right age, and it went back only if it is the storing node's own.
BlockInv(m, block) ==
  /\ block.ref + SecurityParameter + StabilityMargin <= block.authorTip
  /\ block.authorTip <= mcTip
  /\ IsBlockTimeValid(block.ref, block.slot)
  /\ block.ref < block.parentRef => block.author = m

KnownInv == \A m \in Nodes : \A block \in known[m] : BlockInv(m, block)

\* Best chains consist of stored blocks linked by their parents' references.
ChainInv ==
  \A m \in Nodes : \A i \in 1 .. Len(chain[m]) :
    /\ chain[m][i] \in known[m]
    /\ i > 1 => chain[m][i].parentRef = chain[m][i - 1].ref
    /\ i = 1 => chain[m][i].parentRef = 0

Inv == TypeOK /\ DbInv /\ KnownInv /\ ChainInv /\ CachedBlocksAreSettled

LEMMA SeqAppend ==
  ASSUME NEW S, NEW q \in Seq(S), NEW e \in S
  PROVE  /\ Append(q, e) \in Seq(S)
         /\ Len(Append(q, e)) = Len(q) + 1
         /\ Append(q, e)[Len(q) + 1] = e
         /\ \A i \in 1 .. Len(q) : Append(q, e)[i] = q[i]
OBVIOUS

LEMMA SeqPrefix ==
  ASSUME NEW S, NEW q \in Seq(S), NEW len \in 0 .. Len(q)
  PROVE  /\ SubSeq(q, 1, len) \in Seq(S)
         /\ Len(SubSeq(q, 1, len)) = len
         /\ \A i \in 1 .. len : SubSeq(q, 1, len)[i] = q[i]
OBVIOUS

LEMMA SeqFacts ==
  ASSUME NEW S, NEW q \in Seq(S)
  PROVE  /\ Len(q) \in Nat
         /\ DOMAIN q = 1 .. Len(q)
         /\ \A i \in 1 .. Len(q) : q[i] \in S
         /\ q = <<>> <=> Len(q) = 0
OBVIOUS

LEMMA BlockFields ==
  ASSUME NEW block \in Blocks
  PROVE  /\ block.slot \in Nat
         /\ block.ref \in Nat
         /\ block.parentRef \in Nat
         /\ block.author \in Nodes
         /\ block.authorTip \in Nat
BY DEF Blocks

\* What db-sync does to a database.
LEMMA DbMove ==
  ASSUME Inv, MatureMainChain, NEW n \in Nodes, DbSync(n) \/ DbRollback(n)
  PROVE  \E t \in 0 .. mcTip :
           /\ t >= SecurityParameter + StabilityMargin
           /\ dbTip' = [dbTip EXCEPT ![n] = t]
           /\ UNCHANGED <<now, mcTip, blockTime, chain, known, cached>>
<1>. USE ConstantsAssumption
<1>1. dbTip[n] \in 0 .. mcTip /\ mcTip \in Nat
  BY DEF Inv, TypeOK
<1>2. dbTip[n] >= SecurityParameter + StabilityMargin /\ mcTip >= InitialTip
  BY DEF Inv, DbInv
<1>3. CASE DbSync(n)
  <2>1. dbTip[n] + 1 \in 0 .. mcTip /\ dbTip[n] + 1 >= SecurityParameter + StabilityMargin
    BY <1>1, <1>2, <1>3 DEF DbSync
  <2>. QED
    BY <1>3, <2>1 DEF DbSync
<1>4. CASE DbRollback(n)
  <2>1. PICK t \in SaturatingSub(mcTip, SecurityParameter) .. dbTip[n] - 1 :
          dbTip' = [dbTip EXCEPT ![n] = t]
    BY <1>4 DEF DbRollback
  <2>2. t \in 0 .. mcTip /\ t >= SecurityParameter + StabilityMargin
    BY <1>1, <1>2 DEF SaturatingSub, MatureMainChain
  <2>. QED
    BY <1>4, <2>1, <2>2 DEF DbRollback
<1>. QED
  BY <1>3, <1>4

LEMMA InitInv ==
  ASSUME MatureMainChain, Init
  PROVE  Inv
<1>1. TypeOK
  BY ConstantsAssumption DEF Init, TypeOK
<1>2. DbInv
  BY <1>1, ConstantsAssumption DEF Init, DbInv, MatureMainChain, TypeOK
<1>3. KnownInv /\ ChainInv /\ CachedBlocksAreSettled
  BY DEF Init, KnownInv, ChainInv, CachedBlocksAreSettled
<1>. QED
  BY <1>1, <1>2, <1>3 DEF Inv

\* The clock, the main chain and the databases move; no block is made.
LEMMA EnvironmentInv ==
  ASSUME MatureMainChain, Inv,
         Tick \/ MainChainBlock \/ \E n \in Nodes : DbSync(n) \/ DbRollback(n)
  PROVE  Inv'
<1>. USE ConstantsAssumption
<1>1. UNCHANGED <<chain, known, cached>>
  BY DEF Tick, MainChainBlock, DbSync, DbRollback
<1>2. TypeOK'
  <2>1. CASE Tick
    BY <2>1 DEF Tick, Inv, TypeOK
  <2>2. CASE MainChainBlock
    <3>1. mcTip' \in Nat /\ now' \in Nat
      BY <2>2 DEF MainChainBlock, Inv, TypeOK
    <3>2. blockTime' \in [0 .. mcTip' -> 0 .. now']
      BY <2>2 DEF MainChainBlock, Inv, TypeOK
    <3>3. dbTip' \in [Nodes -> 0 .. mcTip']
      BY <2>2 DEF MainChainBlock, Inv, TypeOK
    <3>. QED
      BY <1>1, <3>1, <3>2, <3>3 DEF Inv, TypeOK
  <2>3. CASE \E n \in Nodes : DbSync(n) \/ DbRollback(n)
    BY <2>3, DbMove DEF Inv, TypeOK
  <2>. QED
    BY <2>1, <2>2, <2>3
<1>3. DbInv'
  <2>1. CASE Tick \/ MainChainBlock
    BY <2>1 DEF Tick, MainChainBlock, Inv, TypeOK, DbInv
  <2>2. CASE \E n \in Nodes : DbSync(n) \/ DbRollback(n)
    BY <2>2, DbMove DEF Inv, TypeOK, DbInv
  <2>. QED
    BY <2>1, <2>2
<1>4. KnownInv'
  <2>. SUFFICES ASSUME NEW m \in Nodes, NEW block \in known[m]
                PROVE  BlockInv(m, block)'
    BY <1>1 DEF KnownInv
  <2>1. block \in Blocks /\ BlockInv(m, block)
    BY DEF Inv, TypeOK, KnownInv
  <2>2. mcTip' >= mcTip /\ mcTip' \in Nat /\ mcTip \in Nat
    BY DEF Tick, MainChainBlock, DbSync, DbRollback, Inv, TypeOK
  <2>3. block.ref \in 0 .. mcTip
    BY <2>1, <2>2, BlockFields DEF BlockInv
  <2>4. blockTime'[block.ref] = blockTime[block.ref]
    BY <2>3, SMTT(30) DEF Tick, MainChainBlock, DbSync, DbRollback, Inv, TypeOK
  <2>. QED
    BY <2>1, <2>2, <2>4, BlockFields DEF BlockInv, IsBlockTimeValid
<1>5. ChainInv'
  BY <1>1 DEF Inv, ChainInv
<1>6. CachedBlocksAreSettled'
  <2>1. mcTip' >= mcTip /\ mcTip' \in Nat /\ mcTip \in Nat
    BY DEF Tick, MainChainBlock, DbSync, DbRollback, Inv, TypeOK
  <2>2. \A m \in Nodes : cached[m] \in SUBSET Nat
    BY DEF Inv, TypeOK
  <2>. QED
    BY <1>1, <2>1, <2>2 DEF Inv, CachedBlocksAreSettled
<1>. QED
  BY <1>2, <1>3, <1>4, <1>5, <1>6 DEF Inv

LEMMA ProposeInv ==
  ASSUME Inv, NEW n \in Nodes, Propose(n)
  PROVE  Inv'
<1>. USE ConstantsAssumption
<1>. DEFINE Made(b) == [slot |-> now, ref |-> b, parentRef |-> ParentRef(chain[n]),
                        author |-> n, authorTip |-> dbTip[n]]
<1>1. PICK b \in 0 .. dbTip[n] :
        /\ IsLatestStableBlockFor(n, now, b)
        /\ chain' = [chain EXCEPT ![n] = Append(@, Made(b))]
        /\ known' = [known EXCEPT ![n] = @ \cup {Made(b)}]
  BY DEF Propose
<1>2. UNCHANGED <<now, mcTip, blockTime, dbTip, cached>>
  BY DEF Propose
<1>3. now \in Nat /\ dbTip[n] \in 0 .. mcTip /\ mcTip \in Nat /\ chain[n] \in Seq(Blocks)
  BY DEF Inv, TypeOK
<1>4. ParentRef(chain[n]) \in Nat
  BY <1>3, SeqFacts, BlockFields DEF ParentRef, Last
<1>5. Made(b) \in Blocks
  BY <1>1, <1>3, <1>4 DEF Blocks
<1>6. /\ b + SecurityParameter + StabilityMargin <= dbTip[n]
      /\ IsBlockTimeValid(b, now)
  <2>1. b \in EligibleFor(n, now)
    BY <1>1 DEF IsLatestStableBlockFor
  <2>. QED
    BY <2>1, <1>1, <1>3 DEF EligibleFor, SaturatingSub, Inv, DbInv
<1>7. TypeOK'
  <2>1. chain' \in [Nodes -> Seq(Blocks)]
    BY <1>1, <1>3, <1>5, SeqAppend DEF Inv, TypeOK
  <2>2. known' \in [Nodes -> SUBSET Blocks]
    BY <1>1, <1>5 DEF Inv, TypeOK
  <2>. QED
    BY <1>2, <2>1, <2>2 DEF Inv, TypeOK
<1>8. DbInv'
  BY <1>2 DEF Inv, DbInv
<1>9. KnownInv'
  <2>. SUFFICES ASSUME NEW m \in Nodes, NEW block \in known'[m]
                PROVE  BlockInv(m, block)'
    BY DEF KnownInv
  <2>1. CASE block \in known[m]
    BY <2>1, <1>2 DEF Inv, KnownInv, BlockInv, IsBlockTimeValid
  <2>2. CASE block \notin known[m]
    <3>1. m = n /\ block = Made(b)
      BY <2>2, <1>1 DEF Inv, TypeOK
    <3>. QED
      BY <3>1, <1>2, <1>3, <1>6 DEF BlockInv, IsBlockTimeValid
  <2>. QED
    BY <2>1, <2>2
<1>10. ChainInv'
  <2>. SUFFICES ASSUME NEW m \in Nodes, NEW i \in 1 .. Len(chain'[m])
                PROVE  /\ chain'[m][i] \in known'[m]
                       /\ i > 1 => chain'[m][i].parentRef = chain'[m][i - 1].ref
                       /\ i = 1 => chain'[m][i].parentRef = 0
    BY DEF ChainInv
  <2>1. CASE m # n
    BY <2>1, <1>1 DEF Inv, TypeOK, ChainInv
  <2>2. CASE m = n
    <3>1. chain'[n] = Append(chain[n], Made(b)) /\ known'[n] = known[n] \cup {Made(b)}
      BY <1>1 DEF Inv, TypeOK
    <3>. HIDE DEF Made
    <3>2. Len(chain[n]) \in Nat /\ i \in 1 .. Len(chain[n]) + 1
      BY <2>2, <3>1, <1>3, <1>5, SeqAppend, SeqFacts
    <3>3. CASE i <= Len(chain[n])
      BY <2>2, <3>1, <3>2, <3>3, <1>3, <1>5, SeqAppend DEF Inv, ChainInv
    <3>4. CASE i = Len(chain[n]) + 1
      <4>1. chain'[n][i] = Made(b)
        BY <3>1, <3>4, <1>3, <1>5, SeqAppend
      <4>2. i > 1 => Made(b).parentRef = chain'[n][i - 1].ref
        <5>. SUFFICES ASSUME i > 1 PROVE Made(b).parentRef = chain'[n][i - 1].ref
          OBVIOUS
        <5>1. chain'[n][i - 1] = chain[n][Len(chain[n])]
          BY <3>1, <3>2, <3>4, <1>3, <1>5, SeqAppend
        <5>2. chain[n] # <<>>
          BY <3>2, <3>4, <1>3, SeqFacts
        <5>. QED
          BY <5>1, <5>2 DEF Made, ParentRef, Last
      <4>3. i = 1 => Made(b).parentRef = 0
        BY <3>2, <3>4, <1>3, SeqFacts DEF Made, ParentRef
      <4>. QED
        BY <2>2, <3>1, <4>1, <4>2, <4>3
    <3>. QED
      BY <3>2, <3>3, <3>4
  <2>. QED
    BY <2>1, <2>2
<1>11. CachedBlocksAreSettled'
  BY <1>2 DEF Inv, CachedBlocksAreSettled
<1>. QED
  BY <1>7, <1>8, <1>9, <1>10, <1>11 DEF Inv

\* What a lookup leaves in the cache is settled, if the cache was.
LEMMA CacheAfterSettled ==
  ASSUME Inv, NEW m \in Nodes, NEW c \in SUBSET Nat, NEW b \in Nat, NEW timestamp,
         \A d \in c : d + SecurityParameter <= mcTip
  PROVE  /\ CacheAfter(m, c, b, timestamp) \in SUBSET Nat
         /\ \A d \in CacheAfter(m, c, b, timestamp) : d + SecurityParameter <= mcTip
<1>. USE ConstantsAssumption
<1>1. dbTip[m] \in 0 .. mcTip /\ mcTip \in Nat
  BY DEF Inv, TypeOK
<1>2. CASE b \notin c /\ IsStableBlockFor(m, c, b, timestamp)
  <2>1. b + SecurityParameter <= dbTip[m]
    BY <1>2 DEF IsStableBlockFor
  <2>2. CacheAfter(m, c, b, timestamp) = FillCache(m, b)
    BY <1>2 DEF CacheAfter
  <2>3. /\ FillCache(m, b) \in SUBSET Nat
        /\ \A d \in FillCache(m, b) : d + SecurityParameter <= dbTip[m]
    BY <1>1, <2>1 DEF FillCache, SaturatingSub
  <2>. QED
    BY <1>1, <2>2, <2>3
<1>3. CASE ~(b \notin c /\ IsStableBlockFor(m, c, b, timestamp))
  BY <1>3 DEF CacheAfter
<1>. QED
  BY <1>2, <1>3

LEMMA ImportInv ==
  ASSUME Inv, NEW m \in Nodes, NEW n \in Nodes, Import(m, n)
  PROVE  Inv'
<1>. USE ConstantsAssumption
<1>. DEFINE parents(i) == SubSeq(chain[n], 1, i - 1)
            longer(i) == IF i > Len(chain[m]) THEN Append(parents(i), chain[n][i])
                         ELSE chain[m]
<1>1. PICK i \in DOMAIN chain[n] :
        /\ \A j \in 1 .. i - 1 : chain[n][j] \in known[m]
        /\ cached' = [cached EXCEPT ![m] = CacheAfterVerification(m, parents(i), chain[n][i])]
        /\ \/ /\ NewVerification(m, parents(i), chain[n][i])
              /\ known' = [known EXCEPT ![m] = @ \cup {chain[n][i]}]
              /\ chain' = [chain EXCEPT ![m] = longer(i)]
           \/ UNCHANGED <<known, chain>>
  BY DEF Import
<1>2. UNCHANGED <<now, mcTip, blockTime, dbTip>>
  BY DEF Import
<1>3. chain[m] \in Seq(Blocks) /\ chain[n] \in Seq(Blocks) /\ mcTip \in Nat
  BY DEF Inv, TypeOK
<1>4. /\ Len(chain[n]) \in Nat
      /\ Len(chain[m]) \in Nat
      /\ i \in 1 .. Len(chain[n])
      /\ i - 1 \in 0 .. Len(chain[n])
  BY <1>1, <1>3, SeqFacts
<1>5. \A j \in 1 .. i : chain[n][j] \in Blocks /\ chain[n][j] \in known[n]
  BY <1>3, <1>4, SeqFacts DEF Inv, ChainInv
<1>6. /\ parents(i) \in Seq(Blocks)
      /\ Len(parents(i)) = i - 1
      /\ \A j \in 1 .. i - 1 : parents(i)[j] = chain[n][j]
  BY <1>3, <1>4, SeqPrefix
<1>7. parents(i) # <<>> => /\ i > 1
                           /\ i - 1 \in 1 .. i
                           /\ Last(parents(i)) = chain[n][i - 1]
                           /\ Last(parents(i)) \in Blocks
  <2>. SUFFICES ASSUME parents(i) # <<>>
                PROVE  /\ i > 1
                       /\ i - 1 \in 1 .. i
                       /\ Last(parents(i)) = chain[n][i - 1]
                       /\ Last(parents(i)) \in Blocks
    OBVIOUS
  <2>1. Len(parents(i)) # 0
    BY <1>6, SeqFacts
  <2>2. i > 1 /\ i - 1 \in 1 .. i /\ i - 1 \in 1 .. i - 1
    BY <1>4, <1>6, <2>1
  <2>. QED
    BY <1>5, <1>6, <2>2 DEF Last
<1>8. /\ cached' \in [Nodes -> SUBSET Nat]
      /\ CachedBlocksAreSettled'
  <2>. DEFINE new == CacheAfterVerification(m, parents(i), chain[n][i])
              c == CacheAfter(m, cached[m], chain[n][i].ref, chain[n][i].slot)
  <2>1. chain[n][i] \in Blocks
    BY <1>4, <1>5
  <2>2. chain[n][i].ref \in Nat /\ (parents(i) # <<>> => Last(parents(i)).ref \in Nat)
    BY <1>7, <2>1, BlockFields
  <2>3. cached[m] \in SUBSET Nat /\ \A d \in cached[m] : d + SecurityParameter <= mcTip
    BY DEF Inv, TypeOK, CachedBlocksAreSettled
  <2>4. c \in SUBSET Nat /\ \A d \in c : d + SecurityParameter <= mcTip
    BY <2>2, <2>3, CacheAfterSettled
  <2>. HIDE DEF c, parents
  <2>5. parents(i) # <<>> =>
          LET e == CacheAfter(m, c, Last(parents(i)).ref, Last(parents(i)).slot)
          IN  e \in SUBSET Nat /\ \A d \in e : d + SecurityParameter <= mcTip
    BY <2>2, <2>4, CacheAfterSettled
  <2>6. new \in SUBSET Nat /\ \A d \in new : d + SecurityParameter <= mcTip
    BY <2>4, <2>5 DEF CacheAfterVerification, c
  <2>7. cached' = [cached EXCEPT ![m] = new]
    BY <1>1 DEF parents
  <2>. HIDE DEF new
  <2>8. cached' \in [Nodes -> SUBSET Nat]
    BY <2>6, <2>7 DEF Inv, TypeOK
  <2>9. CachedBlocksAreSettled'
    BY <1>2, <2>6, <2>7 DEF Inv, TypeOK, CachedBlocksAreSettled
  <2>. QED
    BY <2>8, <2>9
<1>9. DbInv'
  BY <1>2 DEF Inv, DbInv
<1>10. CASE UNCHANGED <<known, chain>>
  BY <1>2, <1>8, <1>9, <1>10 DEF Inv, TypeOK, KnownInv, BlockInv, IsBlockTimeValid, ChainInv
<1>11. CASE /\ NewVerification(m, parents(i), chain[n][i])
            /\ known' = [known EXCEPT ![m] = @ \cup {chain[n][i]}]
            /\ chain' = [chain EXCEPT ![m] = longer(i)]
  <2>1. /\ longer(i) \in Seq(Blocks)
        /\ i > Len(chain[m]) => /\ Len(longer(i)) = i
                                /\ \A j \in 1 .. i : longer(i)[j] = chain[n][j]
    <3>1. chain[n][i] \in Blocks
      BY <1>4, <1>5
    <3>. HIDE DEF parents
    <3>. QED
      BY <1>3, <1>4, <1>6, <3>1, SeqAppend
  <2>. HIDE DEF longer
  <2>2. TypeOK'
    <3>1. chain' \in [Nodes -> Seq(Blocks)]
      BY <1>11, <2>1 DEF Inv, TypeOK
    <3>2. known' \in [Nodes -> SUBSET Blocks]
      BY <1>11, <1>4, <1>5, SMTT(30) DEF Inv, TypeOK
    <3>. QED
      BY <1>2, <1>8, <3>1, <3>2 DEF Inv, TypeOK
  <2>3. chain[n][i].ref < chain[n][i].parentRef => chain[n][i].author = m
    <3>1. chain[n][i].parentRef \in Nat /\ chain[n][i].ref \in Nat
      BY <1>4, <1>5, BlockFields
    <3>2. CASE parents(i) = <<>>
      <4>1. i = 1
        BY <1>4, <1>6, <3>2, SeqFacts
      <4>2. chain[n][i].parentRef = 0
        BY <1>4, <4>1 DEF Inv, ChainInv
      <4>. QED
        BY <3>1, <4>2
    <3>3. CASE parents(i) # <<>>
      <4>1. chain[n][i - 1].ref <= chain[n][i].ref
        BY <1>7, <1>11, <3>3 DEF NewVerification
      <4>2. chain[n][i].parentRef = chain[n][i - 1].ref
        BY <1>4, <1>7, <3>3 DEF Inv, ChainInv
      <4>3. chain[n][i - 1].ref \in Nat
        BY <1>7, <3>3, BlockFields
      <4>. QED
        BY <3>1, <4>1, <4>2, <4>3
    <3>. QED
      BY <3>2, <3>3
  <2>4. KnownInv'
    <3>. SUFFICES ASSUME NEW p \in Nodes, NEW block \in known'[p]
                  PROVE  BlockInv(p, block)'
      BY DEF KnownInv
    <3>1. CASE block \in known[p]
      BY <3>1, <1>2 DEF Inv, KnownInv, BlockInv, IsBlockTimeValid
    <3>2. CASE block \notin known[p]
      <4>1. p = m /\ block = chain[n][i]
        BY <3>2, <1>11 DEF Inv, TypeOK
      <4>2. BlockInv(n, block)
        BY <4>1, <1>4, <1>5 DEF Inv, KnownInv
      <4>. QED
        BY <4>1, <4>2, <2>3, <1>2 DEF BlockInv, IsBlockTimeValid
    <3>. QED
      BY <3>1, <3>2
  <2>5. ChainInv'
    <3>. SUFFICES ASSUME NEW p \in Nodes, NEW j \in 1 .. Len(chain'[p])
                  PROVE  /\ chain'[p][j] \in known'[p]
                         /\ j > 1 => chain'[p][j].parentRef = chain'[p][j - 1].ref
                         /\ j = 1 => chain'[p][j].parentRef = 0
      BY DEF ChainInv
    <3>1. known[p] \subseteq known'[p]
      BY <1>11 DEF Inv, TypeOK
    <3>2. CASE p # m
      BY <3>1, <3>2, <1>11 DEF Inv, TypeOK, ChainInv
    <3>3. CASE p = m /\ ~(i > Len(chain[m]))
      <4>1. chain'[m] = chain[m]
        BY <3>3, <1>11 DEF Inv, TypeOK, longer
      <4>. QED
        BY <3>1, <3>3, <4>1 DEF Inv, ChainInv
    <3>4. CASE p = m /\ i > Len(chain[m])
      <4>1. chain'[m] = longer(i) /\ known'[m] = known[m] \cup {chain[n][i]}
        BY <1>11 DEF Inv, TypeOK
      <4>2. j \in 1 .. i /\ chain'[m][j] = chain[n][j]
        BY <2>1, <3>4, <4>1
      <4>3. j > 1 => chain'[m][j - 1] = chain[n][j - 1]
        BY <1>4, <2>1, <3>4, <4>1, <4>2
      <4>4. j \in 1 .. Len(chain[n])
        BY <1>4, <4>2
      <4>5. /\ j > 1 => chain[n][j].parentRef = chain[n][j - 1].ref
            /\ j = 1 => chain[n][j].parentRef = 0
        BY <4>4 DEF Inv, ChainInv
      <4>6. chain[n][j] \in known[m] \cup {chain[n][i]}
        BY <1>1, <1>4, <4>2
      <4>. QED
        BY <3>4, <4>1, <4>2, <4>3, <4>5, <4>6
    <3>. QED
      BY <3>2, <3>3, <3>4
  <2>. QED
    BY <1>8, <1>9, <2>2, <2>4, <2>5 DEF Inv
<1>. QED
  BY <1>1, <1>10, <1>11

\* Every step preserves the invariant, over all the actions.
THEOREM InvAlways ==
  ASSUME MatureMainChain
  PROVE  Spec => []Inv
<1>1. Init => Inv
  BY InitInv
<1>2. Inv /\ [Next]_vars => Inv'
  <2>. SUFFICES ASSUME Inv, [Next]_vars PROVE Inv'
    OBVIOUS
  <2>1. CASE Tick \/ MainChainBlock \/ \E n \in Nodes : DbSync(n) \/ DbRollback(n)
    BY <2>1, EnvironmentInv
  <2>2. CASE \E n \in Nodes : Propose(n)
    BY <2>2, ProposeInv
  <2>3. CASE \E m, n \in Nodes : Import(m, n)
    BY <2>3, ImportInv
  <2>4. CASE UNCHANGED vars
    BY <2>4 DEF vars, Inv, TypeOK, DbInv, KnownInv, BlockInv, IsBlockTimeValid, ChainInv,
             CachedBlocksAreSettled
  <2>. QED
    BY <2>1, <2>2, <2>3, <2>4 DEF Next
<1>. QED
  BY <1>1, <1>2, PTL DEF Spec

\* The databases, chains and stores keep their types: no block is authored
\* without a reference, and no database runs ahead of the main chain.
THEOREM TypeCorrect ==
  ASSUME MatureMainChain
  PROVE  Spec => []TypeOK
BY InvAlways, PTL DEF Inv

\* Every reference is to a settled main chain block of the right age.
THEOREM ReferencesSettled ==
  ASSUME MatureMainChain
  PROVE  Spec => []ReferencesAreSettled
<1>1. Inv => ReferencesAreSettled
  <2>. SUFFICES ASSUME Inv, NEW m \in Nodes, NEW i \in DOMAIN chain[m]
                PROVE  /\ chain[m][i].ref + SecurityParameter <= mcTip
                       /\ IsBlockTimeValid(chain[m][i].ref, chain[m][i].slot)
    BY DEF ReferencesAreSettled
  <2>1. chain[m][i] \in Blocks /\ BlockInv(m, chain[m][i]) /\ mcTip \in Nat
    BY SeqFacts DEF Inv, TypeOK, ChainInv, KnownInv
  <2>. QED
    BY <2>1, BlockFields, ConstantsAssumption DEF BlockInv
<1>. QED
  BY <1>1, InvAlways, PTL

\* A cached main chain block is settled, however the database moved since.
THEOREM CacheSettled ==
  ASSUME MatureMainChain
  PROVE  Spec => []CachedBlocksAreSettled
BY InvAlways, PTL DEF Inv

\* A regressed reference stays with its author.
THEOREM RegressionsStay ==
  ASSUME MatureMainChain
  PROVE  Spec => []OnlyTheAuthorKeepsARegression
<1>1. Inv => OnlyTheAuthorKeepsARegression
  <2>. SUFFICES ASSUME Inv, NEW m \in Nodes, NEW i \in 2 .. Len(chain[m]),
                       chain[m][i].ref < chain[m][i - 1].ref
                PROVE  chain[m][i].author = m
    BY DEF OnlyTheAuthorKeepsARegression
  <2>1. i \in 1 .. Len(chain[m]) /\ i > 1
    BY SeqFacts DEF Inv, TypeOK
  <2>2. chain[m][i] \in known[m] /\ chain[m][i].parentRef = chain[m][i - 1].ref
    BY <2>1 DEF Inv, ChainInv
  <2>. QED
    BY <2>2 DEF Inv, KnownInv, BlockInv
<1>. QED
  BY <1>1, InvAlways, PTL

\* The margin covers databases that lag by no more than the margin.
THEOREM MarginSuffices ==
  ASSUME MatureMainChain
  PROVE  Spec => []MarginAbsorbsLag
<1>1. Inv => MarginAbsorbsLag
  <2>. SUFFICES ASSUME Inv, NEW m \in Nodes, NEW n \in Nodes
                PROVE  LET len == Len(chain[n])
                           block == chain[n][len]
                           parents == SubSeq(chain[n], 1, len - 1)
                       IN  /\ len > 0
                           /\ parents = chain[m]
                           /\ block.authorTip <= dbTip[m] + StabilityMargin
                           /\ parents # <<>> => Last(parents).ref <= block.ref
                           => NewVerification(m, parents, block)
    BY DEF MarginAbsorbsLag
  <2>. DEFINE len == Len(chain[n])
              block == chain[n][len]
              parents == SubSeq(chain[n], 1, len - 1)
  <2>. SUFFICES ASSUME len > 0,
                       block.authorTip <= dbTip[m] + StabilityMargin,
                       parents # <<>> => Last(parents).ref <= block.ref
                PROVE  NewVerification(m, parents, block)
    OBVIOUS
  <2>1. chain[n] \in Seq(Blocks) /\ dbTip[m] \in 0 .. mcTip /\ mcTip \in Nat
    BY DEF Inv, TypeOK
  <2>2. len \in Nat /\ len \in 1 .. len /\ len - 1 \in 0 .. len
    BY <2>1, SeqFacts
  <2>3. \A i \in 1 .. len : chain[n][i] \in Blocks /\ BlockInv(n, chain[n][i])
    BY <2>1, SeqFacts DEF Inv, ChainInv, KnownInv
  <2>4. block \in Blocks /\ BlockInv(n, block)
    BY <2>2, <2>3
  <2>5. block.ref + SecurityParameter <= dbTip[m]
    <3>. HIDE DEF block
    <3>. QED
      BY <2>1, <2>4, BlockFields, ConstantsAssumption DEF BlockInv
  <2>6. IsStableBlockFor(m, cached[m], block.ref, block.slot)
    <3>. HIDE DEF block
    <3>. QED
      BY <2>1, <2>4, <2>5, BlockFields, ConstantsAssumption DEF BlockInv, IsStableBlockFor
  <2>7. ASSUME parents # <<>>
        PROVE  \A c : IsStableBlockFor(m, c, Last(parents).ref, Last(parents).slot)
    <3>1. Len(parents) = len - 1 /\ parents \in Seq(Blocks)
      BY <2>1, <2>2, SeqPrefix
    <3>2. len - 1 \in 1 .. len /\ Len(parents) # 0
      BY <2>2, <2>7, <3>1, SeqFacts
    <3>3. Last(parents) = chain[n][len - 1]
      BY <2>1, <2>2, <3>1, <3>2, SeqPrefix DEF Last
    <3>4. Last(parents) \in Blocks /\ BlockInv(n, Last(parents))
      BY <2>3, <3>2, <3>3
    <3>. HIDE DEF block, parents
    <3>5. Last(parents).ref + SecurityParameter <= dbTip[m]
      BY <2>1, <2>4, <2>5, <2>7, <3>4, BlockFields, ConstantsAssumption
    <3>. QED
      BY <2>1, <3>4, <3>5, BlockFields, ConstantsAssumption DEF BlockInv, IsStableBlockFor
  <2>. QED
    BY <2>6, <2>7 DEF NewVerification
<1>. QED
  BY <1>1, InvAlways, PTL

=============================================================================
