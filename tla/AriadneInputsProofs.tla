------------------------ MODULE AriadneInputsProofs ------------------------
(***************************************************************************)
(* For every security parameter, cache size and number of requests, and    *)
(* epochs as ConstantsAssumption relates them: inputs are final, wherever  *)
(* they come from, and always available.                                   *)
(***************************************************************************)
EXTENDS AriadneInputs, FiniteSetTheorems, TLAPS

-----------------------------------------------------------------------------
(* The inductive invariant.                                                *)

\* Blocks are in the order of their times, and those k deep are settled.
DbInv ==
  /\ \A i, j \in 1 .. Len(db) : i < j => db[i].time < db[j].time
  /\ Len(db) <= settled + SecurityParameter

HighestInv == highest # None => Closed(highest)

\* What the first of a call's two queries answers.
FinalFirst(call, e) ==
  IF call = "params" THEN GetTokenUtxoForEpoch(e) ELSE LatestBlockForEpoch(e)

\* Requests that may use the caches, or must be final, are about closed epochs.
EpochInv(r) ==
  /\ r.call # "unavailable"
  /\ r.kind = "inherent" => r.closed
  /\ r.closed => Closed(r.epoch)
  /\ r.caching => Closed(r.epoch)

\* What such a request has read so far is final.
ReadInv(r) ==
  /\ r.call \in CachedCalls /\ r.pc = "seen" => r.first \in Nat /\ Closed(r.first)
  /\ r.call = "params" /\ r.pc = "second" => r.first \in Values \cup {None}
  /\ r.call = "candidates" /\ r.pc = "second" => r.first \in Nat
  /\ r.call \in CachedCalls /\ r.pc = "third" =>
       r.call = "candidates" /\ r.first \in Values \cup {None}
  /\ r.call \in CachedCalls /\ r.pc = "second" /\ (r.closed \/ r.caching) =>
       r.first = FinalFirst(r.call, r.epoch)
  /\ r.call \in CachedCalls /\ r.pc = "third" /\ (r.closed \/ r.caching) =>
       r.first = GetTokenUtxoForEpoch(r.epoch)
  /\ r.call \in CachedCalls /\ r.pc = "put" =>
       r.caching /\ r.answer = FinalAnswer(r.call, r.epoch, r.scripts)

AnswersInv(r) ==
  r.closed => \A call \in Calls :
                r.answers[call] \in {None, FinalAnswer(call, r.epoch, r.scripts)}

RequestInv(r) == EpochInv(r) /\ ReadInv(r) /\ AnswersInv(r)

Inv ==
  /\ TypeOK
  /\ DbInv
  /\ HighestInv
  /\ CachedAnswersAreFinal
  /\ \A c \in Clients : request[c] # None => RequestInv(request[c])

-----------------------------------------------------------------------------
(* Division, sequences, records.                                           *)

LEMMA Division ==
  ASSUME NEW n \in Nat \ {0}, NEW a \in Nat
  PROVE  a \div n \in Nat /\ n * (a \div n) <= a /\ a < n * (a \div n) + n
OBVIOUS

LEMMA TimesMonotone ==
  ASSUME NEW n \in Nat, NEW p \in Nat, NEW q \in Nat, p <= q
  PROVE  n * p <= n * q
OBVIOUS

\* Times no further apart than an epoch are in the same epoch or the next.
LEMMA NextEpoch ==
  ASSUME NEW n \in Nat \ {0}, NEW a \in Nat, NEW b \in Nat
  PROVE  /\ a <= b => a \div n <= b \div n
         /\ b <= a + n => b \div n <= a \div n + 1
<1>. DEFINE p == a \div n
            q == b \div n
<1>1. /\ p \in Nat /\ n * p <= a /\ a < n * p + n
      /\ q \in Nat /\ n * q <= b /\ b < n * q + n
  BY Division
<1>. HIDE DEF p, q
<1>2. ASSUME a <= b, ~(p <= q) PROVE FALSE
  <2>1. n * (q + 1) <= n * p
    BY <1>1, <1>2, TimesMonotone
  <2>2. n * (q + 1) = n * q + n
    BY <1>1
  <2>. QED
    BY <1>1, <1>2, <2>1, <2>2
<1>3. ASSUME b <= a + n, ~(q <= p + 1) PROVE FALSE
  <2>1. n * (p + 2) <= n * q
    BY <1>1, <1>3, TimesMonotone
  <2>2. n * (p + 2) = n * p + n + n
    BY <1>1
  <2>. QED
    BY <1>1, <1>3, <2>1, <2>2
<1>. QED
  BY <1>2, <1>3 DEF p, q

LEMMA FirstNumbers ==
  ASSUME NEW n \in Nat
  PROVE  IsFiniteSet(1 .. n) /\ Cardinality(1 .. n) = n
<1>1. CASE n = 0
  <2>1. 1 > n /\ n \in Int
    BY <1>1
  <2>. QED
    BY <1>1, <2>1, FS_Interval
<1>2. CASE n # 0
  <2>1. ~(1 > n) /\ n \in Int /\ n - 1 + 1 = n
    BY <1>2
  <2>. QED
    BY <2>1, FS_Interval
<1>. QED
  BY <1>1, <1>2

LEMMA SeqFacts ==
  ASSUME NEW S, NEW q \in Seq(S)
  PROVE  /\ Len(q) \in Nat
         /\ DOMAIN q = 1 .. Len(q)
         /\ \A i \in 1 .. Len(q) : q[i] \in S
         /\ q = <<>> <=> Len(q) = 0
OBVIOUS

LEMMA SeqAppend ==
  ASSUME NEW S, NEW q \in Seq(S), NEW e \in S
  PROVE  /\ Append(q, e) \in Seq(S)
         /\ Len(Append(q, e)) = Len(q) + 1
         /\ Append(q, e)[Len(q) + 1] = e
         /\ \A i \in 1 .. Len(q) : Append(q, e)[i] = q[i]
OBVIOUS

LEMMA SeqPrefix ==
  ASSUME NEW S, NEW q \in Seq(S), NEW len \in 0 .. Len(q)
  PROVE  /\ SubSeq(q, 1, len) \in Seq(S)
         /\ Len(SubSeq(q, 1, len)) = len
         /\ \A i \in 1 .. len : SubSeq(q, 1, len)[i] = q[i]
OBVIOUS

LEMMA SeqOfOne ==
  ASSUME NEW S
  PROVE  <<>> \in Seq(S) /\ \A x, y \in S : <<x>> \in Seq(S) /\ <<x, y>> \in Seq(S)
OBVIOUS

LEMMA SeqConcat ==
  ASSUME NEW S, NEW q \in Seq(S), NEW x \in S
  PROVE  <<x>> \o q \in Seq(S)
OBVIOUS

LEMMA RequestFields ==
  ASSUME NEW r \in Requests
  PROVE  /\ r.kind \in {"inherent", "rpc"} /\ r.epoch \in Nat /\ r.scripts \in Scripts
         /\ r.closed \in BOOLEAN /\ r.caching \in BOOLEAN
         /\ r.call \in Calls \cup {"done", "failed", "unavailable"}
         /\ r.pc \in {"check", "stable", "seen", "lookup", "first", "second", "third", "put"}
         /\ r.first \in Values \cup {None} \cup Nat
         /\ r.answer \in Answers \cup {None}
         /\ r.answers \in [Calls -> Answers \cup {None}]
BY DEF Requests

\* The facts about the blocks that the others use.
LEMMA DbFacts ==
  ASSUME TypeOK
  PROVE  /\ db \in Seq(Blocks) /\ Len(db) \in Nat /\ DOMAIN db = 1 .. Len(db)
         /\ settled \in 0 .. Len(db) /\ settled \in Nat
         /\ \A i \in 1 .. Len(db) : /\ db[i] \in Blocks
                                    /\ db[i].time \in Nat /\ db[i].data \in Values \cup {None}
                                    /\ EpochOf(db[i]) \in Nat
         /\ db = <<>> <=> Len(db) = 0
<1>1. db \in Seq(Blocks) /\ settled \in 0 .. Len(db)
  BY DEF TypeOK
<1>2. /\ Len(db) \in Nat /\ DOMAIN db = 1 .. Len(db)
      /\ db = <<>> <=> Len(db) = 0
      /\ \A i \in 1 .. Len(db) : db[i] \in Blocks
  BY <1>1, SeqFacts
<1>3. \A b \in Blocks : b.time \in Nat /\ b.data \in Values \cup {None}
  BY ConstantsAssumption DEF Blocks
<1>4. \A b \in Blocks : EpochOf(b) \in Nat
  BY <1>3, ConstantsAssumption, Division DEF EpochOf
<1>. QED
  BY <1>1, <1>2, <1>3, <1>4

-----------------------------------------------------------------------------
(* Closed epochs.                                                          *)

\* Nothing from a block of a later epoch on is of the epoch.
LEMMA UpTo ==
  ASSUME NEW q \in Seq(Blocks), \A i, j \in 1 .. Len(q) : i < j => q[i].time < q[j].time,
         NEW e \in Int, NEW last \in 1 .. Len(q), EpochOf(q[last]) > e
  PROVE  /\ {i \in DOMAIN q : EpochOf(q[i]) <= e} = {i \in 1 .. last - 1 : EpochOf(q[i]) <= e}
         /\ Cardinality({i \in DOMAIN q : EpochOf(q[i]) <= e}) \in 0 .. last - 1
<1>. DEFINE S == {i \in DOMAIN q : EpochOf(q[i]) <= e}
<1>1. /\ Len(q) \in Nat /\ DOMAIN q = 1 .. Len(q) /\ last \in Nat
      /\ \A i \in 1 .. Len(q) : q[i] \in Blocks
  BY SeqFacts
<1>2. \A i \in 1 .. Len(q) : q[i].time \in Nat
  BY <1>1, ConstantsAssumption DEF Blocks
<1>3. \A i \in S : i \in 1 .. last - 1
  <2>. SUFFICES ASSUME NEW i \in S, i >= last PROVE FALSE
    BY <1>1
  <2>1. q[last].time <= q[i].time
    BY <1>1, <1>2
  <2>2. EpochOf(q[last]) <= EpochOf(q[i])
    BY <1>1, <1>2, <2>1, ConstantsAssumption, NextEpoch DEF EpochOf
  <2>3. EpochOf(q[last]) \in Nat /\ EpochOf(q[i]) \in Nat /\ EpochOf(q[i]) <= e
    BY <1>1, <1>2, ConstantsAssumption, Division DEF EpochOf
  <2>. QED
    BY <2>2, <2>3
<1>4. S = {i \in 1 .. last - 1 : EpochOf(q[i]) <= e}
  BY <1>1, <1>3
<1>5. S \in SUBSET (1 .. last - 1)
  BY <1>3
<1>6. IsFiniteSet(1 .. last - 1) /\ Cardinality(1 .. last - 1) = last - 1
  <2>1. last - 1 \in Nat
    BY <1>1
  <2>. QED
    BY <2>1, FirstNumbers
<1>7. IsFiniteSet(S) /\ Cardinality(S) <= last - 1
  BY <1>5, <1>6, FS_Subset
<1>8. Cardinality(S) \in Nat
  BY <1>7, FS_CardinalityType
<1>. QED
  BY <1>1, <1>4, <1>7, <1>8

\* A block number is one, and outputs are values, in any epoch.
LEMMA QueryTypes ==
  ASSUME TypeOK, NEW e \in Int
  PROVE  /\ LatestBlockForEpoch(e) \in Nat
         /\ \A i \in Nat : GetUtxosForAddress(i) \in Values \cup {None}
         /\ GetTokenUtxoForEpoch(e) \in Values \cup {None}
         /\ GetEpochNonce(e) \in Seq(Values \cup {None})
         /\ GetStakeDistribution(e) \in Seq(Values \cup {None})
<1>1. \A x \in Int : LatestBlockForEpoch(x) \in Nat
  <2>. SUFFICES ASSUME NEW x \in Int PROVE LatestBlockForEpoch(x) \in Nat
    OBVIOUS
  <2>. DEFINE S == {i \in DOMAIN db : EpochOf(db[i]) <= x}
  <2>1. S \in SUBSET (1 .. Len(db)) /\ Len(db) \in Nat
    BY DbFacts
  <2>2. IsFiniteSet(S)
    BY <2>1, FS_Interval, FS_Subset
  <2>. QED
    BY <2>2, FS_CardinalityType DEF LatestBlockForEpoch
<1>2. \A i \in Nat : GetUtxosForAddress(i) \in Values \cup {None}
  BY DbFacts DEF GetUtxosForAddress
<1>3. GetTokenUtxoForEpoch(e) \in Values \cup {None}
  BY <1>1, <1>2 DEF GetTokenUtxoForEpoch
<1>4. GetUtxosForAddress(LatestBlockForEpoch(e - 1)) \in Values \cup {None}
  BY <1>1, <1>2
<1>5. /\ GetEpochNonce(e) \in Seq(Values \cup {None})
      /\ GetStakeDistribution(e) \in Seq(Values \cup {None})
  <2>1. <<GetUtxosForAddress(LatestBlockForEpoch(e - 1))>> \in Seq(Values \cup {None})
    BY <1>4, SeqOfOne
  <2>. QED
    BY <2>1, SeqOfOne, Zenon DEF GetEpochNonce, GetStakeDistribution
<1>. QED
  BY <1>1, <1>2, <1>3, <1>5

LEMMA FinalTypes ==
  ASSUME TypeOK, NEW call, NEW e \in Int, NEW scripts \in Scripts
  PROVE  FinalAnswer(call, e, scripts) \in Answers
<1>. DEFINE t == GetTokenUtxoForEpoch(e)
            d == GetStakeDistribution(e)
<1>1. /\ t \in Values \cup {None}
      /\ GetEpochNonce(e) \in Seq(Values \cup {None})
      /\ d \in Seq(Values \cup {None})
  BY QueryTypes
<1>. HIDE DEF t, d
<1>2. <<t, t>> \in Seq(Values \cup {None}) /\ <<t>> \o d \in Seq(Values \cup {None})
  BY <1>1, SeqOfOne, SeqConcat
<1>. QED
  BY <1>1, <1>2 DEF FinalAnswer, Answers, t, d

\* What the environment may do to the database.
Moves ==
  /\ db' \in Seq(Blocks)
  /\ settled' \in 0 .. Len(db') /\ settled' >= settled
  /\ \A i \in 1 .. settled : db'[i] = db[i]
  /\ TypeOK /\ DbInv /\ TypeOK' /\ DbInv'

\* Answers about a closed epoch do not change, and it stays closed.
LEMMA ClosedStays ==
  ASSUME Moves, NEW e \in Int, Closed(e)
  PROVE  /\ Closed(e)'
         /\ LatestBlockForEpoch(e)' = LatestBlockForEpoch(e)
         /\ GetTokenUtxoForEpoch(e)' = GetTokenUtxoForEpoch(e)
<1>1. PICK last \in 1 .. settled : EpochOf(db[last]) > e
  BY DEF Closed
<1>2. /\ db'[last] = db[last] /\ last \in 1 .. settled'
      /\ settled \in Nat /\ settled' \in Nat /\ Len(db) \in Nat /\ Len(db') \in Nat
      /\ settled <= Len(db) /\ settled <= Len(db')
      /\ \A i \in 1 .. settled : db'[i] = db[i]
  <2>1. settled \in 0 .. Len(db) /\ settled' \in 0 .. Len(db') /\ settled' >= settled
        /\ Len(db) \in Nat /\ Len(db') \in Nat
    BY DbFacts, SeqFacts DEF Moves
  <2>. QED
    BY <2>1 DEF Moves
<1>3. EpochOf(db'[last]) > e
  BY <1>1, <1>2 DEF EpochOf
<1>4. Closed(e)'
  BY <1>2, <1>3 DEF Closed
<1>5. /\ {i \in DOMAIN db : EpochOf(db[i]) <= e} = {i \in 1 .. last - 1 : EpochOf(db[i]) <= e}
      /\ LatestBlockForEpoch(e) \in 0 .. last - 1
  <2>1. db \in Seq(Blocks) /\ \A i, j \in 1 .. Len(db) : i < j => db[i].time < db[j].time
    BY DEF Moves, TypeOK, DbInv
  <2>2. last \in 1 .. Len(db)
    BY <1>2
  <2>. QED
    BY <1>1, <2>1, <2>2, UpTo DEF LatestBlockForEpoch
<1>6. {i \in DOMAIN db' : EpochOf(db'[i]) <= e} = {i \in 1 .. last - 1 : EpochOf(db'[i]) <= e}
  <2>1. db' \in Seq(Blocks) /\ \A i, j \in 1 .. Len(db') : i < j => db'[i].time < db'[j].time
    BY DEF Moves, DbInv
  <2>2. last \in 1 .. Len(db')
    BY <1>2
  <2>. QED
    BY <1>3, <2>1, <2>2, UpTo
<1>7. \A i \in 1 .. last - 1 : db'[i] = db[i]
  BY <1>2
<1>8. LatestBlockForEpoch(e)' = LatestBlockForEpoch(e)
  <2>1. {i \in 1 .. last - 1 : EpochOf(db'[i]) <= e} = {i \in 1 .. last - 1 : EpochOf(db[i]) <= e}
    BY <1>7
  <2>. QED
    BY <1>5, <1>6, <2>1 DEF LatestBlockForEpoch
<1>9. \A i \in 0 .. last - 1 : GetUtxosForAddress(i)' = GetUtxosForAddress(i)
  <2>. SUFFICES ASSUME NEW i \in 0 .. last - 1
                PROVE  GetUtxosForAddress(i)' = GetUtxosForAddress(i)
    OBVIOUS
  <2>1. i = 0 \/ (i \in 1 .. Len(db) /\ i \in 1 .. Len(db') /\ db'[i] = db[i])
    BY <1>2, <1>7
  <2>2. Len(db) > 0 /\ Len(db') > 0 /\ db # <<>> /\ db' # <<>>
    BY <1>2, SeqFacts DEF Moves, TypeOK
  <2>. QED
    BY <2>1, <2>2 DEF GetUtxosForAddress
<1>10. GetTokenUtxoForEpoch(e)' = GetTokenUtxoForEpoch(e)
  <2>. DEFINE b == LatestBlockForEpoch(e)
  <2>1. b \in 0 .. last - 1 /\ b' = b
    BY <1>5, <1>8
  <2>2. GetUtxosForAddress(b)' = IF b' = 0 \/ db' = <<>> THEN None
             ELSE IF b' <= Len(db') THEN (db'[b']).data ELSE (db'[Len(db')]).data
    BY DEF GetUtxosForAddress
  <2>. HIDE DEF b
  <2>. QED
    BY <1>9, <2>1, <2>2 DEF GetTokenUtxoForEpoch, GetUtxosForAddress, b
<1>. QED
  BY <1>4, <1>8, <1>10

LEMMA FinalStays ==
  ASSUME Moves, NEW e \in Nat, Closed(e), NEW call, NEW scripts
  PROVE  /\ FinalAnswer(call, e, scripts)' = FinalAnswer(call, e, scripts)
         /\ FinalFirst(call, e)' = FinalFirst(call, e)
<1>1. /\ Closed(e)'
      /\ LatestBlockForEpoch(e)' = LatestBlockForEpoch(e)
      /\ GetTokenUtxoForEpoch(e)' = GetTokenUtxoForEpoch(e)
  BY ClosedStays
<1>2. GetTokenUtxoForEpoch(e - 1)' = GetTokenUtxoForEpoch(e - 1)
  <2>1. e - 1 \in Int
    OBVIOUS
  <2>2. Closed(e - 1)
    <3>1. \A i \in 1 .. settled : EpochOf(db[i]) \in Nat
      BY DbFacts DEF Moves
    <3>. QED
      BY <3>1 DEF Closed
  <2>. QED
    BY <2>1, <2>2, ClosedStays
<1>3. GetEpochNonce(e)' = GetEpochNonce(e)
  <2>1. \E i \in DOMAIN db : EpochOf(db[i]) >= e
    <3>1. PICK i \in 1 .. settled : EpochOf(db[i]) > e
      BY DEF Closed
    <3>2. i \in DOMAIN db /\ EpochOf(db[i]) \in Nat
      BY DbFacts DEF Moves
    <3>. QED
      BY <3>1, <3>2
  <2>2. \E i \in DOMAIN db' : EpochOf(db'[i]) >= e
    <3>1. PICK i \in 1 .. settled' : EpochOf(db'[i]) > e
      BY <1>1 DEF Closed
    <3>2. db' \in Seq(Blocks) /\ settled' \in 0 .. Len(db')
      BY DEF Moves
    <3>3. i \in DOMAIN db' /\ db'[i] \in Blocks
      BY <3>2, SeqFacts
    <3>4. EpochOf(db'[i]) \in Nat
      BY <3>3, ConstantsAssumption, Division DEF Blocks, EpochOf
    <3>. QED
      BY <3>1, <3>3, <3>4
  <2>3. GetEpochNonce(e) = <<GetTokenUtxoForEpoch(e - 1)>>
    BY <2>1, Zenon DEF GetEpochNonce, GetTokenUtxoForEpoch
  <2>4. GetEpochNonce(e)' = <<GetTokenUtxoForEpoch(e - 1)'>>
    BY <2>2, Zenon DEF GetEpochNonce, GetTokenUtxoForEpoch
  <2>. QED
    BY <1>2, <2>3, <2>4
<1>4. GetStakeDistribution(e)' = GetStakeDistribution(e)
  <2>1. PICK i \in 1 .. settled : EpochOf(db[i]) > e
    BY DEF Closed
  <2>2. i \in DOMAIN db /\ i \in DOMAIN db' /\ db'[i] = db[i] /\ EpochOf(db[i]) \in Nat
    <3>1. /\ settled \in 0 .. Len(db) /\ DOMAIN db = 1 .. Len(db) /\ Len(db) \in Nat
          /\ EpochOf(db[i]) \in Nat
      BY DbFacts DEF Moves
    <3>2. /\ settled' \in 0 .. Len(db') /\ settled' >= settled
          /\ DOMAIN db' = 1 .. Len(db') /\ Len(db') \in Nat
      BY SeqFacts DEF Moves
    <3>. QED
      BY <3>1, <3>2 DEF Moves
  <2>3. EpochOf(db[i]) >= e - 1 /\ EpochOf(db'[i]) >= e - 1
    BY <2>1, <2>2
  <2>4. GetStakeDistribution(e) = <<GetTokenUtxoForEpoch(e - 1)>>
    BY <2>2, <2>3, Zenon DEF GetStakeDistribution, GetTokenUtxoForEpoch
  <2>5. GetStakeDistribution(e)' = <<GetTokenUtxoForEpoch(e - 1)'>>
    BY <2>2, <2>3, Zenon DEF GetStakeDistribution, GetTokenUtxoForEpoch
  <2>. QED
    BY <1>2, <2>4, <2>5
<1>. QED
  BY <1>1, <1>3, <1>4 DEF FinalAnswer, FinalFirst

\* What is true of a request stays true as the database moves.
LEMMA RequestStays ==
  ASSUME Moves, NEW r \in Requests, RequestInv(r)
  PROVE  RequestInv(r)'
<1>1. r.epoch \in Nat
  BY RequestFields
<1>2. EpochInv(r)'
  BY <1>1, ClosedStays DEF RequestInv, EpochInv
<1>3. ReadInv(r)'
  <2>1. r.closed \/ r.caching =>
          /\ FinalFirst(r.call, r.epoch)' = FinalFirst(r.call, r.epoch)
          /\ FinalAnswer(r.call, r.epoch, r.scripts)' = FinalAnswer(r.call, r.epoch, r.scripts)
    BY <1>1, FinalStays DEF RequestInv, EpochInv
  <2>2. r.closed \/ r.caching => GetTokenUtxoForEpoch(r.epoch)' = GetTokenUtxoForEpoch(r.epoch)
    BY <1>1, ClosedStays DEF RequestInv, EpochInv
  <2>3. r.first \in Nat /\ Closed(r.first) => Closed(r.first)'
    BY ClosedStays
  <2>. QED
    BY <2>1, <2>2, <2>3, Zenon DEF RequestInv, ReadInv
<1>4. AnswersInv(r)'
  <2>. SUFFICES ASSUME r.closed, NEW call \in Calls
                PROVE  r.answers[call] \in {None, FinalAnswer(call, r.epoch, r.scripts)'}
    BY DEF AnswersInv
  <2>1. FinalAnswer(call, r.epoch, r.scripts)' = FinalAnswer(call, r.epoch, r.scripts)
    BY <1>1, FinalStays DEF RequestInv, EpochInv
  <2>. QED
    BY <2>1 DEF RequestInv, AnswersInv
<1>. QED
  BY <1>2, <1>3, <1>4 DEF RequestInv

\* The database moves, and nothing else.
LEMMA MovesInv ==
  ASSUME Inv, Moves, UNCHANGED <<highest, cache, request, served>>
  PROVE  Inv'
<1>1. HighestInv'
  BY ClosedStays DEF Inv, HighestInv, TypeOK
<1>2. CachedAnswersAreFinal'
  <2>. SUFFICES ASSUME NEW call \in CachedCalls, NEW x \in cache[call]
                PROVE  Closed(x.epoch)' /\ x.answer = FinalAnswer(call, x.epoch, x.scripts)'
    BY DEF CachedAnswersAreFinal
  <2>1. Closed(x.epoch) /\ x.answer = FinalAnswer(call, x.epoch, x.scripts)
    BY DEF Inv, CachedAnswersAreFinal
  <2>2. x.epoch \in Nat
    BY DEF Inv, TypeOK, Entries
  <2>3. Closed(x.epoch)'
    BY <2>1, <2>2, ClosedStays
  <2>4. FinalAnswer(call, x.epoch, x.scripts)' = FinalAnswer(call, x.epoch, x.scripts)
    BY <2>1, <2>2, FinalStays
  <2>. QED
    BY <2>1, <2>3, <2>4
<1>3. ASSUME NEW c \in Clients, request'[c] # None PROVE RequestInv(request[c])'
  <2>1. request[c] \in Requests /\ RequestInv(request[c]) /\ request' = request
    BY <1>3 DEF Inv, TypeOK
  <2>2. PICK r \in Requests : r = request[c]
    BY <2>1
  <2>3. RequestInv(r)'
    BY <2>1, <2>2, RequestStays
  <2>. QED
    BY <2>1, <2>2, <2>3
<1>. QED
  BY <1>1, <1>2, <1>3 DEF Inv, Moves

LEMMA MainChainBlockInv == Inv /\ MainChainBlock => Inv'
<1>. SUFFICES ASSUME Inv, MainChainBlock PROVE Inv'
  OBVIOUS
<1>. DEFINE len == Len(db)
<1>1. PICK block \in Blocks : /\ db # <<>> => db[Len(db)].time < block.time
                              /\ db' = Append(db, block)
  BY DEF MainChainBlock
<1>2. /\ db \in Seq(Blocks) /\ len \in Nat /\ settled \in Nat /\ settled <= len
      /\ len <= settled + SecurityParameter /\ SecurityParameter \in Nat
      /\ SecurityParameter > 0
      /\ \A i \in 1 .. len : db[i].time \in Nat
      /\ db = <<>> <=> len = 0
      /\ block.time \in Nat
  <2>1. TypeOK /\ len <= settled + SecurityParameter
    BY DEF Inv, DbInv
  <2>2. block.time \in Nat
    BY ConstantsAssumption DEF Blocks
  <2>. QED
    BY <2>1, <2>2, DbFacts, ConstantsAssumption
<1>3. /\ db' \in Seq(Blocks) /\ Len(db') = len + 1
      /\ db'[len + 1] = block /\ \A i \in 1 .. len : db'[i] = db[i]
  BY <1>1, <1>2, SeqAppend
<1>4. settled' = IF len + 1 - SecurityParameter > settled
                 THEN len + 1 - SecurityParameter ELSE settled
  <2>1. settled' = IF Len(db') - SecurityParameter > settled
                   THEN Len(db') - SecurityParameter ELSE settled
    BY DEF MainChainBlock
  <2>2. Len(db') = len + 1
    BY <1>3
  <2>. HIDE DEF len
  <2>. QED
    BY <1>2, <2>1, <2>2
<1>5. settled' \in 0 .. Len(db') /\ settled' >= settled /\ Len(db') <= settled' + SecurityParameter
  <2>. HIDE DEF len
  <2>. QED
    BY <1>2, <1>3, <1>4
<1>6. \A i, j \in 1 .. Len(db') : i < j => db'[i].time < db'[j].time
  <2>. SUFFICES ASSUME NEW i \in 1 .. len + 1, NEW j \in 1 .. len + 1, i < j
                PROVE  db'[i].time < db'[j].time
    BY <1>3
  <2>1. i \in 1 .. len
    BY <1>2
  <2>2. CASE j \in 1 .. len
    BY <1>3, <2>1, <2>2 DEF Inv, DbInv
  <2>3. CASE j = len + 1
    <3>1. db[i].time <= db[len].time
      BY <1>2, <2>1 DEF Inv, DbInv
    <3>2. db[len].time < block.time /\ db[len].time \in Nat /\ db[i].time \in Nat
      BY <1>1, <1>2, <2>1
    <3>3. db'[i].time = db[i].time /\ db'[j].time = block.time
      BY <1>3, <2>1, <2>3
    <3>. QED
      BY <1>2, <3>1, <3>2, <3>3
  <2>4. len \in Nat
    BY <1>2
  <2>. HIDE DEF len
  <2>. QED
    BY <2>2, <2>3, <2>4
<1>7. UNCHANGED <<highest, cache, request, served>>
  BY DEF MainChainBlock
<1>8. Moves
  <2>1. TypeOK'
    BY <1>3, <1>5, <1>7 DEF Inv, TypeOK
  <2>2. DbInv'
    BY <1>5, <1>6 DEF DbInv
  <2>3. \A i \in 1 .. settled : db'[i] = db[i]
    BY <1>2, <1>3
  <2>. QED
    BY <1>3, <1>5, <2>1, <2>2, <2>3 DEF Moves, Inv
<1>. QED
  BY <1>7, <1>8, MovesInv

LEMMA DbRollbackInv == Inv /\ DbRollback => Inv'
<1>. SUFFICES ASSUME Inv, DbRollback PROVE Inv'
  OBVIOUS
<1>1. PICK left \in settled .. Len(db) - 1 : db' = SubSeq(db, 1, left)
  BY DEF DbRollback
<1>2. UNCHANGED <<settled, highest, cache, request, served>>
  BY DEF DbRollback
<1>3. /\ db \in Seq(Blocks) /\ Len(db) \in Nat /\ settled \in Nat
      /\ Len(db) <= settled + SecurityParameter /\ SecurityParameter \in Nat
  BY DbFacts, ConstantsAssumption DEF Inv, DbInv
<1>4. left \in 0 .. Len(db) /\ left >= settled
  BY <1>1, <1>3
<1>5. db' \in Seq(Blocks) /\ Len(db') = left /\ \A i \in 1 .. left : db'[i] = db[i]
  BY <1>1, <1>3, <1>4, SeqPrefix
<1>6. Moves
  <2>1. settled' \in 0 .. Len(db') /\ settled' >= settled
    BY <1>2, <1>3, <1>4, <1>5
  <2>2. TypeOK'
    BY <1>2, <1>5, <2>1 DEF Inv, TypeOK
  <2>3. Len(db') <= settled' + SecurityParameter
    BY <1>2, <1>3, <1>4, <1>5
  <2>4. \A i, j \in 1 .. Len(db') : i < j => db'[i].time < db'[j].time
    <3>1. \A i \in 1 .. left : i \in 1 .. Len(db)
      BY <1>3, <1>4
    <3>. QED
      BY <1>5, <3>1 DEF Inv, DbInv
  <2>5. \A i \in 1 .. settled : db'[i] = db[i]
    BY <1>3, <1>4, <1>5
  <2>. QED
    BY <1>5, <2>1, <2>2, <2>3, <2>4, <2>5 DEF Moves, Inv, DbInv
<1>. QED
  BY <1>2, <1>6, MovesInv

-----------------------------------------------------------------------------
(* Requests.                                                               *)

LEMMA SameDb ==
  ASSUME UNCHANGED <<db, settled>>, NEW r, NEW e, NEW call, NEW scripts
  PROVE  /\ RequestInv(r)' <=> RequestInv(r)
         /\ Closed(e)' <=> Closed(e)
         /\ FinalAnswer(call, e, scripts)' = FinalAnswer(call, e, scripts)
<1>1. /\ \A x : Closed(x)' <=> Closed(x)
      /\ \A x : LatestBlockForEpoch(x)' = LatestBlockForEpoch(x)
      /\ \A x : GetUtxosForAddress(x)' = GetUtxosForAddress(x)
  BY DEF Closed, LatestBlockForEpoch, GetUtxosForAddress
<1>2. \A x : GetTokenUtxoForEpoch(x)' = GetTokenUtxoForEpoch(x)
  BY DEF GetTokenUtxoForEpoch, LatestBlockForEpoch, GetUtxosForAddress
<1>3. /\ \A x : GetEpochNonce(x)' = GetEpochNonce(x)
      /\ \A x : GetStakeDistribution(x)' = GetStakeDistribution(x)
  BY DEF GetEpochNonce, GetStakeDistribution, LatestBlockForEpoch, GetUtxosForAddress
<1>4. /\ \A x, y, z : FinalAnswer(x, y, z)' = FinalAnswer(x, y, z)
      /\ \A x, y : FinalFirst(x, y)' = FinalFirst(x, y)
  BY <1>1, <1>2, <1>3 DEF FinalAnswer, FinalFirst
<1>. QED
  BY <1>1, <1>2, <1>4, Zenon DEF RequestInv, EpochInv, ReadInv, AnswersInv

\* A client's request becomes r, and a cache may have changed.
LEMMA ClientStep ==
  ASSUME Inv, UNCHANGED <<db, settled>>, NEW c \in Clients,
         NEW r \in Requests, RequestInv(r), request' = [request EXCEPT ![c] = r],
         served' \in Nat,
         highest' \in Nat \cup {None}, highest' # None => Closed(highest'),
         cache' \in [CachedCalls -> SUBSET Entries],
         \A call \in CachedCalls : \A x \in cache'[call] :
           Closed(x.epoch) /\ x.answer = FinalAnswer(call, x.epoch, x.scripts)
  PROVE  Inv'
<1>1. TypeOK'
  BY DEF Inv, TypeOK
<1>2. DbInv'
  BY DEF Inv, DbInv
<1>3. HighestInv'
  BY DEF HighestInv, Closed
<1>4. CachedAnswersAreFinal'
  <2>. SUFFICES ASSUME NEW call \in CachedCalls, NEW x \in cache'[call]
                PROVE  Closed(x.epoch)' /\ x.answer = FinalAnswer(call, x.epoch, x.scripts)'
    BY DEF CachedAnswersAreFinal
  <2>1. Closed(x.epoch) /\ x.answer = FinalAnswer(call, x.epoch, x.scripts)
    OBVIOUS
  <2>. QED
    BY <2>1, SameDb
<1>5. ASSUME NEW d \in Clients, request'[d] # None PROVE RequestInv(request[d])'
  <2>1. PICK q : q = request'[d]
    OBVIOUS
  <2>2. RequestInv(q)
    BY <1>5, <2>1 DEF Inv, TypeOK
  <2>3. RequestInv(q)'
    BY <2>2, SameDb
  <2>. QED
    BY <2>1, <2>3
<1>. QED
  BY <1>1, <1>2, <1>3, <1>4, <1>5 DEF Inv

\* The main chain epoch a committee is selected for is no later than the one
\* after the reference's.
LEMMA InherentEpoch ==
  ASSUME NEW slot \in Nat, NEW next \in 1 .. slot \div ScEpochDuration + 2,
         NEW time \in Nat, slot - 3 * MinSlotBoundary <= time
  PROVE  ForMcEpoch(slot, next) \in Nat /\ ForMcEpoch(slot, next) <= time \div McEpochDuration + 1
<1>. DEFINE S == ScEpochDuration
            M == McEpochDuration
            sc == slot \div S
            for == IF next = 1 THEN sc ELSE next
<1>1. S \in Nat \ {0} /\ M \in Nat \ {0} /\ MinSlotBoundary \in Nat
      /\ 2 * S + 3 * MinSlotBoundary <= M
  BY ConstantsAssumption
<1>2. sc \in Nat /\ S * sc <= slot
  BY <1>1, Division
<1>3. next \in 1 .. sc + 2
  OBVIOUS
<1>. HIDE DEF S, M, sc
<1>4. for \in Nat /\ for <= sc + 2
  BY <1>2, <1>3
<1>. HIDE DEF for
<1>5. S * for <= S * (sc + 2)
  BY <1>1, <1>2, <1>4, TimesMonotone
<1>6. S * (sc + 2) = S * sc + 2 * S
  BY <1>1, <1>2
<1>7. for * S = S * for /\ S * for \in Nat /\ S * sc \in Nat
  BY <1>1, <1>2, <1>4
<1>8. for * S \in Nat /\ for * S <= time + M
  <2>. DEFINE a == S * for
              b == S * sc
  <2>1. a \in Nat /\ b \in Nat /\ a <= b + 2 * S /\ b <= slot
    BY <1>2, <1>5, <1>6, <1>7
  <2>. HIDE DEF a, b
  <2>2. a <= time + M
    BY <1>1, <2>1
  <2>. QED
    BY <1>7, <2>1, <2>2 DEF a
<1>9. (for * S) \div M \in Nat /\ (for * S) \div M <= time \div M + 1
  BY <1>1, <1>8, NextEpoch, Division
<1>. QED
  BY <1>9 DEF ForMcEpoch, for, S, M, sc

LEMMA NewRequestInv ==
  ASSUME NEW kind \in {"inherent", "rpc"}, NEW call \in CachedCalls, NEW e \in Nat,
         NEW scripts \in Scripts, kind = "inherent" => Closed(e)
  PROVE  /\ NewRequest(kind, call, e, scripts) \in Requests
         /\ RequestInv(NewRequest(kind, call, e, scripts))
<1>1. Closed(e) \in BOOLEAN
  BY DEF Closed
<1>2. NewRequest(kind, call, e, scripts) \in Requests
  BY <1>1 DEF NewRequest, Requests, Calls
<1>3. EpochInv(NewRequest(kind, call, e, scripts))
  BY DEF NewRequest, EpochInv, CachedCalls
<1>4. ReadInv(NewRequest(kind, call, e, scripts))
  BY DEF NewRequest, ReadInv
<1>5. AnswersInv(NewRequest(kind, call, e, scripts))
  BY DEF NewRequest, AnswersInv
<1>. QED
  BY <1>2, <1>3, <1>4, <1>5 DEF RequestInv

\* A call of a request is answered, with a final answer where that matters.
LEMMA AnsweredInv ==
  ASSUME NEW r \in Requests, RequestInv(r), r.call \in Calls, NEW a \in Answers,
         r.closed => a = FinalAnswer(r.call, r.epoch, r.scripts)
  PROVE  Answered(r, a) \in Requests /\ RequestInv(Answered(r, a))
<1>. DEFINE q == Answered(r, a)
<1>0. r.answers \in [Calls -> Answers \cup {None}]
  BY RequestFields
<1>1. /\ q.kind = r.kind /\ q.epoch = r.epoch /\ q.scripts = r.scripts /\ q.closed = r.closed
      /\ q.call \in {"candidates", "nonce", "done"} /\ q.pc = "check" /\ q.caching = FALSE
      /\ q.first = None /\ q.answer = None
      /\ q.answers = [r.answers EXCEPT ![r.call] = a]
  BY DEF Answered, Requests
<1>2. q \in Requests
  <2>. DEFINE n == [r.answers EXCEPT ![r.call] = a]
              d == IF r.call = "params" THEN "candidates"
                   ELSE IF r.call = "candidates" /\ r.kind = "inherent" THEN "nonce"
                   ELSE "done"
  <2>1. n \in [Calls -> Answers \cup {None}]
    BY <1>0
  <2>2. d \in Calls \cup {"done", "failed", "unavailable"}
    BY DEF Calls, CachedCalls
  <2>3. q = [r EXCEPT !.answers = n, !.call = d, !.pc = "check", !.caching = FALSE,
                      !.first = None, !.answer = None]
    BY DEF Answered
  <2>. HIDE DEF n, d, q
  <2>. QED
    BY <2>1, <2>2, <2>3 DEF Requests
<1>. HIDE DEF q
<1>3. EpochInv(q)
  BY <1>1 DEF EpochInv, RequestInv
<1>4. ReadInv(q)
  BY <1>1 DEF ReadInv
<1>5. AnswersInv(q)
  BY <1>0, <1>1 DEF AnswersInv, RequestInv
<1>. QED
  BY <1>2, <1>3, <1>4, <1>5 DEF RequestInv, q

\* ClientStep, for the steps that leave the caches alone.
LEMMA OnlyRequest ==
  ASSUME Inv, UNCHANGED <<db, settled, highest, cache>>, served' \in Nat,
         NEW c \in Clients, NEW r \in Requests, RequestInv(r),
         request' = [request EXCEPT ![c] = r]
  PROVE  Inv'
<1>1. /\ highest' \in Nat \cup {None}
      /\ highest' # None => Closed(highest')
      /\ cache' \in [CachedCalls -> SUBSET Entries]
  BY DEF Inv, TypeOK, HighestInv
<1>2. \A call \in CachedCalls : \A x \in cache'[call] :
        Closed(x.epoch) /\ x.answer = FinalAnswer(call, x.epoch, x.scripts)
  BY DEF Inv, CachedAnswersAreFinal
<1>3. UNCHANGED <<db, settled>>
  OBVIOUS
<1>. QED
  BY <1>1, <1>2, <1>3, ClientStep

LEMMA NewInherentInv ==
  ASSUME Inv, NEW c \in Clients, NewInherent(c)
  PROVE  Inv'
<1>1. PICK slot \in 0 .. MaxSlot, ref \in 1 .. settled, scripts \in Scripts :
        \E next \in 1 .. slot \div ScEpochDuration + 2 :
          LET epoch == DataEpoch(ForMcEpoch(slot, next))
              new   == NewRequest("inherent", "params", epoch, scripts)
          IN  /\ slot - 3 * MinSlotBoundary <= db[ref].time
              /\ db[ref].time <= slot - MinSlotBoundary
              /\ epoch >= 0
              /\ request' = [request EXCEPT ![c] =
                   IF epoch < EpochOf(db[ref]) THEN new
                   ELSE [new EXCEPT !.call = "unavailable"]]
  BY DEF NewInherent
<1>2. PICK next \in 1 .. slot \div ScEpochDuration + 2 :
          /\ slot - 3 * MinSlotBoundary <= db[ref].time
          /\ DataEpoch(ForMcEpoch(slot, next)) >= 0
          /\ request' = [request EXCEPT ![c] =
               IF DataEpoch(ForMcEpoch(slot, next)) < EpochOf(db[ref])
               THEN NewRequest("inherent", "params", DataEpoch(ForMcEpoch(slot, next)), scripts)
               ELSE [NewRequest("inherent", "params", DataEpoch(ForMcEpoch(slot, next)), scripts)
                       EXCEPT !.call = "unavailable"]]
  BY <1>1
<1>. DEFINE e == DataEpoch(ForMcEpoch(slot, next))
<1>3. PICK time \in Nat : time = db[ref].time /\ EpochOf(db[ref]) = time \div McEpochDuration
  <2>1. db[ref].time \in Nat
    BY DbFacts DEF Inv
  <2>. QED
    BY <2>1 DEF EpochOf
<1>4. slot \in Nat
  BY ConstantsAssumption
<1>5. ForMcEpoch(slot, next) \in Nat /\ ForMcEpoch(slot, next) <= time \div McEpochDuration + 1
  BY <1>2, <1>3, <1>4, InherentEpoch
<1>6. e \in Nat /\ e < EpochOf(db[ref]) /\ EpochOf(db[ref]) \in Nat
  <2>1. time \div McEpochDuration \in Nat
    BY ConstantsAssumption, Division
  <2>. QED
    BY <1>2, <1>3, <1>5, <2>1 DEF DataEpoch
<1>7. Closed(e)
  BY <1>6 DEF Closed
<1>8. request' = [request EXCEPT ![c] = NewRequest("inherent", "params", e, scripts)]
  BY <1>2, <1>6
<1>. HIDE DEF e
<1>9. PICK r \in Requests : r = NewRequest("inherent", "params", e, scripts) /\ RequestInv(r)
  BY <1>6, <1>7, NewRequestInv DEF CachedCalls
<1>10. request' = [request EXCEPT ![c] = r]
  BY <1>8, <1>9
<1>11. UNCHANGED <<db, settled, highest, cache>> /\ served' \in Nat
  BY DEF NewInherent, Inv, TypeOK
<1>. QED
  BY <1>9, <1>10, <1>11, OnlyRequest

LEMMA NewRpcInv ==
  ASSUME Inv, NEW c \in Clients, NewRpc(c)
  PROVE  Inv'
<1>1. PICK call \in CachedCalls, e \in 0 .. MaxSlot \div McEpochDuration, scripts \in Scripts :
        request' = [request EXCEPT ![c] = NewRequest("rpc", call, e, scripts)]
  BY DEF NewRpc
<1>2. e \in Nat
  BY ConstantsAssumption, Division
<1>3. PICK r \in Requests : r = NewRequest("rpc", call, e, scripts) /\ RequestInv(r)
  BY <1>2, NewRequestInv
<1>4. request' = [request EXCEPT ![c] = r]
  BY <1>1, <1>3
<1>5. UNCHANGED <<db, settled, highest, cache>> /\ served' \in Nat
  BY DEF NewRpc, Inv, TypeOK
<1>. QED
  BY <1>3, <1>4, <1>5, OnlyRequest

\* An epoch up to a closed one is closed.
LEMMA ClosedUpTo ==
  ASSUME TypeOK, NEW h \in Nat, NEW e \in Nat, e <= h, Closed(h)
  PROVE  Closed(e)
<1>1. \A i \in 1 .. settled : EpochOf(db[i]) \in Nat
  BY DbFacts
<1>. QED
  BY <1>1 DEF Closed

LEMMA CanUseCachingInv ==
  ASSUME Inv, NEW c \in Clients, CanUseCaching(c)
  PROVE  Inv'
<1>1. PICK r \in Requests : r = request[c] /\ RequestInv(r) /\ r.call \in CachedCalls
  BY DEF Inv, TypeOK, CanUseCaching, At
<1>. DEFINE hit == [r EXCEPT !.pc = "lookup", !.caching = TRUE]
            miss == [r EXCEPT !.pc = "stable"]
<1>2. request' = [request EXCEPT ![c] = IF highest # None /\ highest >= r.epoch THEN hit ELSE miss]
  BY <1>1 DEF CanUseCaching
<1>3. UNCHANGED <<db, settled, highest, cache>> /\ served' \in Nat
  BY DEF CanUseCaching, Inv, TypeOK
<1>4. miss \in Requests /\ RequestInv(miss)
  <2>1. miss \in Requests
    BY DEF Requests
  <2>2. /\ miss.kind = r.kind /\ miss.epoch = r.epoch /\ miss.scripts = r.scripts
        /\ miss.closed = r.closed /\ miss.call = r.call /\ miss.pc = "stable"
        /\ miss.caching = r.caching /\ miss.answers = r.answers
    BY DEF Requests
  <2>. HIDE DEF miss
  <2>. QED
    BY <1>1, <2>1, <2>2 DEF RequestInv, EpochInv, ReadInv, AnswersInv
<1>5. ASSUME highest # None, highest >= r.epoch PROVE hit \in Requests /\ RequestInv(hit)
  <2>1. hit \in Requests
    BY DEF Requests
  <2>2. /\ hit.kind = r.kind /\ hit.epoch = r.epoch /\ hit.scripts = r.scripts
        /\ hit.closed = r.closed /\ hit.call = r.call /\ hit.pc = "lookup"
        /\ hit.answers = r.answers
    BY DEF Requests
  <2>3. Closed(r.epoch)
    <3>1. highest \in Nat /\ r.epoch \in Nat /\ Closed(highest) /\ TypeOK
      BY <1>5, RequestFields DEF Inv, TypeOK, HighestInv
    <3>. QED
      BY <1>5, <3>1, ClosedUpTo
  <2>. HIDE DEF hit
  <2>. QED
    BY <1>1, <2>1, <2>2, <2>3 DEF RequestInv, EpochInv, ReadInv, AnswersInv
<1>. HIDE DEF hit, miss
<1>. QED
  BY <1>2, <1>3, <1>4, <1>5, OnlyRequest

LEMMA QueryStableEpochInv ==
  ASSUME Inv, NEW c \in Clients, QueryStableEpoch(c)
  PROVE  Inv'
<1>1. PICK r \in Requests : r = request[c] /\ RequestInv(r) /\ r.call \in CachedCalls
  BY DEF Inv, TypeOK, QueryStableEpoch, At
<1>2. UNCHANGED <<db, settled, highest, cache>> /\ served' \in Nat
  BY DEF QueryStableEpoch, Inv, TypeOK
<1>. DEFINE stable == GetLatestStableEpoch
            direct == [r EXCEPT !.pc = "first"]
            failed == [r EXCEPT !.call = "failed"]
            seen   == [r EXCEPT !.pc = "seen", !.first = stable]
<1>3. direct \in Requests /\ RequestInv(direct)
  <2>1. direct \in Requests
    BY DEF Requests
  <2>2. /\ direct.kind = r.kind /\ direct.epoch = r.epoch /\ direct.scripts = r.scripts
        /\ direct.closed = r.closed /\ direct.call = r.call /\ direct.pc = "first"
        /\ direct.caching = r.caching /\ direct.answers = r.answers
    BY DEF Requests
  <2>. HIDE DEF direct
  <2>. QED
    BY <1>1, <2>1, <2>2 DEF RequestInv, EpochInv, ReadInv, AnswersInv
<1>4. failed \in Requests /\ RequestInv(failed)
  <2>1. failed \in Requests
    BY DEF Requests
  <2>2. /\ failed.kind = r.kind /\ failed.epoch = r.epoch /\ failed.scripts = r.scripts
        /\ failed.closed = r.closed /\ failed.call = "failed"
        /\ failed.caching = r.caching /\ failed.answers = r.answers
    BY DEF Requests
  <2>. HIDE DEF failed
  <2>. QED
    BY <1>1, <2>1, <2>2 DEF RequestInv, EpochInv, ReadInv, AnswersInv, CachedCalls
<1>5. ASSUME stable \notin {None, -1} PROVE stable \in Nat /\ Closed(stable)
  <2>. DEFINE i == Len(db) - SecurityParameter
  <2>1. /\ Len(db) \in Nat /\ settled \in Nat /\ Len(db) <= settled + SecurityParameter
        /\ SecurityParameter \in Nat
        /\ \A j \in 1 .. Len(db) : EpochOf(db[j]) \in Nat
    BY DbFacts, ConstantsAssumption DEF Inv, DbInv
  <2>2. i >= 1 /\ stable = EpochOf(db[i]) - 1
    <3>1. stable = IF i < 1 THEN None ELSE EpochOf(db[i]) - 1
      BY DEF GetLatestStableEpoch
    <3>2. i \in Int
      BY <2>1
    <3>. HIDE DEF i, stable
    <3>. QED
      BY <1>5, <3>1, <3>2
  <2>3. i \in 1 .. settled /\ i \in 1 .. Len(db)
    BY <2>1, <2>2
  <2>4. EpochOf(db[i]) \in Nat
    BY <2>1, <2>3
  <2>. HIDE DEF i, stable
  <2>5. stable \in Nat /\ EpochOf(db[i]) > stable
    BY <1>5, <2>2, <2>4
  <2>. QED
    BY <2>3, <2>5 DEF Closed
<1>6. \/ request' = [request EXCEPT ![c] = direct]
      \/ request' = [request EXCEPT ![c] = failed]
      \/ stable \notin {None, -1} /\ request' = [request EXCEPT ![c] = seen]
  BY <1>1 DEF QueryStableEpoch
<1>. HIDE DEF direct, failed, stable
<1>7. ASSUME stable \notin {None, -1} PROVE seen \in Requests /\ RequestInv(seen)
  <2>1. stable \in Nat /\ Closed(stable)
    BY <1>5, <1>7
  <2>2. seen \in Requests
    BY <2>1 DEF Requests
  <2>3. /\ seen.kind = r.kind /\ seen.epoch = r.epoch /\ seen.scripts = r.scripts
        /\ seen.closed = r.closed /\ seen.call = r.call /\ seen.pc = "seen"
        /\ seen.caching = r.caching /\ seen.first = stable /\ seen.answers = r.answers
    BY DEF Requests
  <2>. HIDE DEF seen
  <2>. QED
    BY <1>1, <2>1, <2>2, <2>3 DEF RequestInv, EpochInv, ReadInv, AnswersInv
<1>. HIDE DEF seen
<1>8. PICK q \in Requests : RequestInv(q) /\ request' = [request EXCEPT ![c] = q]
  BY <1>3, <1>4, <1>6, <1>7
<1>. QED
  BY <1>2, <1>8, OnlyRequest

LEMMA SeenStableEpochInv ==
  ASSUME Inv, NEW c \in Clients, SeenStableEpoch(c)
  PROVE  Inv'
<1>1. PICK r \in Requests : /\ r = request[c] /\ RequestInv(r)
                            /\ r.call \in CachedCalls /\ r.pc = "seen"
  BY DEF Inv, TypeOK, SeenStableEpoch, At
<1>2. UNCHANGED <<db, settled>> /\ cache' = cache /\ served' \in Nat
  BY DEF SeenStableEpoch, Inv, TypeOK
<1>. DEFINE cached == [r EXCEPT !.pc = "lookup", !.caching = TRUE, !.first = None]
            direct == [r EXCEPT !.pc = "first", !.first = None]
<1>3. /\ highest' = r.first
      /\ request' = [request EXCEPT ![c] = IF r.epoch <= r.first THEN cached ELSE direct]
  BY <1>1 DEF SeenStableEpoch
<1>4. r.first \in Nat /\ Closed(r.first) /\ r.epoch \in Nat
  BY <1>1, RequestFields DEF RequestInv, ReadInv
<1>5. direct \in Requests /\ RequestInv(direct)
  <2>1. direct \in Requests
    BY DEF Requests
  <2>2. /\ direct.kind = r.kind /\ direct.epoch = r.epoch /\ direct.scripts = r.scripts
        /\ direct.closed = r.closed /\ direct.call = r.call /\ direct.pc = "first"
        /\ direct.caching = r.caching /\ direct.answers = r.answers
    BY DEF Requests
  <2>. HIDE DEF direct
  <2>. QED
    BY <1>1, <2>1, <2>2 DEF RequestInv, EpochInv, ReadInv, AnswersInv
<1>6. ASSUME r.epoch <= r.first PROVE cached \in Requests /\ RequestInv(cached)
  <2>1. cached \in Requests
    BY DEF Requests
  <2>2. /\ cached.kind = r.kind /\ cached.epoch = r.epoch /\ cached.scripts = r.scripts
        /\ cached.closed = r.closed /\ cached.call = r.call /\ cached.pc = "lookup"
        /\ cached.answers = r.answers
    BY DEF Requests
  <2>3. Closed(r.epoch)
    BY <1>4, <1>6, ClosedUpTo DEF Inv
  <2>. HIDE DEF cached
  <2>. QED
    BY <1>1, <2>1, <2>2, <2>3 DEF RequestInv, EpochInv, ReadInv, AnswersInv
<1>. HIDE DEF cached, direct
<1>7. PICK q \in Requests : RequestInv(q) /\ request' = [request EXCEPT ![c] = q]
  BY <1>3, <1>5, <1>6
<1>8. /\ highest' \in Nat \cup {None}
      /\ highest' # None => Closed(highest')
      /\ cache' \in [CachedCalls -> SUBSET Entries]
  BY <1>2, <1>3, <1>4 DEF Inv, TypeOK
<1>9. \A call \in CachedCalls : \A x \in cache'[call] :
        Closed(x.epoch) /\ x.answer = FinalAnswer(call, x.epoch, x.scripts)
  BY <1>2 DEF Inv, CachedAnswersAreFinal
<1>10. UNCHANGED <<db, settled>> /\ served' \in Nat
  BY <1>2
<1>. QED
  BY <1>7, <1>8, <1>9, <1>10, ClientStep

LEMMA LookupInv ==
  ASSUME Inv, NEW c \in Clients, Lookup(c)
  PROVE  Inv'
<1>1. PICK r \in Requests : r = request[c] /\ RequestInv(r) /\ r.call \in CachedCalls
  BY DEF Inv, TypeOK, Lookup, At
<1>2. UNCHANGED <<db, settled, highest, cache>> /\ served' \in Nat
  BY DEF Lookup, Inv, TypeOK
<1>. DEFINE miss == [r EXCEPT !.pc = "first"]
<1>3. \/ request' = [request EXCEPT ![c] = miss]
      \/ \E x \in Hits(r) : request' = [request EXCEPT ![c] = Answered(r, x.answer)]
  BY <1>1 DEF Lookup
<1>4. miss \in Requests /\ RequestInv(miss)
  <2>1. miss \in Requests
    BY DEF Requests
  <2>2. /\ miss.kind = r.kind /\ miss.epoch = r.epoch /\ miss.scripts = r.scripts
        /\ miss.closed = r.closed /\ miss.call = r.call /\ miss.pc = "first"
        /\ miss.caching = r.caching /\ miss.answers = r.answers
    BY DEF Requests
  <2>. HIDE DEF miss
  <2>. QED
    BY <1>1, <2>1, <2>2 DEF RequestInv, EpochInv, ReadInv, AnswersInv
<1>5. ASSUME NEW x \in Hits(r)
      PROVE  Answered(r, x.answer) \in Requests /\ RequestInv(Answered(r, x.answer))
  <2>1. x \in cache[r.call] /\ x.epoch = r.epoch /\ x.scripts = r.scripts
    BY DEF Hits
  <2>2. x.answer \in Answers
    BY <1>1, <2>1 DEF Inv, TypeOK, Entries
  <2>3. x.answer = FinalAnswer(r.call, r.epoch, r.scripts)
    BY <1>1, <2>1 DEF Inv, CachedAnswersAreFinal
  <2>4. r.call \in Calls
    BY <1>1 DEF Calls
  <2>. QED
    BY <1>1, <2>2, <2>3, <2>4, AnsweredInv
<1>. HIDE DEF miss
<1>6. PICK q \in Requests : RequestInv(q) /\ request' = [request EXCEPT ![c] = q]
  BY <1>3, <1>4, <1>5
<1>. QED
  BY <1>2, <1>6, OnlyRequest

\* A query of a call is answered, and another one follows.
LEMMA QueryInv ==
  ASSUME NEW r \in Requests, RequestInv(r), r.call \in CachedCalls,
         NEW pc \in {"second", "third"}, NEW f \in Values \cup {None} \cup Nat,
         pc = "third" => r.call = "candidates" /\ f \in Values \cup {None},
         pc = "second" /\ r.call = "params" => f \in Values \cup {None},
         pc = "second" /\ r.call = "candidates" => f \in Nat,
         r.closed \/ r.caching =>
           f = IF pc = "second" THEN FinalFirst(r.call, r.epoch)
               ELSE GetTokenUtxoForEpoch(r.epoch)
  PROVE  /\ [r EXCEPT !.pc = pc, !.first = f] \in Requests
         /\ RequestInv([r EXCEPT !.pc = pc, !.first = f])
<1>. DEFINE q == [r EXCEPT !.pc = pc, !.first = f]
<1>1. q \in Requests
  BY DEF Requests
<1>2. /\ q.kind = r.kind /\ q.epoch = r.epoch /\ q.scripts = r.scripts /\ q.closed = r.closed
      /\ q.call = r.call /\ q.pc = pc /\ q.caching = r.caching
      /\ q.first = f /\ q.answers = r.answers
  BY DEF Requests
<1>. HIDE DEF q
<1>3. EpochInv(q) /\ AnswersInv(q)
  BY <1>2 DEF RequestInv, EpochInv, AnswersInv
<1>4. ReadInv(q)
  BY <1>2 DEF ReadInv
<1>. QED
  BY <1>1, <1>3, <1>4 DEF RequestInv, q

\* The last query of a call is answered.
LEMMA ResponseInv ==
  ASSUME NEW r \in Requests, RequestInv(r), r.call \in CachedCalls, NEW a \in Answers,
         r.closed \/ r.caching => a = FinalAnswer(r.call, r.epoch, r.scripts)
  PROVE  Response(r, a) \in Requests /\ RequestInv(Response(r, a))
<1>1. CASE ~r.caching
  <2>1. r.call \in Calls
    BY DEF Calls
  <2>2. Answered(r, a) \in Requests /\ RequestInv(Answered(r, a))
    BY <2>1, AnsweredInv
  <2>. QED
    BY <1>1, <2>2 DEF Response
<1>2. CASE r.caching
  <2>. DEFINE put == [r EXCEPT !.pc = "put", !.first = None, !.answer = a]
  <2>1. put \in Requests
    BY DEF Requests
  <2>2. /\ put.kind = r.kind /\ put.epoch = r.epoch /\ put.scripts = r.scripts
        /\ put.closed = r.closed /\ put.call = r.call /\ put.pc = "put"
        /\ put.caching = r.caching /\ put.answer = a /\ put.answers = r.answers
    BY DEF Requests
  <2>. HIDE DEF put
  <2>3. RequestInv(put)
    BY <1>2, <2>1, <2>2 DEF RequestInv, EpochInv, ReadInv, AnswersInv
  <2>. QED
    BY <1>2, <2>1, <2>3 DEF Response, put
<1>. QED
  BY <1>1, <1>2

LEMMA QueryTokenInv ==
  ASSUME Inv, NEW c \in Clients, QueryToken(c)
  PROVE  Inv'
<1>1. PICK r \in Requests : /\ r = request[c] /\ RequestInv(r)
                            /\ r.call \in CachedCalls /\ r.call = "params"
  BY DEF Inv, TypeOK, QueryToken, At
<1>2. UNCHANGED <<db, settled, highest, cache>> /\ served' \in Nat
  BY DEF QueryToken, Inv, TypeOK
<1>3. PICK f : f = GetTokenUtxoForEpoch(r.epoch)
  OBVIOUS
<1>4. request' = [request EXCEPT ![c] = [r EXCEPT !.pc = "second", !.first = f]]
  BY <1>1, <1>3 DEF QueryToken
<1>5. f \in Values \cup {None} /\ f = FinalFirst(r.call, r.epoch)
  <2>1. TypeOK /\ r.epoch \in Int
    BY RequestFields DEF Inv
  <2>. QED
    BY <1>1, <1>3, <2>1, QueryTypes DEF FinalFirst
<1>6. /\ [r EXCEPT !.pc = "second", !.first = f] \in Requests
      /\ RequestInv([r EXCEPT !.pc = "second", !.first = f])
  BY <1>1, <1>5, QueryInv
<1>. QED
  BY <1>2, <1>4, <1>6, OnlyRequest

LEMMA GetAriadneParametersInv ==
  ASSUME Inv, NEW c \in Clients, GetAriadneParameters(c)
  PROVE  Inv'
<1>1. PICK r \in Requests : /\ r = request[c] /\ RequestInv(r) /\ r.pc = "second"
                            /\ r.call \in CachedCalls /\ r.call = "params"
  BY DEF Inv, TypeOK, GetAriadneParameters, At
<1>2. UNCHANGED <<db, settled, highest, cache>> /\ served' \in Nat
  BY DEF GetAriadneParameters, Inv, TypeOK
<1>. DEFINE token  == GetTokenUtxoForEpoch(r.epoch)
            a      == [scripts |-> r.scripts, read |-> <<r.first, token>>]
            failed == [r EXCEPT !.call = "failed"]
<1>3. \E q \in {failed, Response(r, a)} : request' = [request EXCEPT ![c] = q]
  BY <1>1 DEF GetAriadneParameters
<1>4. TypeOK /\ r.epoch \in Int /\ r.scripts \in Scripts
  BY RequestFields DEF Inv
<1>5. a \in Answers
  <2>1. token \in Values \cup {None} /\ r.first \in Values \cup {None}
    BY <1>1, <1>4, QueryTypes DEF RequestInv, ReadInv
  <2>. HIDE DEF token
  <2>2. <<r.first, token>> \in Seq(Values \cup {None})
    BY <2>1, SeqOfOne
  <2>. QED
    BY <1>4, <2>2 DEF Answers
<1>6. r.closed \/ r.caching => a = FinalAnswer(r.call, r.epoch, r.scripts)
  BY <1>1 DEF RequestInv, ReadInv, FinalFirst, FinalAnswer
<1>. HIDE DEF a
<1>7. failed \in Requests /\ RequestInv(failed)
  <2>1. failed \in Requests
    BY DEF Requests
  <2>2. /\ failed.kind = r.kind /\ failed.epoch = r.epoch /\ failed.scripts = r.scripts
        /\ failed.closed = r.closed /\ failed.call = "failed"
        /\ failed.caching = r.caching /\ failed.answers = r.answers
    BY DEF Requests
  <2>. HIDE DEF failed
  <2>. QED
    BY <1>1, <2>1, <2>2 DEF RequestInv, EpochInv, ReadInv, AnswersInv, CachedCalls
<1>8. Response(r, a) \in Requests /\ RequestInv(Response(r, a))
  BY <1>1, <1>5, <1>6, ResponseInv
<1>. HIDE DEF failed
<1>9. PICK q \in Requests : RequestInv(q) /\ request' = [request EXCEPT ![c] = q]
  BY <1>3, <1>7, <1>8
<1>. QED
  BY <1>2, <1>9, OnlyRequest

LEMMA GetLastBlockForEpochInv ==
  ASSUME Inv, NEW c \in Clients, GetLastBlockForEpoch(c)
  PROVE  Inv'
<1>1. PICK r \in Requests : /\ r = request[c] /\ RequestInv(r)
                            /\ r.call \in CachedCalls /\ r.call = "candidates"
  BY DEF Inv, TypeOK, GetLastBlockForEpoch, At
<1>2. UNCHANGED <<db, settled, highest, cache>> /\ served' \in Nat
  BY DEF GetLastBlockForEpoch, Inv, TypeOK
<1>3. PICK f : f = LatestBlockForEpoch(r.epoch)
  OBVIOUS
<1>4. request' = [request EXCEPT ![c] = [r EXCEPT !.pc = "second", !.first = f]]
  BY <1>1, <1>3 DEF GetLastBlockForEpoch
<1>5. f \in Nat /\ f = FinalFirst(r.call, r.epoch)
  <2>1. TypeOK /\ r.epoch \in Int
    BY RequestFields DEF Inv
  <2>. QED
    BY <1>1, <1>3, <2>1, QueryTypes DEF FinalFirst
<1>6. /\ [r EXCEPT !.pc = "second", !.first = f] \in Requests
      /\ RequestInv([r EXCEPT !.pc = "second", !.first = f])
  BY <1>1, <1>5, QueryInv
<1>. QED
  BY <1>2, <1>4, <1>6, OnlyRequest

LEMMA GetRegisteredCandidatesInv ==
  ASSUME Inv, NEW c \in Clients, GetRegisteredCandidates(c)
  PROVE  Inv'
<1>1. PICK r \in Requests : /\ r = request[c] /\ RequestInv(r) /\ r.pc = "second"
                            /\ r.call \in CachedCalls /\ r.call = "candidates"
  BY DEF Inv, TypeOK, GetRegisteredCandidates, At
<1>2. UNCHANGED <<db, settled, highest, cache>> /\ served' \in Nat
  BY DEF GetRegisteredCandidates, Inv, TypeOK
<1>3. PICK f : f = GetUtxosForAddress(r.first)
  OBVIOUS
<1>4. request' = [request EXCEPT ![c] = [r EXCEPT !.pc = "third", !.first = f]]
  BY <1>1, <1>3 DEF GetRegisteredCandidates
<1>5. f \in Values \cup {None}
  <2>1. TypeOK /\ r.epoch \in Int /\ r.first \in Nat
    <3>1. ReadInv(r)
      BY <1>1 DEF RequestInv
    <3>2. r.first \in Nat
      BY <1>1, <3>1 DEF ReadInv
    <3>. QED
      BY <3>2, RequestFields DEF Inv
  <2>2. \A i \in Nat : GetUtxosForAddress(i) \in Values \cup {None}
    BY <2>1, QueryTypes
  <2>. QED
    BY <1>3, <2>1, <2>2, Zenon
<1>6. r.closed \/ r.caching => f = GetTokenUtxoForEpoch(r.epoch)
  BY <1>1, <1>3 DEF RequestInv, ReadInv, FinalFirst, GetTokenUtxoForEpoch
<1>7. /\ [r EXCEPT !.pc = "third", !.first = f] \in Requests
      /\ RequestInv([r EXCEPT !.pc = "third", !.first = f])
  BY <1>1, <1>5, <1>6, QueryInv
<1>. QED
  BY <1>2, <1>4, <1>7, OnlyRequest

LEMMA GetCandidatesInv ==
  ASSUME Inv, NEW c \in Clients, GetCandidates(c)
  PROVE  Inv'
<1>1. PICK r \in Requests : /\ r = request[c] /\ RequestInv(r) /\ r.pc = "third"
                            /\ r.call \in CachedCalls
  BY DEF Inv, TypeOK, GetCandidates, At
<1>2. UNCHANGED <<db, settled, highest, cache>> /\ served' \in Nat
  BY DEF GetCandidates, Inv, TypeOK
<1>. DEFINE d == GetStakeDistribution(r.epoch)
            a == [scripts |-> r.scripts, read |-> <<r.first>> \o d]
<1>3. request' = [request EXCEPT ![c] = Response(r, a)]
  BY <1>1 DEF GetCandidates
<1>4. TypeOK /\ r.epoch \in Int /\ r.scripts \in Scripts
  BY RequestFields DEF Inv
<1>5. r.call = "candidates" /\ r.first \in Values \cup {None}
  BY <1>1 DEF RequestInv, ReadInv
<1>6. a \in Answers
  <2>1. d \in Seq(Values \cup {None})
    BY <1>4, QueryTypes
  <2>. HIDE DEF d
  <2>2. <<r.first>> \o d \in Seq(Values \cup {None})
    BY <1>5, <2>1, SeqConcat
  <2>. QED
    BY <1>4, <2>2 DEF Answers
<1>7. r.closed \/ r.caching => a = FinalAnswer(r.call, r.epoch, r.scripts)
  <2>. SUFFICES ASSUME r.closed \/ r.caching PROVE a = FinalAnswer(r.call, r.epoch, r.scripts)
    OBVIOUS
  <2>1. r.first = GetTokenUtxoForEpoch(r.epoch)
    BY <1>1 DEF RequestInv, ReadInv
  <2>2. FinalAnswer(r.call, r.epoch, r.scripts) =
          [scripts |-> r.scripts, read |-> <<GetTokenUtxoForEpoch(r.epoch)>> \o d]
    BY <1>5 DEF FinalAnswer
  <2>. QED
    BY <2>1, <2>2
<1>. HIDE DEF a
<1>8. Response(r, a) \in Requests /\ RequestInv(Response(r, a))
  BY <1>1, <1>6, <1>7, ResponseInv
<1>. QED
  BY <1>2, <1>3, <1>8, OnlyRequest

LEMMA PutInv ==
  ASSUME Inv, NEW c \in Clients, Put(c)
  PROVE  Inv'
<1>1. PICK r \in Requests : /\ r = request[c] /\ RequestInv(r)
                            /\ r.call \in CachedCalls /\ r.pc = "put"
  BY DEF Inv, TypeOK, Put, At
<1>2. UNCHANGED <<db, settled, highest>> /\ served' \in Nat
  BY DEF Put, Inv, TypeOK
<1>. DEFINE new == [epoch |-> r.epoch, scripts |-> r.scripts, answer |-> r.answer]
<1>3. PICK entries \in CachesWith(cache[r.call], new) :
        cache' = [cache EXCEPT ![r.call] = entries]
  BY <1>1 DEF Put
<1>4. request' = [request EXCEPT ![c] = Answered(r, r.answer)]
  BY <1>1 DEF Put
<1>5. Closed(r.epoch) /\ r.answer = FinalAnswer(r.call, r.epoch, r.scripts)
  BY <1>1 DEF RequestInv, EpochInv, ReadInv
<1>6. r.answer \in Answers /\ r.epoch \in Nat /\ r.scripts \in Scripts
  BY <1>5, RequestFields, FinalTypes DEF Inv
<1>7. new \in Entries
  <2>1. \A e \in Nat, scripts \in Scripts, answer \in Answers :
          [epoch |-> e, scripts |-> scripts, answer |-> answer] \in Entries
    BY DEF Entries
  <2>. QED
    BY <1>6, <2>1, Zenon
<1>8. new.epoch = r.epoch /\ new.scripts = r.scripts /\ new.answer = r.answer
  OBVIOUS
<1>. HIDE DEF new
<1>9. \A x \in entries : x \in cache[r.call] \/ x = new
  BY <1>3 DEF CachesWith
<1>10. cache[r.call] \in SUBSET Entries
  BY <1>1 DEF Inv, TypeOK
<1>11. cache' \in [CachedCalls -> SUBSET Entries]
  BY <1>1, <1>3, <1>7, <1>9, <1>10 DEF Inv, TypeOK
<1>12. \A call \in CachedCalls : \A x \in cache'[call] :
         Closed(x.epoch) /\ x.answer = FinalAnswer(call, x.epoch, x.scripts)
  <2>. SUFFICES ASSUME NEW call \in CachedCalls, NEW x \in cache'[call]
                PROVE  Closed(x.epoch) /\ x.answer = FinalAnswer(call, x.epoch, x.scripts)
    OBVIOUS
  <2>1. x \in cache[call] \/ (call = r.call /\ x = new)
    BY <1>1, <1>3, <1>9 DEF Inv, TypeOK
  <2>2. CASE x \in cache[call]
    BY <2>2 DEF Inv, CachedAnswersAreFinal
  <2>3. CASE call = r.call /\ x = new
    BY <1>5, <1>8, <2>3
  <2>. QED
    BY <2>1, <2>2, <2>3
<1>13. Answered(r, r.answer) \in Requests /\ RequestInv(Answered(r, r.answer))
  <2>1. r.call \in Calls
    BY <1>1 DEF Calls
  <2>. QED
    BY <1>1, <1>5, <1>6, <2>1, AnsweredInv
<1>14. highest' \in Nat \cup {None} /\ (highest' # None => Closed(highest'))
  BY <1>2 DEF Inv, TypeOK, HighestInv
<1>15. UNCHANGED <<db, settled>>
  BY <1>2
<1>. QED
  BY <1>2, <1>4, <1>11, <1>12, <1>13, <1>14, <1>15, ClientStep

LEMMA QueryNonceInv ==
  ASSUME Inv, NEW c \in Clients, QueryNonce(c)
  PROVE  Inv'
<1>1. PICK r \in Requests : r = request[c] /\ RequestInv(r) /\ r.call = "nonce"
  BY DEF Inv, TypeOK, QueryNonce
<1>2. UNCHANGED <<db, settled, highest, cache>> /\ served' \in Nat
  BY DEF QueryNonce, Inv, TypeOK
<1>. DEFINE a == [scripts |-> r.scripts, read |-> GetEpochNonce(r.epoch)]
<1>3. request' = [request EXCEPT ![c] = Answered(r, a)]
  BY <1>1 DEF QueryNonce
<1>4. a = FinalAnswer(r.call, r.epoch, r.scripts)
  BY <1>1 DEF FinalAnswer
<1>5. a \in Answers
  BY <1>4, RequestFields, FinalTypes DEF Inv
<1>6. r.call \in Calls
  BY <1>1 DEF Calls
<1>. HIDE DEF a
<1>7. Answered(r, a) \in Requests /\ RequestInv(Answered(r, a))
  BY <1>1, <1>4, <1>5, <1>6, AnsweredInv
<1>. QED
  BY <1>2, <1>3, <1>7, OnlyRequest

-----------------------------------------------------------------------------
(* The theorems.                                                           *)

LEMMA InitInv == Init => Inv
<1>. SUFFICES ASSUME Init PROVE Inv
  OBVIOUS
<1>1. db = <<>> /\ Len(db) = 0 /\ db \in Seq(Blocks) /\ settled = 0
  BY DEF Init
<1>2. TypeOK
  BY <1>1 DEF Init, TypeOK
<1>3. DbInv
  BY <1>1, ConstantsAssumption DEF DbInv
<1>4. HighestInv /\ CachedAnswersAreFinal
  BY DEF Init, HighestInv, CachedAnswersAreFinal
<1>5. \A c \in Clients : request[c] = None
  BY DEF Init
<1>. QED
  BY <1>2, <1>3, <1>4, <1>5 DEF Inv

LEMMA NextInv == Inv /\ [Next]_vars => Inv'
<1>. SUFFICES ASSUME Inv, [Next]_vars PROVE Inv'
  OBVIOUS
<1>1. CASE MainChainBlock
  BY <1>1, MainChainBlockInv
<1>2. CASE DbRollback
  BY <1>2, DbRollbackInv
<1>3. CASE \E c \in Clients : Serve(c)
  <2>1. PICK c \in Clients : Serve(c)
    BY <1>3
  <2>. QED
    BY <2>1, NewInherentInv, NewRpcInv, CanUseCachingInv, QueryStableEpochInv,
       SeenStableEpochInv, LookupInv, QueryTokenInv, GetAriadneParametersInv,
       GetLastBlockForEpochInv, GetRegisteredCandidatesInv, GetCandidatesInv, PutInv,
       QueryNonceInv DEF Serve
<1>4. CASE UNCHANGED vars
  <2>1. Moves
    <3>1. UNCHANGED <<db, settled, highest, cache, request, served>>
      BY <1>4 DEF vars
    <3>2. TypeOK' /\ DbInv'
      BY <3>1 DEF Inv, TypeOK, DbInv
    <3>3. db' \in Seq(Blocks) /\ settled' \in 0 .. Len(db') /\ settled' >= settled
      BY <3>1, DbFacts DEF Inv
    <3>. QED
      BY <3>1, <3>2, <3>3 DEF Moves, Inv
  <2>. QED
    BY <1>4, <2>1, MovesInv DEF vars
<1>. QED
  BY <1>1, <1>2, <1>3, <1>4 DEF Next

\* The invariant holds in every state of every execution.
THEOREM InvAlways == Spec => []Inv
BY InitInv, NextInv, PTL DEF Spec

\* The state of a node that serves block authoring, block import and RPC users
\* always has its type: no query yields an epoch or an output of another kind.
THEOREM TypeCorrect == Spec => []TypeOK
<1>1. Inv => TypeOK
  BY DEF Inv
<1>. QED
  BY <1>1, InvAlways, PTL

\* CandidateDataSourceCached keeps no answer that a rollback could still
\* change, however requests for any epochs interleave with the main chain.
THEOREM CacheFinal == Spec => []CachedAnswersAreFinal
<1>1. Inv => CachedAnswersAreFinal
  BY DEF Inv
<1>. QED
  BY <1>1, InvAlways, PTL

\* AriadneInherentDataProvider gives the settled main chain's inputs for every
\* block, from the database or from the caches.
THEOREM AnswersFinal == Spec => []AnswersAreFinal
<1>1. Inv => AnswersAreFinal
  <2>. SUFFICES ASSUME Inv, NEW c \in Clients, request[c] # None,
                       request[c].kind = "inherent" \/ request[c].closed,
                       NEW call \in Calls
                PROVE  request[c].answers[call] \in
                         {None, FinalAnswer(call, request[c].epoch, request[c].scripts)}
    BY DEF AnswersAreFinal
  <2>1. PICK r : r = request[c]
    OBVIOUS
  <2>2. RequestInv(r) /\ (r.kind = "inherent" \/ r.closed)
    BY <2>1 DEF Inv
  <2>3. r.answers[call] \in {None, FinalAnswer(call, r.epoch, r.scripts)}
    BY <2>2 DEF RequestInv, EpochInv, AnswersInv
  <2>. QED
    BY <2>1, <2>3
<1>. QED
  BY <1>1, InvAlways, PTL

\* AriadneInherentDataProvider::new never lacks inputs: the epoch of the data
\* is before that of the block's main chain reference.
THEOREM InputsAvailable == Spec => []InputsAreAvailable
<1>1. Inv => InputsAreAvailable
  BY DEF Inv, InputsAreAvailable, RequestInv, EpochInv
<1>. QED
  BY <1>1, InvAlways, PTL

=============================================================================
