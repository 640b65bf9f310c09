------------------------ MODULE NativeTokenProofs ------------------------
(***************************************************************************)
(* Proofs about NativeToken, for any number of nodes, any cache size and   *)
(* any chains: the transfers are conserved and all nodes agree on them as  *)
(* long as OneTokenOnly holds.  The runs on changing scripts and on other  *)
(* assets show that it is needed.                                          *)
(***************************************************************************)
EXTENDS NativeToken, TLAPS

\* What the data source ought to answer for a block that refers to `ref' on
\* top of `parent'.
Expected(parent, ref) ==
  IF parent.scripts = None THEN 0
  ELSE IF parent.initialized
       THEN locked[ref][parent.scripts] - locked[parent.ref][parent.scripts]
       ELSE locked[ref][parent.scripts]

LedgerInv ==
  /\ \A b \in 0 .. mcTip : \A s \in Scripts : other[b][s] = 0
  /\ \A b, c \in 0 .. mcTip : \A s \in Scripts : b <= c => locked[b][s] <= locked[c][s]

StateInv(state) ==
  /\ state.initialized =>
       /\ state.scripts \in Scripts
       /\ state.ref \in 0 .. LatestStable
       /\ state.handled = locked[state.ref][state.scripts]
  /\ ~state.initialized => state.handled = 0

\* How a block relates to its parent.
LinkInv(parent, state) ==
  /\ state.ref \in 0 .. LatestStable
  /\ parent.scripts # None => state.scripts = parent.scripts
  /\ state.transfer = Expected(parent, state.ref)
  /\ parent.initialized => parent.ref <= state.ref
  /\ ~state.initialized /\ parent.scripts # None => locked[state.ref][state.scripts] = 0

ChainInv ==
  /\ \A i \in 1 .. Len(chain) : StateInv(chain[i])
  /\ \A i \in 2 .. Len(chain) : LinkInv(chain[i - 1], chain[i])
  /\ \A i \in 1 .. Len(chain) :
       chain[i].scripts # None => chain[Len(chain)].scripts = chain[i].scripts

\* A pending call is about blocks of the chain, and answers what it ought to.
RequestInv(n) ==
  /\ request[n].parent \in 1 .. Len(chain)
  /\ request[n].ref \in 0 .. LatestStable
  /\ chain[request[n].parent].initialized => chain[request[n].parent].ref <= request[n].ref
  /\ request[n].kind = "verify" =>
       /\ request[n].parent = at[n]
       /\ at[n] < Len(chain)
       /\ request[n].ref = chain[at[n] + 1].ref
  /\ request[n].status = "missed" =>
       /\ chain[request[n].parent].initialized
       /\ chain[request[n].parent].scripts # None
  /\ request[n].status = "answered" =>
       request[n].amount = Expected(chain[request[n].parent], request[n].ref)

RequestsInv == \A n \in Nodes : request[n] # None => RequestInv(n)

Inv ==
  /\ TypeOK
  /\ LedgerInv
  /\ ChainInv
  /\ RequestsInv
  /\ CacheIsCurrent
  /\ VerifiersAgree

LEMMA SeqAppend ==
  ASSUME NEW S, NEW q \in Seq(S), NEW e \in S
  PROVE  /\ Append(q, e) \in Seq(S)
         /\ Append(q, e) # <<>>
         /\ Len(Append(q, e)) = Len(q) + 1
         /\ Append(q, e)[Len(q) + 1] = e
         /\ \A i \in 1 .. Len(q) : Append(q, e)[i] = q[i]
OBVIOUS

LEMMA SeqFacts ==
  ASSUME NEW S, NEW q \in Seq(S)
  PROVE  /\ Len(q) \in Nat
         /\ DOMAIN q = 1 .. Len(q)
         /\ \A i \in 1 .. Len(q) : q[i] \in S
         /\ q # <<>> => Len(q) > 0
OBVIOUS

LEMMA StateFields ==
  ASSUME NEW state \in States
  PROVE  /\ state.ref \in Nat \cup {None}
         /\ state.scripts \in Scripts \cup {None}
         /\ state.initialized \in BOOLEAN
         /\ state.transfer \in Nat
         /\ state.handled \in Nat
BY DEF States

LEMMA RequestFields ==
  ASSUME NEW r \in Requests
  PROVE  /\ r.kind \in {"author", "verify"}
         /\ r.parent \in Nat
         /\ r.ref \in Nat
         /\ r.status \in {"missed", "answered"}
         /\ r.amount \in Nat
BY DEF Requests

\* The chain is not empty and its members are states.
LEMMA ChainFacts ==
  ASSUME TypeOK
  PROVE  /\ Len(chain) \in Nat /\ Len(chain) > 0
         /\ \A i \in 1 .. Len(chain) : chain[i] \in States
BY SeqFacts DEF TypeOK

\* The block numbers up to the latest stable one are in the ledger.
LEMMA StableBlocks ==
  ASSUME TypeOK, NEW b \in 0 .. LatestStable
  PROVE  b \in Nat /\ b \in 0 .. mcTip
BY ConstantsAssumption DEF TypeOK, LatestStable

\* The sum the data source ought to answer is a natural number.
LEMMA ExpectedNat ==
  ASSUME TypeOK, LedgerInv, NEW parent \in States, StateInv(parent),
         NEW ref \in 0 .. LatestStable, parent.initialized => parent.ref <= ref
  PROVE  Expected(parent, ref) \in Nat
<1>1. CASE parent.scripts = None
  BY <1>1 DEF Expected
<1>2. CASE parent.scripts # None /\ ~parent.initialized
  <2>1. parent.scripts \in Scripts /\ ref \in 0 .. mcTip
    BY <1>2, StateFields, StableBlocks
  <2>. QED
    BY <1>2, <2>1 DEF Expected, TypeOK
<1>3. CASE parent.scripts # None /\ parent.initialized
  <2>1. parent.scripts \in Scripts /\ ref \in 0 .. mcTip /\ parent.ref \in 0 .. mcTip
    BY <1>3, StateFields, StableBlocks DEF StateInv
  <2>2. locked[ref][parent.scripts] \in Nat /\ locked[parent.ref][parent.scripts] \in Nat
    BY <2>1 DEF TypeOK
  <2>3. locked[parent.ref][parent.scripts] <= locked[ref][parent.scripts]
    BY <1>3, <2>1 DEF LedgerInv
  <2>. QED
    BY <1>3, <2>2, <2>3 DEF Expected
<1>. QED
  BY <1>1, <1>2, <1>3, StateFields

\* While nothing but the token is sent to the address, the rows of the
\* database give the expected sum.
LEMMA RowsAreExpected ==
  ASSUME TypeOK, LedgerInv, NEW parent \in States, StateInv(parent),
         NEW ref \in 0 .. LatestStable, parent.initialized, parent.scripts # None
  PROVE  RowsSum(parent.scripts, parent.ref, ref) = Expected(parent, ref)
<1>1. parent.scripts \in Scripts /\ ref \in 0 .. mcTip /\ parent.ref \in 0 .. mcTip
  BY StateFields, StableBlocks DEF StateInv
<1>2. locked[ref][parent.scripts] \in Nat /\ locked[parent.ref][parent.scripts] \in Nat
  BY <1>1 DEF TypeOK
<1>3. other[ref][parent.scripts] = 0 /\ other[parent.ref][parent.scripts] = 0
  BY <1>1 DEF LedgerInv
<1>. QED
  BY <1>2, <1>3 DEF RowsSum, Expected

LEMMA InitInv ==
  ASSUME Init
  PROVE  Inv
<1>. USE ConstantsAssumption, ScriptsAssumption
<1>1. PICK rate \in {0, 1} : locked = [b \in 0 .. InitialTip |-> [s \in Scripts |-> rate * b]]
  BY DEF Init
<1>2. locked \in [0 .. mcTip -> [Scripts -> Nat]]
  <2>1. \A b \in 0 .. InitialTip : rate * b \in Nat
    BY <1>1
  <2>. QED
    BY <1>1, <2>1 DEF Init
<1>3. chain = <<Genesis>> /\ Genesis \in States /\ chain \in Seq(States) /\ Len(chain) = 1
      /\ chain[1] = Genesis
  BY DEF Init, Genesis, States
<1>4. TypeOK
  BY <1>2, <1>3 DEF Init, TypeOK, LatestStable
<1>5. LedgerInv
  <2>1. \A b, c \in 0 .. InitialTip : b <= c => rate * b <= rate * c
    BY <1>1
  <2>. QED
    BY <1>1, <2>1 DEF Init, LedgerInv
<1>6. ChainInv
  BY <1>3 DEF ChainInv, StateInv, Genesis
<1>7. RequestsInv /\ CacheIsCurrent /\ VerifiersAgree
  BY DEF Init, RequestsInv, CacheIsCurrent, VerifiersAgree
<1>. QED
  BY <1>4, <1>5, <1>6, <1>7 DEF Inv

\* The main chain grows; what was locked up to its older blocks stays.
LEMMA MainChainBlockInv ==
  ASSUME Inv, OneTokenOnly, MainChainBlock
  PROVE  Inv'
<1>. USE ConstantsAssumption
<1>1. PICK amounts \in [Scripts -> {0, 1}], others \in [Scripts -> {0}] :
       /\ locked' = [b \in 0 .. mcTip + 1 |->
            IF b <= mcTip THEN locked[b]
            ELSE [s \in Scripts |-> locked[mcTip][s] + amounts[s]]]
       /\ other' = [b \in 0 .. mcTip + 1 |->
            IF b <= mcTip THEN other[b]
            ELSE [s \in Scripts |-> other[mcTip][s] + others[s]]]
  BY DEF MainChainBlock, OneTokenOnly
<1>2. /\ mcTip' = mcTip + 1
      /\ UNCHANGED <<chain, at, rejected, cache, request, restarts>>
  BY DEF MainChainBlock
<1>3. mcTip \in Nat /\ LatestStable \in Nat
  BY DEF Inv, TypeOK
<1>4. LatestStable' = LatestStable + 1 /\ LatestStable' \in Nat
  BY <1>2, <1>3 DEF LatestStable
<1>5. \A b \in 0 .. mcTip : locked'[b] = locked[b] /\ other'[b] = other[b]
  BY <1>1, <1>3
<1>6. \A s \in Scripts : /\ locked'[mcTip + 1][s] \in Nat
                        /\ locked'[mcTip + 1][s] >= locked[mcTip][s]
                        /\ other'[mcTip + 1][s] = 0
  <2>. SUFFICES ASSUME NEW s \in Scripts
                PROVE  /\ locked'[mcTip + 1][s] \in Nat
                       /\ locked'[mcTip + 1][s] >= locked[mcTip][s]
                       /\ other'[mcTip + 1][s] = 0
    OBVIOUS
  <2>1. locked'[mcTip + 1][s] = locked[mcTip][s] + amounts[s]
        /\ other'[mcTip + 1][s] = other[mcTip][s] + others[s]
    BY <1>1, <1>3
  <2>2. locked[mcTip][s] \in Nat /\ amounts[s] \in {0, 1} /\ others[s] = 0 /\ other[mcTip][s] = 0
    BY <1>3, <1>1 DEF Inv, TypeOK, LedgerInv
  <2>. QED
    BY <2>1, <2>2
<1>7. TypeOK'
  <2>1. locked' \in [0 .. mcTip' -> [Scripts -> Nat]]
    <3>1. locked' = [b \in 0 .. mcTip' |-> locked'[b]]
      BY <1>1, <1>2
    <3>2. ASSUME NEW b \in 0 .. mcTip' PROVE locked'[b] \in [Scripts -> Nat]
      <4>1. CASE b \in 0 .. mcTip
        BY <4>1, <1>5 DEF Inv, TypeOK
      <4>2. CASE b = mcTip + 1
        <5>1. locked'[b] = [s \in Scripts |-> locked[mcTip][s] + amounts[s]]
          BY <4>2, <1>1, <1>3
        <5>. QED
          BY <5>1, <4>2, <1>6
      <4>. QED
        BY <4>1, <4>2, <1>2, <1>3
    <3>. QED
      BY <3>1, <3>2
  <2>2. other' \in [0 .. mcTip' -> [Scripts -> Nat]]
    <3>1. other' = [b \in 0 .. mcTip' |-> other'[b]]
      BY <1>1, <1>2
    <3>2. ASSUME NEW b \in 0 .. mcTip' PROVE other'[b] \in [Scripts -> Nat]
      <4>1. CASE b \in 0 .. mcTip
        BY <4>1, <1>5 DEF Inv, TypeOK
      <4>2. CASE b = mcTip + 1
        <5>1. other'[b] = [s \in Scripts |-> other[mcTip][s] + others[s]]
          BY <4>2, <1>1, <1>3
        <5>. QED
          BY <5>1, <4>2, <1>6
      <4>. QED
        BY <4>1, <4>2, <1>2, <1>3
    <3>. QED
      BY <3>1, <3>2
  <2>3. mcTip' \in Nat
    BY <1>2, <1>3
  <2>4. /\ chain' \in Seq(States) /\ chain' # <<>>
        /\ at' \in [Nodes -> 1 .. Len(chain')]
        /\ rejected' \subseteq Nodes
        /\ cache' \in [Nodes -> Caches \cup {None}]
        /\ request' \in [Nodes -> Requests \cup {None}]
        /\ restarts' \in Nat
    BY <1>2 DEF Inv, TypeOK
  <2>. QED
    BY <1>4, <2>1, <2>2, <2>3, <2>4 DEF TypeOK
<1>8. LedgerInv'
  <2>1. ASSUME NEW b \in 0 .. mcTip', NEW s \in Scripts PROVE other'[b][s] = 0
    <3>1. CASE b \in 0 .. mcTip
      BY <3>1, <1>5 DEF Inv, LedgerInv
    <3>2. CASE b = mcTip + 1
      BY <3>2, <1>6
    <3>. QED
      BY <3>1, <3>2, <1>2, <1>3
  <2>2. ASSUME NEW b \in 0 .. mcTip', NEW c \in 0 .. mcTip', NEW s \in Scripts, b <= c
        PROVE  locked'[b][s] <= locked'[c][s]
    <3>1. CASE c \in 0 .. mcTip
      <4>1. b \in 0 .. mcTip
        BY <2>2, <3>1, <1>3
      <4>. QED
        BY <2>2, <3>1, <4>1, <1>5 DEF Inv, LedgerInv
    <3>2. CASE c = mcTip + 1 /\ b \in 0 .. mcTip
      <4>1. locked[b][s] <= locked[mcTip][s] /\ locked[b][s] \in Nat /\ locked[mcTip][s] \in Nat
        BY <3>2, <1>3 DEF Inv, LedgerInv, TypeOK
      <4>. QED
        BY <3>2, <4>1, <1>5, <1>6
    <3>3. CASE c = mcTip + 1 /\ b = mcTip + 1
      BY <3>3, <1>6
    <3>. QED
      BY <3>1, <3>2, <3>3, <1>2, <1>3, <2>2
  <2>. QED
    BY <2>1, <2>2 DEF LedgerInv
<1>9. ASSUME NEW b \in 0 .. LatestStable
      PROVE  b \in 0 .. LatestStable' /\ locked'[b] = locked[b]
  BY <1>3, <1>4, <1>5, StableBlocks DEF Inv
<1>10. ASSUME NEW parent \in States, StateInv(parent), NEW ref \in 0 .. LatestStable
       PROVE  /\ StateInv(parent)'
              /\ Expected(parent, ref)' = Expected(parent, ref)
  BY <1>9, <1>10 DEF StateInv, Expected
<1>11. \A i \in 1 .. Len(chain) : chain[i] \in States /\ StateInv(chain[i])
  BY ChainFacts DEF Inv, ChainInv
<1>12. ChainInv'
  <2>1. ASSUME NEW i \in 2 .. Len(chain) PROVE LinkInv(chain[i - 1], chain[i])'
    <3>1. LinkInv(chain[i - 1], chain[i])
      BY DEF Inv, ChainInv
    <3>2. i - 1 \in 1 .. Len(chain) /\ chain[i].ref \in 0 .. LatestStable
      BY <3>1, ChainFacts DEF LinkInv, Inv
    <3>3. Expected(chain[i - 1], chain[i].ref)' = Expected(chain[i - 1], chain[i].ref)
      BY <1>2, <1>10, <1>11, <3>2 DEF Expected
    <3>4. locked'[chain[i].ref] = locked[chain[i].ref] /\ chain[i].ref \in 0 .. LatestStable'
      BY <1>9, <3>2
    <3>. QED
      BY <1>2, <3>1, <3>3, <3>4 DEF LinkInv
  <2>2. ASSUME NEW i \in 1 .. Len(chain) PROVE StateInv(chain[i])'
    BY <1>2, <1>9, <1>11 DEF StateInv
  <2>. QED
    BY <1>2, <2>1, <2>2 DEF Inv, ChainInv
<1>13. RequestsInv'
  <2>. SUFFICES ASSUME NEW n \in Nodes, request[n] # None PROVE RequestInv(n)'
    BY <1>2 DEF RequestsInv
  <2>1. RequestInv(n)
    BY DEF Inv, RequestsInv
  <2>2. request[n].parent \in 1 .. Len(chain) /\ request[n].ref \in 0 .. LatestStable
    BY <2>1 DEF RequestInv
  <2>3. Expected(chain[request[n].parent], request[n].ref)'
          = Expected(chain[request[n].parent], request[n].ref)
    BY <1>2, <1>9, <1>11, <2>2 DEF Expected, StateInv
  <2>. QED
    BY <1>2, <1>9, <2>1, <2>2, <2>3 DEF RequestInv
<1>14. CacheIsCurrent' /\ VerifiersAgree'
  <2>1. \A n \in Nodes : cache[n] # None => cache[n].to \in Nat
    BY DEF Inv, TypeOK, Caches
  <2>. QED
    BY <1>2, <1>3, <1>4, <2>1 DEF Inv, CacheIsCurrent, VerifiersAgree
<1>. QED
  BY <1>7, <1>8, <1>12, <1>13, <1>14 DEF Inv

\* A step that leaves the two chains alone keeps what is said of them.
LEMMA SameChains ==
  ASSUME Inv, UNCHANGED <<mcTip, locked, other, chain>>
  PROVE  /\ LedgerInv' /\ ChainInv'
         /\ LatestStable' = LatestStable
         /\ \A n \in Nodes :
              request'[n] = request[n] /\ at'[n] = at[n] /\ request[n] # None => RequestInv(n)'
<1>1. LatestStable' = LatestStable
  BY DEF LatestStable
<1>2. LedgerInv'
  BY DEF Inv, LedgerInv
<1>3. ChainInv'
  BY <1>1 DEF Inv, ChainInv, StateInv, LinkInv, Expected
<1>4. ASSUME NEW n \in Nodes, request'[n] = request[n], at'[n] = at[n], request[n] # None
      PROVE  RequestInv(n)'
  <2>1. RequestInv(n)
    BY <1>4 DEF Inv, RequestsInv
  <2>. QED
    BY <1>1, <1>4, <2>1 DEF RequestInv, Expected
<1>. QED
  BY <1>1, <1>2, <1>3, <1>4

\* What a call of the data source is answered, or that it has to read rows.
LEMMA AskAnswers ==
  ASSUME Inv, NEW n \in Nodes, NEW kind \in {"author", "verify"},
         NEW height \in 1 .. Len(chain), NEW ref \in 0 .. LatestStable,
         chain[height].initialized => chain[height].ref <= ref
  PROVE  LET r == Ask(n, kind, height, ref)
         IN  /\ r \in Requests
             /\ r.kind = kind /\ r.parent = height /\ r.ref = ref
             /\ r.status = "missed" =>
                  chain[height].initialized /\ chain[height].scripts # None
             /\ r.status = "answered" => r.amount = Expected(chain[height], ref)
<1>. USE ConstantsAssumption, ScriptsAssumption
<1>. DEFINE parent == chain[height]
            after == AfterBlock(parent)
            answer(a) == [kind |-> kind, parent |-> height, ref |-> ref,
                          status |-> "answered", amount |-> a]
<1>1. parent \in States /\ StateInv(parent) /\ height \in Nat /\ ref \in Nat
  BY ChainFacts, StableBlocks DEF Inv, ChainInv
<1>2. Expected(parent, ref) \in Nat
  BY <1>1, ExpectedNat DEF Inv
<1>3. \A a \in Nat : /\ answer(a) \in Requests
                     /\ [answer(a) EXCEPT !.status = "missed"] \in Requests
  BY <1>1 DEF Requests
<1>. DEFINE Right(r) ==
       /\ r \in Requests
       /\ r.kind = kind /\ r.parent = height /\ r.ref = ref
       /\ r.status = "missed" => parent.initialized /\ parent.scripts # None
       /\ r.status = "answered" => r.amount = Expected(parent, ref)
<1>. SUFFICES Right(Ask(n, kind, height, ref))
  OBVIOUS
<1>8. ASSUME NEW a, a = Expected(parent, ref) PROVE Right(answer(a))
  <2>1. answer(a) \in Requests
    BY <1>2, <1>3, <1>8
  <2>2. answer(a).status = "answered" /\ answer(a).amount = a
    OBVIOUS
  <2>3. answer(a).kind = kind /\ answer(a).parent = height /\ answer(a).ref = ref
    OBVIOUS
  <2>. QED
    BY <1>8, <2>1, <2>2, <2>3
<1>. HIDE DEF Right
<1>4. ref # None /\ (parent.initialized => parent.ref # None)
  BY <1>1 DEF StateInv
<1>5. CASE parent.scripts = None
  <2>1. Ask(n, kind, height, ref) = answer(0)
    BY <1>5 DEF Ask
  <2>2. Expected(parent, ref) = 0
    BY <1>5 DEF Expected
  <2>. QED
    BY <2>1, <2>2, <1>8
<1>6. CASE parent.scripts # None /\ ~parent.initialized
  <2>1. after = None
    BY <1>6 DEF AfterBlock
  <2>2. Ask(n, kind, height, ref) = answer(TransfersFromGenesis(parent.scripts, ref))
    BY <1>4, <1>6, <2>1 DEF Ask
  <2>3. TransfersFromGenesis(parent.scripts, ref) = Expected(parent, ref)
    BY <1>6 DEF Expected, TransfersFromGenesis
  <2>. QED
    BY <2>2, <2>3, <1>8
<1>7. CASE parent.scripts # None /\ parent.initialized
  <2>1. after = parent.ref /\ after # None
    BY <1>4, <1>7 DEF AfterBlock
  <2>2. parent.scripts \in Scripts /\ ref \in 0 .. mcTip /\ parent.ref \in 0 .. mcTip
    BY <1>1, <1>7, StateFields, StableBlocks DEF StateInv, Inv
  <2>3. CASE parent.ref = ref
    <3>1. Ask(n, kind, height, ref) = answer(0)
      BY <1>4, <1>7, <2>1, <2>3 DEF Ask
    <3>2. Expected(parent, ref) = 0
      BY <1>7, <2>2, <2>3 DEF Expected, Inv, TypeOK
    <3>. QED
      BY <3>1, <3>2, <1>8
  <2>4. CASE parent.ref # ref /\ InCache(n, parent.ref, ref)
    <3>1. Ask(n, kind, height, ref) = answer(GetSumInRange(n, parent.ref, ref))
      BY <1>4, <1>7, <2>1, <2>4 DEF Ask
    <3>2. cache[n].scripts = parent.scripts
      BY <1>7, <2>4 DEF InCache, Inv, CacheIsCurrent, ChainInv
    <3>3. GetSumInRange(n, parent.ref, ref) = Expected(parent, ref)
      BY <1>1, <1>7, <3>2, RowsAreExpected DEF GetSumInRange, Inv
    <3>. QED
      BY <3>1, <3>3, <1>8
  <2>5. CASE parent.ref # ref /\ ~InCache(n, parent.ref, ref)
    <3>1. Ask(n, kind, height, ref) = [answer(0) EXCEPT !.status = "missed"]
      BY <1>4, <1>7, <2>1, <2>5 DEF Ask
    <3>. QED
      BY <3>1, <1>3, <1>7 DEF Right
  <2>. QED
    BY <2>3, <2>4, <2>5
<1>. QED
  BY <1>1, <1>5, <1>6, <1>7, StateFields

LEMMA CreateProposalInv ==
  ASSUME Inv, NEW n \in Nodes, CreateProposal(n)
  PROVE  Inv'
<1>1. PICK ref \in 0 .. LatestStable :
        /\ chain[at[n]].ref # None => chain[at[n]].ref <= ref
        /\ request' = [request EXCEPT ![n] = Ask(n, "author", at[n], ref)]
  BY DEF CreateProposal
<1>2. UNCHANGED <<mcTip, locked, other, chain, at, rejected, cache, restarts>>
  BY DEF CreateProposal
<1>3. at[n] \in 1 .. Len(chain)
  BY DEF Inv, TypeOK
<1>4. chain[at[n]].initialized => chain[at[n]].ref <= ref
  BY <1>1, <1>3, ScriptsAssumption DEF Inv, ChainInv, StateInv
<1>. DEFINE r == Ask(n, "author", at[n], ref)
<1>5. /\ r \in Requests
      /\ r.kind = "author" /\ r.parent = at[n] /\ r.ref = ref
      /\ r.status = "missed" => chain[at[n]].initialized /\ chain[at[n]].scripts # None
      /\ r.status = "answered" => r.amount = Expected(chain[at[n]], ref)
  BY <1>3, <1>4, AskAnswers
<1>. HIDE DEF r
<1>6. request' = [request EXCEPT ![n] = r] /\ request'[n] = r
  BY <1>1 DEF r, Inv, TypeOK
<1>7. TypeOK'
  BY <1>2, <1>5, <1>6 DEF Inv, TypeOK, LatestStable
<1>8. RequestsInv'
  <2>. SUFFICES ASSUME NEW m \in Nodes, request'[m] # None PROVE RequestInv(m)'
    BY DEF RequestsInv
  <2>1. CASE m = n
    BY <2>1, <1>2, <1>3, <1>4, <1>5, <1>6 DEF RequestInv, Expected, LatestStable
  <2>2. CASE m # n
    BY <2>2, <1>2, <1>6, SameChains DEF Inv, TypeOK
  <2>. QED
    BY <2>1, <2>2
<1>. QED
  BY <1>2, <1>7, <1>8, SameChains DEF Inv, CacheIsCurrent, VerifiersAgree

LEMMA CreateVerificationInv ==
  ASSUME Inv, NEW n \in Nodes, CreateVerification(n)
  PROVE  Inv'
<1>. DEFINE ref == chain[at[n] + 1].ref
            r == Ask(n, "verify", at[n], ref)
<1>1. /\ request' = [request EXCEPT ![n] = r]
      /\ at[n] < Len(chain)
      /\ UNCHANGED <<mcTip, locked, other, chain, at, rejected, cache, restarts>>
  BY DEF CreateVerification
<1>2. at[n] \in 1 .. Len(chain) /\ at[n] + 1 \in 2 .. Len(chain) /\ (at[n] + 1) - 1 = at[n]
  BY <1>1, ChainFacts DEF Inv, TypeOK
<1>3. LinkInv(chain[at[n]], chain[at[n] + 1])
  BY <1>2 DEF Inv, ChainInv
<1>4. ref \in 0 .. LatestStable /\ (chain[at[n]].initialized => chain[at[n]].ref <= ref)
  BY <1>3 DEF LinkInv
<1>5. /\ r \in Requests
      /\ r.kind = "verify" /\ r.parent = at[n] /\ r.ref = ref
      /\ r.status = "missed" => chain[at[n]].initialized /\ chain[at[n]].scripts # None
      /\ r.status = "answered" => r.amount = Expected(chain[at[n]], ref)
  BY <1>2, <1>4, AskAnswers
<1>. HIDE DEF r
<1>6. request'[n] = r
  BY <1>1 DEF Inv, TypeOK
<1>7. TypeOK'
  BY <1>1, <1>5 DEF Inv, TypeOK, LatestStable
<1>8. RequestsInv'
  <2>. SUFFICES ASSUME NEW m \in Nodes, request'[m] # None PROVE RequestInv(m)'
    BY DEF RequestsInv
  <2>1. CASE m = n
    BY <2>1, <1>1, <1>2, <1>4, <1>5, <1>6 DEF RequestInv, Expected, LatestStable
  <2>2. CASE m # n
    BY <2>2, <1>1, SameChains DEF Inv, TypeOK
  <2>. QED
    BY <2>1, <2>2
<1>. QED
  BY <1>1, <1>7, <1>8, SameChains DEF Inv, CacheIsCurrent, VerifiersAgree

LEMMA FetchInv ==
  ASSUME Inv, NEW n \in Nodes, Fetch(n)
  PROVE  Inv'
<1>. USE ConstantsAssumption, ScriptsAssumption
<1>. DEFINE parent == chain[request[n].parent]
            from == AfterBlock(parent)
            to == request[n].ref
            sum == RowsSum(parent.scripts, from, to)
            filled == [from |-> from, to |-> CacheTo(from, to), scripts |-> parent.scripts]
<1>1. /\ request[n] # None /\ request[n].status = "missed"
      /\ request' = [request EXCEPT ![n].status = "answered", ![n].amount = sum]
      /\ cache' = [cache EXCEPT ![n] = filled]
      /\ UNCHANGED <<mcTip, locked, other, chain, at, rejected, restarts>>
  BY DEF Fetch
<1>2. RequestInv(n) /\ request[n] \in Requests
  BY <1>1 DEF Inv, RequestsInv, TypeOK
<1>3. /\ request[n].parent \in 1 .. Len(chain) /\ to \in 0 .. LatestStable
      /\ parent.initialized /\ parent.scripts # None /\ parent.ref <= to
  BY <1>1, <1>2 DEF RequestInv
<1>4. parent \in States /\ StateInv(parent)
  BY <1>3, ChainFacts DEF Inv, ChainInv
<1>5. /\ from = parent.ref /\ from \in 0 .. LatestStable
      /\ parent.scripts \in Scripts
      /\ from \in Nat /\ to \in Nat /\ LatestStable \in Nat
  BY <1>3, <1>4, StableBlocks DEF AfterBlock, StateInv, Inv, TypeOK
<1>6. CacheTo(from, to) \in Nat /\ from <= CacheTo(from, to) /\ CacheTo(from, to) <= LatestStable
  <2>. HIDE DEF from, to
  <2>. QED
    BY <1>5, <1>3 DEF CacheTo
<1>7. sum = Expected(parent, to) /\ sum \in Nat
  BY <1>3, <1>4, <1>5, RowsAreExpected, ExpectedNat DEF Inv
<1>8. chain[Len(chain)].scripts = parent.scripts
  BY <1>3 DEF Inv, ChainInv
<1>9. filled \in Caches
  BY <1>5, <1>6 DEF Caches
<1>. HIDE DEF from, to, sum
<1>. DEFINE r == [request[n] EXCEPT !.status = "answered", !.amount = sum]
<1>10. /\ r \in Requests
       /\ r.kind = request[n].kind /\ r.parent = request[n].parent /\ r.ref = request[n].ref
       /\ r.status = "answered" /\ r.amount = sum
  BY <1>2, <1>7 DEF Requests
<1>11. request' = [request EXCEPT ![n] = r] /\ request'[n] = r
  BY <1>1 DEF Inv, TypeOK
<1>. HIDE DEF r
<1>12. TypeOK'
  BY <1>1, <1>9, <1>10, <1>11 DEF Inv, TypeOK, LatestStable
<1>13. RequestsInv'
  <2>. SUFFICES ASSUME NEW m \in Nodes, request'[m] # None PROVE RequestInv(m)'
    BY DEF RequestsInv
  <2>1. CASE m = n
    <3>1. /\ chain'[request'[n].parent] = parent /\ request'[n].ref = to
          /\ locked' = locked
      BY <1>1, <1>10, <1>11 DEF to
    <3>2. Expected(chain[request[n].parent], request[n].ref)' = Expected(parent, to)
      BY <3>1 DEF Expected
    <3>. QED
      BY <2>1, <3>2, <1>1, <1>2, <1>7, <1>10, <1>11, SMTT(30) DEF RequestInv, LatestStable
  <2>2. CASE m # n
    BY <2>2, <1>1, <1>11, SameChains DEF Inv, TypeOK
  <2>. QED
    BY <2>1, <2>2
<1>14. CacheIsCurrent'
  <2>. SUFFICES ASSUME NEW m \in Nodes, cache'[m] # None
                PROVE  /\ cache'[m].from <= cache'[m].to
                       /\ cache'[m].to <= LatestStable
                       /\ cache'[m].scripts = chain[Len(chain)].scripts
    BY <1>1, SameChains DEF CacheIsCurrent
  <2>1. CASE m = n
    BY <2>1, <1>1, <1>6, <1>8 DEF Inv, TypeOK
  <2>2. CASE m # n
    BY <2>2, <1>1 DEF Inv, TypeOK, CacheIsCurrent
  <2>. QED
    BY <2>1, <2>2
<1>. QED
  BY <1>1, <1>12, <1>13, <1>14, SameChains DEF Inv, VerifiersAgree

LEMMA VerifyBlockInv ==
  ASSUME Inv, NEW n \in Nodes, VerifyBlock(n)
  PROVE  Inv'
<1>1. /\ request[n] # None /\ request[n].kind = "verify" /\ request[n].status = "answered"
      /\ request' = [request EXCEPT ![n] = None]
      /\ UNCHANGED <<mcTip, locked, other, chain, cache, restarts>>
  BY DEF VerifyBlock
<1>2. /\ at[n] < Len(chain) /\ request[n].parent = at[n]
      /\ request[n].ref = chain[at[n] + 1].ref
      /\ request[n].amount = Expected(chain[at[n]], chain[at[n] + 1].ref)
  BY <1>1 DEF Inv, RequestsInv, RequestInv
<1>3. at[n] \in 1 .. Len(chain) /\ at[n] + 1 \in 2 .. Len(chain) /\ (at[n] + 1) - 1 = at[n]
      /\ at[n] + 1 \in 1 .. Len(chain)
  BY <1>2, ChainFacts DEF Inv, TypeOK
<1>4. chain[at[n] + 1].transfer = request[n].amount
  BY <1>2, <1>3 DEF Inv, ChainInv, LinkInv
<1>5. chain[at[n] + 1].transfer \in Nat
  BY <1>3, ChainFacts, StateFields DEF Inv
<1>6. CheckInherents(chain[at[n] + 1].transfer, request[n].amount)
  BY <1>4, <1>5 DEF CheckInherents
<1>7. at' = [at EXCEPT ![n] = @ + 1] /\ UNCHANGED rejected
  BY <1>6 DEF VerifyBlock
<1>8. TypeOK'
  BY <1>1, <1>3, <1>7 DEF Inv, TypeOK, LatestStable
<1>9. RequestsInv'
  <2>. SUFFICES ASSUME NEW m \in Nodes, request'[m] # None PROVE RequestInv(m)'
    BY DEF RequestsInv
  <2>1. m # n /\ request'[m] = request[m] /\ at'[m] = at[m]
    BY <1>1, <1>7 DEF Inv, TypeOK
  <2>. QED
    BY <2>1, <1>1, SameChains
<1>. QED
  BY <1>1, <1>7, <1>8, <1>9, SameChains DEF Inv, CacheIsCurrent, VerifiersAgree

LEMMA RestartInv ==
  ASSUME Inv, NEW n \in Nodes, Restart(n)
  PROVE  Inv'
<1>. USE ConstantsAssumption
<1>1. TypeOK'
  BY DEF Restart, Inv, TypeOK, LatestStable
<1>2. RequestsInv'
  <2>. SUFFICES ASSUME NEW m \in Nodes, request'[m] # None PROVE RequestInv(m)'
    BY DEF RequestsInv
  <2>1. request'[m] = request[m] /\ at'[m] = at[m]
    BY DEF Restart, Inv, TypeOK
  <2>. QED
    BY <2>1, SameChains DEF Restart
<1>3. CacheIsCurrent'
  <2>1. \A m \in Nodes : cache'[m] # None => cache'[m] = cache[m]
    BY DEF Restart, Inv, TypeOK
  <2>. QED
    BY <2>1, SameChains DEF Restart, Inv, CacheIsCurrent
<1>. QED
  BY <1>1, <1>2, <1>3, SameChains DEF Restart, Inv, VerifiersAgree

\* The state the new block leaves, before root changes anything.
LEMMA TransferTokensFacts ==
  ASSUME Inv, NEW parent \in States, StateInv(parent), NEW ref \in 0 .. LatestStable,
         parent.initialized => parent.ref <= ref,
         NEW state, state = TransferTokens([parent EXCEPT !.ref = ref], Expected(parent, ref))
  PROVE  /\ state \in States
         /\ StateInv(state)
         /\ LinkInv(parent, state)
         /\ state.scripts = parent.scripts /\ state.ref = ref
<1>. USE ConstantsAssumption, ScriptsAssumption
<1>. DEFINE a == Expected(parent, ref)
<1>1. a \in Nat
  BY ExpectedNat DEF Inv
<1>. HIDE DEF a
<1>2. /\ parent.ref \in Nat \cup {None}
      /\ parent.scripts \in Scripts \cup {None}
      /\ parent.initialized \in BOOLEAN
      /\ parent.handled \in Nat
      /\ ref \in Nat
  BY StateFields, StableBlocks DEF Inv
<1>. DEFINE moved == [parent EXCEPT !.ref = ref]
<1>3. /\ moved \in States /\ moved.ref = ref /\ moved.scripts = parent.scripts
      /\ moved.initialized = parent.initialized /\ moved.handled = parent.handled
  BY <1>2 DEF States
<1>. HIDE DEF moved
<1>4. /\ state \in States
      /\ state.ref = ref /\ state.scripts = parent.scripts
      /\ state.transfer = a /\ state.handled = parent.handled + a
      /\ a > 0 => state.initialized
      /\ a = 0 => (state.initialized <=> parent.initialized)
  <2>1. state = TransferTokens(moved, a)
    BY DEF moved, a
  <2>2. CASE a > 0
    <3>1. state = [moved EXCEPT !.initialized = TRUE, !.transfer = a, !.handled = @ + a]
      BY <2>1, <2>2 DEF TransferTokens
    <3>2. state \in States
      <4>. DEFINE sum == moved.handled + a
      <4>1. sum \in Nat
        BY <1>1, <1>2, <1>3
      <4>2. state = [moved EXCEPT !.initialized = TRUE, !.transfer = a, !.handled = sum]
        BY <3>1
      <4>. HIDE DEF sum
      <4>. QED
        BY <4>1, <4>2, <1>1, <1>3 DEF States
    <3>3. state.ref = ref /\ state.scripts = parent.scripts /\ state.transfer = a /\ state.initialized
      BY <3>1, <1>3 DEF States
    <3>4. state.handled = parent.handled + a
      BY <3>1, <1>3 DEF States
    <3>. QED
      BY <3>2, <3>3, <3>4, <2>2
  <2>3. CASE a = 0
    <3>1. state = [moved EXCEPT !.transfer = 0]
      BY <2>1, <2>3 DEF TransferTokens
    <3>. QED
      BY <3>1, <1>1, <1>2, <1>3, <2>3 DEF States
  <2>. QED
    BY <2>2, <2>3, <1>1
<1>5. StateInv(state) /\ (~state.initialized /\ parent.scripts # None =>
                             locked[ref][parent.scripts] = 0)
  <2>1. CASE parent.scripts = None
    <3>1. a = 0 /\ ~parent.initialized /\ parent.handled = 0
      BY <2>1 DEF a, Expected, StateInv
    <3>. QED
      BY <2>1, <3>1, <1>4 DEF StateInv
  <2>2. CASE parent.scripts # None /\ ~parent.initialized
    <3>1. a = locked[ref][parent.scripts] /\ parent.handled = 0
      BY <2>2 DEF a, Expected, StateInv
    <3>. QED
      BY <2>2, <3>1, <1>1, <1>2, <1>4 DEF StateInv
  <2>3. CASE parent.scripts # None /\ parent.initialized
    <3>1. /\ a = locked[ref][parent.scripts] - locked[parent.ref][parent.scripts]
          /\ parent.handled = locked[parent.ref][parent.scripts]
      BY <2>3 DEF a, Expected, StateInv
    <3>2. parent.scripts \in Scripts /\ ref \in 0 .. mcTip
      BY <2>3, <1>2, StableBlocks DEF Inv
    <3>3. locked[ref][parent.scripts] \in Nat
      BY <3>2 DEF Inv, TypeOK
    <3>. QED
      BY <2>3, <3>1, <3>2, <3>3, <1>1, <1>2, <1>4 DEF StateInv
  <2>. QED
    BY <2>1, <2>2, <2>3, <1>2
<1>6. LinkInv(parent, state)
  BY <1>4, <1>5 DEF LinkInv, a
<1>. QED
  BY <1>4, <1>5, <1>6

LEMMA BuildBlockInv ==
  ASSUME Inv, OneTokenOnly, NEW n \in Nodes, BuildBlock(n)
  PROVE  Inv'
<1>. USE ConstantsAssumption, ScriptsAssumption
<1>1. /\ request[n] # None /\ request[n].kind = "author" /\ request[n].status = "answered"
      /\ request' = [request EXCEPT ![n] = None]
      /\ UNCHANGED <<mcTip, locked, other, rejected, cache, restarts>>
  BY DEF BuildBlock
<1>2. CASE request[n].parent # Len(chain)
  <2>1. UNCHANGED <<chain, at>>
    BY <1>2 DEF BuildBlock
  <2>2. TypeOK'
    BY <1>1, <2>1 DEF Inv, TypeOK, LatestStable
  <2>3. RequestsInv'
    <3>. SUFFICES ASSUME NEW m \in Nodes, request'[m] # None PROVE RequestInv(m)'
      BY DEF RequestsInv
    <3>1. request'[m] = request[m] /\ at'[m] = at[m]
      BY <1>1, <2>1 DEF Inv, TypeOK
    <3>. QED
      BY <3>1, <1>1, <2>1, SameChains
  <2>. QED
    BY <1>1, <2>1, <2>2, <2>3, SameChains DEF Inv, CacheIsCurrent, VerifiersAgree
<1>3. CASE request[n].parent = Len(chain)
  <2>. DEFINE len == Len(chain)
              parent == chain[len]
              ref == request[n].ref
              made == TransferTokens([parent EXCEPT !.ref = ref], request[n].amount)
  <2>1. PICK state \in SetMainChainScripts(made) :
          chain' = Append(chain, state) /\ at' = [at EXCEPT ![n] = @ + 1]
    BY <1>3 DEF BuildBlock
  <2>2. /\ ref \in 0 .. LatestStable
        /\ parent.initialized => parent.ref <= ref
        /\ request[n].amount = Expected(parent, ref)
    BY <1>1, <1>3 DEF Inv, RequestsInv, RequestInv
  <2>3. len \in Nat /\ len > 0 /\ len \in 1 .. len /\ parent \in States /\ StateInv(parent)
    BY ChainFacts DEF Inv, ChainInv
  <2>4. /\ made \in States /\ StateInv(made) /\ LinkInv(parent, made)
        /\ made.scripts = parent.scripts /\ made.ref = ref
    BY <2>2, <2>3, TransferTokensFacts
  <2>. HIDE DEF made, parent, ref
  <2>5. state \in States /\ StateInv(state) /\ LinkInv(parent, state)
        /\ (parent.scripts # None => state.scripts = parent.scripts)
    <3>1. CASE state = made
      BY <3>1, <2>4
    <3>2. CASE state # made
      <4>1. PICK s \in Scripts : made.scripts = None /\ state = [made EXCEPT !.scripts = s]
        BY <3>2, <2>1 DEF SetMainChainScripts, OneTokenOnly
      <4>2. /\ state.ref = made.ref /\ state.initialized = made.initialized
            /\ state.transfer = made.transfer /\ state.handled = made.handled
            /\ state \in States
        BY <4>1, <2>4 DEF States
      <4>3. ~made.initialized /\ parent.scripts = None
        BY <2>4, <4>1 DEF StateInv
      <4>. QED
        BY <2>4, <4>2, <4>3 DEF StateInv, LinkInv
    <3>. QED
      BY <3>1, <3>2
  <2>6. chain \in Seq(States)
    BY DEF Inv, TypeOK
  <2>7. /\ chain' \in Seq(States) /\ chain' # <<>>
        /\ Len(chain') = len + 1 /\ chain'[len + 1] = state
        /\ \A i \in 1 .. len : chain'[i] = chain[i]
    BY <2>1, <2>5, <2>6, SeqAppend
  <2>. HIDE DEF len
  <2>8. at' \in [Nodes -> 1 .. Len(chain')]
    <3>1. \A m \in Nodes : at[m] \in 1 .. len
      BY DEF Inv, TypeOK, len
    <3>. QED
      BY <2>1, <2>3, <2>7, <3>1 DEF Inv, TypeOK
  <2>9. TypeOK'
    BY <1>1, <2>7, <2>8 DEF Inv, TypeOK, LatestStable
  <2>10. LatestStable' = LatestStable /\ LedgerInv'
    BY <1>1 DEF LatestStable, Inv, LedgerInv
  <2>12. \A i \in 1 .. len + 1 : StateInv(chain'[i])
    BY <2>3, <2>5, <2>7 DEF Inv, ChainInv, len
  <2>13. \A i \in 2 .. len + 1 : LinkInv(chain'[i - 1], chain'[i])
    <3>. SUFFICES ASSUME NEW i \in 2 .. len + 1 PROVE LinkInv(chain'[i - 1], chain'[i])
      OBVIOUS
    <3>1. CASE i \in 2 .. len
      <4>1. i - 1 \in 1 .. len /\ i \in 1 .. len
        BY <2>3, <3>1
      <4>2. chain'[i - 1] = chain[i - 1] /\ chain'[i] = chain[i]
        BY <2>7, <4>1
      <4>. QED
        BY <3>1, <4>2 DEF Inv, ChainInv, len
    <3>2. CASE i = len + 1
      <4>1. chain'[i] = state /\ chain'[i - 1] = parent
        BY <2>3, <2>7, <3>2 DEF parent
      <4>. QED
        BY <2>5, <4>1
    <3>. QED
      BY <2>3, <3>1, <3>2
  <2>14. \A i \in 1 .. len + 1 :
           chain'[i].scripts # None => chain'[len + 1].scripts = chain'[i].scripts
    <3>1. \A i \in 1 .. len : chain[i].scripts # None => parent.scripts = chain[i].scripts
      BY DEF Inv, ChainInv, parent, len
    <3>. QED
      BY <2>3, <2>5, <2>7, <3>1
  <2>15. ChainInv'
    BY <1>1, <2>7, <2>10, <2>12, <2>13, <2>14 DEF ChainInv, StateInv, LinkInv, Expected
  <2>16. RequestsInv'
    <3>. SUFFICES ASSUME NEW m \in Nodes, request'[m] # None PROVE RequestInv(m)'
      BY DEF RequestsInv
    <3>1. request'[m] = request[m] /\ at'[m] = at[m] /\ RequestInv(m)
      BY <1>1, <2>1 DEF Inv, TypeOK, RequestsInv
    <3>2. request[m].parent \in 1 .. len /\ chain'[request[m].parent] = chain[request[m].parent]
      BY <3>1, <2>7 DEF RequestInv, len
    <3>3. request[m].kind = "verify" =>
            at[m] < len /\ chain'[at[m] + 1] = chain[at[m] + 1]
      <4>1. at[m] \in 1 .. len
        BY DEF Inv, TypeOK, len
      <4>. QED
        BY <2>3, <2>7, <3>1, <4>1 DEF RequestInv, len
    <3>4. Expected(chain[request[m].parent], request[m].ref)'
            = Expected(chain[request[m].parent], request[m].ref)
      <4>1. /\ chain'[request'[m].parent] = chain[request[m].parent]
            /\ request'[m].ref = request[m].ref /\ locked' = locked
        BY <1>1, <3>1, <3>2
      <4>. QED
        BY <4>1 DEF Expected
    <3>5. request[m].kind = "verify" => at[m] < len + 1
      BY <2>3, <3>3 DEF Inv, TypeOK
    <3>6. request'[m].parent \in 1 .. Len(chain')
      BY <2>3, <2>7, <3>1, <3>2, SMTT(30)
    <3>7. request[m].kind = "verify" =>
            /\ request[m].parent = at'[m]
            /\ at'[m] < Len(chain')
            /\ request[m].ref = chain'[at'[m] + 1].ref
      <4>1. request[m].kind = "verify" =>
              request[m].parent = at[m] /\ request[m].ref = chain[at[m] + 1].ref
        BY <3>1 DEF RequestInv
      <4>. QED
        BY <2>7, <3>1, <3>3, <3>5, <4>1
    <3>. QED
      BY <2>10, <3>1, <3>2, <3>4, <3>6, <3>7 DEF RequestInv
  <2>17. CacheIsCurrent'
    <3>1. \A m \in Nodes : cache[m] # None => cache[m].scripts \in Scripts
      BY DEF Inv, TypeOK, Caches
    <3>2. \A m \in Nodes : cache[m] # None => cache[m].scripts = parent.scripts
      BY DEF Inv, CacheIsCurrent, parent, len
    <3>3. \A m \in Nodes : cache[m] # None => cache[m].scripts = chain'[Len(chain')].scripts
      BY <2>5, <2>7, <3>1, <3>2
    <3>. QED
      BY <1>1, <2>10, <3>3 DEF Inv, CacheIsCurrent
  <2>. QED
    BY <1>1, <2>9, <2>10, <2>15, <2>16, <2>17 DEF Inv, VerifiersAgree
<1>. QED
  BY <1>2, <1>3

\* The invariant holds in every reachable state.
THEOREM InvAlways ==
  ASSUME OneTokenOnly
  PROVE  Spec => []Inv
<1>1. Init => Inv
  BY InitInv
<1>2. Inv /\ [Next]_vars => Inv'
  <2>. SUFFICES ASSUME Inv, [Next]_vars PROVE Inv'
    OBVIOUS
  <2>1. CASE MainChainBlock
    BY <2>1, MainChainBlockInv
  <2>2. ASSUME NEW n \in Nodes, CreateProposal(n) PROVE Inv'
    BY <2>2, CreateProposalInv
  <2>3. ASSUME NEW n \in Nodes, NodeStep(n) PROVE Inv'
    BY <2>3, CreateVerificationInv, FetchInv, BuildBlockInv, VerifyBlockInv DEF NodeStep
  <2>4. ASSUME NEW n \in Nodes, Restart(n) PROVE Inv'
    BY <2>4, RestartInv
  <2>5. CASE UNCHANGED vars
    <3>1. UNCHANGED <<mcTip, locked, other, chain, at, rejected, cache, request, restarts>>
      BY <2>5 DEF vars
    <3>2. TypeOK'
      BY <3>1 DEF Inv, TypeOK, LatestStable
    <3>3. RequestsInv'
      BY <3>1, SameChains DEF RequestsInv
    <3>. QED
      BY <3>1, <3>2, <3>3, SameChains DEF Inv, CacheIsCurrent, VerifiersAgree
  <2>. QED
    BY <2>1, <2>2, <2>3, <2>4, <2>5 DEF Next
<1>. QED
  BY <1>1, <1>2, PTL DEF Spec

\* Transfers are conserved: neither lost nor handled twice.
THEOREM TransfersConserved ==
  ASSUME OneTokenOnly
  PROVE  Spec => []HandledIsLocked
<1>1. Inv => HandledIsLocked
  <2>. SUFFICES ASSUME Inv, NEW i \in DOMAIN chain
                PROVE  /\ chain[i].initialized =>
                            /\ chain[i].scripts # None /\ chain[i].ref # None
                            /\ chain[i].handled = locked[chain[i].ref][chain[i].scripts]
                       /\ ~chain[i].initialized => chain[i].handled = 0
                       /\ i > 1 /\ ~chain[i].initialized /\ chain[i - 1].scripts # None =>
                            locked[chain[i].ref][chain[i].scripts] = 0
    BY DEF HandledIsLocked
  <2>1. i \in 1 .. Len(chain) /\ Len(chain) \in Nat
    BY SeqFacts DEF Inv, TypeOK
  <2>2. StateInv(chain[i])
    BY <2>1 DEF Inv, ChainInv
  <2>3. i > 1 => LinkInv(chain[i - 1], chain[i])
    BY <2>1 DEF Inv, ChainInv
  <2>4. chain[i].initialized => chain[i].scripts # None /\ chain[i].ref # None
    BY <2>2, StableBlocks, ScriptsAssumption DEF StateInv, Inv
  <2>. QED
    BY <2>2, <2>3, <2>4 DEF StateInv, LinkInv
<1>. QED
  BY <1>1, InvAlways, PTL

\* No node refuses a block because of its native token inherent.
THEOREM NodesAgree ==
  ASSUME OneTokenOnly
  PROVE  Spec => []VerifiersAgree
BY InvAlways, PTL DEF Inv

\* Caches hold stable blocks and the token in use.
THEOREM CachesCurrent ==
  ASSUME OneTokenOnly
  PROVE  Spec => []CacheIsCurrent
BY InvAlways, PTL DEF Inv

=============================================================================
