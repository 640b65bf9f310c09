---------------------- MODULE CommitteeRotationProofs ----------------------
(***************************************************************************)
(* Proofs about CommitteeRotation, for every number of slots per epoch,    *)
(* every bound on slots, every set of authorities and every selection      *)
(* function.                                                               *)
(*                                                                         *)
(* The invariants the runs check speak of the state between blocks; to be  *)
(* inductive they are extended to every phase of a block.  The parts of    *)
(* the inductive invariant are named after what they relate.               *)
(***************************************************************************)
EXTENDS CommitteeRotation, FiniteSetTheorems, TLAPS

Early == {"idle", "sidechain", "committee", "session"}
Late == {"set", "beneficiary", "extrinsics"}

\* The saved epoch is the slot's except before Sidechain's hook has run, and
\* the histories never mention a later epoch.
ClockInv ==
  /\ chain = <<>> /\ phase \in {"idle", "sidechain"} =>
       epochNumber = None /\ payouts = {}
  /\ chain # <<>> \/ phase \notin {"idle", "sidechain"} =>
       epochNumber \in Nat /\ epochNumber <= EpochOfSlot
  /\ epochNumber # None /\ phase # "sidechain" => epochNumber = EpochOfSlot
  /\ \A i \in DOMAIN chain : chain[i].epoch <= epochNumber
  /\ chain # <<>> => chain[Len(chain)].epoch = epochNumber
                       \/ phase \notin {"idle", "sidechain"}
  /\ \A p \in payouts : p.epoch < epochNumber

\* Epoch of the first block of the chain or, in block 1, of that block.
FirstEpoch == IF chain = <<>> THEN EpochOfSlot ELSE chain[1].epoch

\* The committee in office, the session and Aura agree in every phase.
OfficeInv ==
  /\ validators = currentCommittee.committee
  /\ validators # <<>> => auraAuthorities = validators
  /\ stubIndex = currentIndex
  /\ Dated => currentIndex = currentCommittee.epoch - FirstEpoch
  /\ chain = <<>> => currentIndex = 0

\* When NextCommittee is there: from each `set' to the next rotation.
AnnouncedInv ==
  /\ chain = <<>> /\ phase \in Early => nextCommittee = None
  /\ chain # <<>> /\ phase \in Early => nextCommittee # None
  /\ phase \in {"beneficiary", "extrinsics"} => nextCommittee # None
  /\ chain # <<>> /\ phase \in Early =>
       currentCommittee.epoch <= chain[Len(chain)].epoch

\* How the block under construction relates to the state of its parent.
ParentInv ==
  /\ phase # "idle" => inherentData \in Inputs
  /\ phase # "idle" => (parent.next = None <=> chain = <<>>)
  /\ phase \in Early \ {"idle"} =>
       /\ nextCommittee = parent.next
       /\ currentCommittee.committee = parent.current.committee
  /\ phase = "set" =>
       \/ /\ nextCommittee = parent.next
          /\ currentCommittee.committee = parent.current.committee
       \/ /\ parent.next # None
          /\ nextCommittee = None
          /\ currentCommittee = parent.next

Inv1 == /\ TypeOK /\ CommitteeEpochs /\ ClockInv /\ OfficeInv /\ AnnouncedInv
        /\ ParentInv /\ BlocksPassVerification

-----------------------------------------------------------------------------
(* Epochs of slots.                                                        *)

\* An epoch number is a natural number, not above the slot it is computed of,
\* and grows with the slot (current_epoch_number divides by SlotsPerEpoch).
LEMMA EpochFacts ==
  /\ \A s \in Nat : s \div SlotsPerEpoch \in Nat /\ s \div SlotsPerEpoch <= s
  /\ \A s, t \in Nat : s <= t => s \div SlotsPerEpoch <= t \div SlotsPerEpoch
  BY ConstantsAssumption, Z3

\* EpochOfSlot is a natural number not above MaxSlot.
LEMMA EpochBound ==
  ASSUME TypeOK
  PROVE  EpochOfSlot \in Nat /\ EpochOfSlot <= MaxSlot
<1>1. slot \in Nat /\ slot <= MaxSlot
  BY ConstantsAssumption DEF TypeOK
<1>2. QED
  BY <1>1, EpochFacts, ConstantsAssumption DEF EpochOfSlot

\* How many epochs lie between two epochs, both counted.
LEMMA EpochInterval ==
  ASSUME NEW a \in Nat, NEW b \in Nat, a <= b
  PROVE  IsFiniteSet(a .. b) /\ Cardinality(a .. b) = b - a + 1
<1>1. a \in Int /\ b \in Int /\ ~(a > b)
  OBVIOUS
<1>2. QED
  BY <1>1, FS_Interval

\* A new block is in the epoch of its parent or in a later one.
LEMMA StartBlockEpoch ==
  ASSUME TypeOK, StartBlock
  PROVE  EpochOfSlot <= EpochOfSlot' /\ EpochOfSlot \in Nat /\ EpochOfSlot' \in Nat
<1>1. slot \in Nat /\ slot' \in Nat /\ slot <= slot'
  BY ConstantsAssumption DEF TypeOK, StartBlock
<1>2. QED
  BY <1>1, EpochFacts DEF EpochOfSlot

\* The committee a `set' carries is a committee, whatever the selection says.
LEMMA CalculateCommitteeType ==
  ASSUME NEW input \in Inputs, NEW e \in 0 .. MaxSlot + 1, NEW c \in Committees
  PROVE  CalculateCommittee(input, e, c) \in Committees
  BY SelectionAssumption DEF CalculateCommittee

-----------------------------------------------------------------------------
(* The chain as a sequence.                                                *)

\* Positions and elements of a sequence.
LEMMA SeqFacts ==
  ASSUME NEW S, NEW q \in Seq(S)
  PROVE  /\ Len(q) \in Nat
         /\ DOMAIN q = 1 .. Len(q)
         /\ q = <<>> <=> Len(q) = 0
         /\ \A i \in 1 .. Len(q) : q[i] \in S
  OBVIOUS

\* What appending does to a sequence.
LEMMA AppendFacts ==
  ASSUME NEW S, NEW q \in Seq(S), NEW x \in S
  PROVE  /\ Append(q, x) \in Seq(S)
         /\ Append(q, x) # <<>>
         /\ Len(Append(q, x)) = Len(q) + 1
         /\ DOMAIN Append(q, x) = 1 .. Len(q) + 1
         /\ \A i \in 1 .. Len(q) : Append(q, x)[i] = q[i]
         /\ Append(q, x)[Len(q) + 1] = x
  OBVIOUS

\* The blocks of the chain, and when it is empty.
LEMMA ChainFacts ==
  ASSUME TypeOK
  PROVE  /\ Len(chain) \in Nat
         /\ DOMAIN chain = 1 .. Len(chain)
         /\ chain = <<>> <=> Len(chain) = 0
         /\ \A i \in 1 .. Len(chain) :
              chain[i].epoch \in Nat /\ chain[i].session \in Nat
<1>1. chain \in Seq(Blocks)
  BY DEF TypeOK
<1>2. \A i \in 1 .. Len(chain) : chain[i] \in Blocks
  BY <1>1, SeqFacts
<1>3. QED
  BY <1>1, <1>2, SeqFacts DEF Blocks

\* on_finalize adds one block to the chain and keeps the others.
LEMMA AppendBlock ==
  ASSUME TypeOK, OnFinalize, epochNumber \in Nat
  PROVE  /\ chain' \in Seq(Blocks)
         /\ chain' # <<>>
         /\ Len(chain') = Len(chain) + 1
         /\ DOMAIN chain' = 1 .. Len(chain) + 1
         /\ \A i \in 1 .. Len(chain) : chain'[i] = chain[i]
         /\ chain'[Len(chain) + 1] =
              [slot |-> slot, epoch |-> epochNumber,
               beneficiary |-> beneficiary, session |-> currentIndex]
<1>1. [slot |-> slot, epoch |-> epochNumber, beneficiary |-> beneficiary,
       session |-> currentIndex] \in Blocks
  BY ConstantsAssumption DEF TypeOK, OnFinalize, Blocks
<1>2. chain \in Seq(Blocks)
  BY DEF TypeOK
<1>3. QED
  BY <1>1, <1>2, AppendFacts DEF OnFinalize

-----------------------------------------------------------------------------
(* The invariant is inductive.                                             *)

\* Without a NextCommittee, create_inherent returns a well-formed call for the
\* epoch after the one in office.
LEMMA CreateInherentCall ==
  ASSUME Inv1, phase = "set", nextCommittee = None
  PROVE  CreateInherent \in SetCalls
<1>1. currentCommittee.epoch + 1 \in 0 .. MaxSlot + 1
  BY EpochBound, ConstantsAssumption
     DEF Inv1, TypeOK, CommitteeEpochs, Dated, CommitteeInfo
<1>2. inherentData \in Inputs /\ currentCommittee.committee \in Committees
  BY DEF Inv1, ParentInv, TypeOK, CommitteeInfo
<1>3. CalculateCommittee(inherentData, currentCommittee.epoch + 1,
                         currentCommittee.committee) \in Committees
  BY <1>1, <1>2, CalculateCommitteeType
<1>4. QED
  BY <1>1, <1>3 DEF CreateInherent, SetCalls

\* The genesis state satisfies the invariant.
LEMMA Inv1Init == Init => Inv1
<1> SUFFICES ASSUME Init PROVE Inv1
  OBVIOUS
<1> USE ConstantsAssumption, NoneAssumption
<1>1. TypeOK
  BY DEF Init, TypeOK, Phases, CommitteeInfo, NoRewards
<1>2. CommitteeEpochs /\ BlocksPassVerification
  BY DEF Init, CommitteeEpochs, Dated, BlocksPassVerification
<1>3. ClockInv /\ OfficeInv /\ AnnouncedInv /\ ParentInv
  BY DEF Init, ClockInv, OfficeInv, AnnouncedInv, ParentInv, Dated, Early
<1>4. QED
  BY <1>1, <1>2, <1>3 DEF Inv1

\* Every step keeps every storage item in its type.
LEMMA TypeNext ==
  ASSUME Inv1, [Next]_vars
  PROVE  TypeOK'
<1> USE ConstantsAssumption, NoneAssumption DEF Inv1
<1>1. CASE StartBlock
  BY <1>1 DEF StartBlock, TypeOK, Phases, committeeVars, sessionVars,
              rewardVars
<1>2. CASE SidechainOnInitialize
  <2>1. EpochOfSlot \in Nat
    BY EpochBound
  <2>2. payouts' \subseteq [epoch : Nat, rewards : [Beneficiaries -> Nat]]
    BY <1>2 DEF SidechainOnInitialize, TypeOK
  <2>3. pendingRewards' \in [Beneficiaries -> Nat]
    BY <1>2 DEF SidechainOnInitialize, TypeOK, NoRewards
  <2>4. QED
    BY <1>2, <2>1, <2>2, <2>3
       DEF SidechainOnInitialize, TypeOK, Phases, committeeVars, sessionVars,
           blockVars
<1>3. CASE CommitteeOnInitialize
  <2>1. currentCommittee' \in CommitteeInfo
    BY <1>3, EpochBound DEF CommitteeOnInitialize, TypeOK, CommitteeInfo
  <2>2. QED
    BY <1>3, <2>1
       DEF CommitteeOnInitialize, TypeOK, Phases, sessionVars, rewardVars,
           blockVars
<1>4. CASE SessionOnInitialize
  <2>1. CASE ShouldEndSession /\ RotateSession
    BY <1>4, <2>1
       DEF SessionOnInitialize, ShouldEndSession, RotateSession, OnNewSession,
           TypeOK, Phases, CommitteeInfo, rewardVars, blockVars
  <2>2. CASE UNCHANGED <<committeeVars, sessionVars>>
    BY <1>4, <2>2
       DEF SessionOnInitialize, TypeOK, Phases, rewardVars, blockVars,
           committeeVars, sessionVars
  <2>3. QED
    BY <1>4, <2>1, <2>2 DEF SessionOnInitialize
<1>5. CASE ApplySetInherent
  <2>1. setCall' \in SetCalls \cup {None}
    BY <1>5, CreateInherentCall DEF ApplySetInherent, CreateInherent
  <2>2. nextCommittee' \in CommitteeInfo \cup {None}
    BY <1>5, <2>1
       DEF ApplySetInherent, Set, SetCalls, CommitteeInfo, TypeOK
  <2>3. QED
    BY <1>5, <2>1, <2>2
       DEF ApplySetInherent, TypeOK, Phases, sessionVars, rewardVars
<1>6. CASE SetCurrentBlockBeneficiary
  BY <1>6
     DEF SetCurrentBlockBeneficiary, TypeOK, Phases, committeeVars,
         sessionVars, blockVars
<1>7. CASE OnFinalize
  <2>1. epochNumber \in Nat
    BY <1>7 DEF OnFinalize, ClockInv
  <2>2. chain' \in Seq(Blocks)
    BY <1>7, <2>1, AppendBlock
  <2>3. pendingRewards' \in [Beneficiaries -> Nat]
    BY <1>7 DEF OnFinalize, TypeOK
  <2>4. QED
    BY <1>7, <2>2, <2>3
       DEF OnFinalize, TypeOK, Phases, committeeVars, sessionVars, blockVars
<1>8. CASE SetMainChainScripts
  BY <1>8
     DEF SetMainChainScripts, TypeOK, committeeVars, sessionVars, rewardVars,
         blockVars
<1>9. CASE UNCHANGED vars
  BY <1>9
     DEF vars, TypeOK, committeeVars, sessionVars, rewardVars, blockVars
<1>10. QED
  BY <1>1, <1>2, <1>3, <1>4, <1>5, <1>6, <1>7, <1>8, <1>9
     DEF Next, BlockStep, SlotsExhausted

\* The saved epoch and the histories stay in step with the slot.
LEMMA ClockNext ==
  ASSUME Inv1, [Next]_vars
  PROVE  ClockInv'
<1> USE ConstantsAssumption, NoneAssumption DEF Inv1
<1>1. CASE StartBlock
  <2>1. EpochOfSlot <= EpochOfSlot' /\ EpochOfSlot \in Nat /\ EpochOfSlot' \in Nat
    BY <1>1, StartBlockEpoch
  <2>2. QED
    BY <1>1, <2>1, ChainFacts DEF StartBlock, ClockInv, rewardVars
<1>2. CASE SidechainOnInitialize
  <2>1. EpochOfSlot' = EpochOfSlot /\ EpochOfSlot \in Nat
    BY <1>2, EpochBound DEF SidechainOnInitialize, EpochOfSlot
  <2>2. \A p \in payouts' : p.epoch < epochNumber'
    BY <1>2, <2>1 DEF SidechainOnInitialize, ClockInv, TypeOK
  <2>3. \A i \in DOMAIN chain' : chain'[i].epoch <= epochNumber'
    BY <1>2, <2>1, ChainFacts DEF SidechainOnInitialize, ClockInv
  <2>4. QED
    BY <1>2, <2>1, <2>2, <2>3 DEF SidechainOnInitialize, ClockInv
<1>3. CASE CommitteeOnInitialize
  BY <1>3 DEF CommitteeOnInitialize, ClockInv, EpochOfSlot, rewardVars
<1>4. CASE SessionOnInitialize
  BY <1>4 DEF SessionOnInitialize, ClockInv, EpochOfSlot, rewardVars
<1>5. CASE ApplySetInherent
  BY <1>5 DEF ApplySetInherent, ClockInv, EpochOfSlot, rewardVars
<1>6. CASE SetCurrentBlockBeneficiary
  BY <1>6 DEF SetCurrentBlockBeneficiary, ClockInv, EpochOfSlot
<1>7. CASE OnFinalize
  <2>1. epochNumber \in Nat
    BY <1>7 DEF OnFinalize, ClockInv
  <2>2. /\ Len(chain') = Len(chain) + 1
        /\ chain'[Len(chain')].epoch = epochNumber
        /\ \A i \in DOMAIN chain' : chain'[i].epoch <= epochNumber
    BY <1>7, <2>1, ChainFacts, AppendBlock DEF ClockInv
  <2>3. chain' # <<>>
    BY <1>7, <2>1, AppendBlock
  <2>4. QED
    BY <1>7, <2>1, <2>2, <2>3 DEF OnFinalize, ClockInv, EpochOfSlot
<1>8. CASE SetMainChainScripts
  BY <1>8 DEF SetMainChainScripts, ClockInv, EpochOfSlot, rewardVars
<1>9. CASE UNCHANGED vars
  BY <1>9 DEF vars, ClockInv, EpochOfSlot, rewardVars
<1>10. QED
  BY <1>1, <1>2, <1>3, <1>4, <1>5, <1>6, <1>7, <1>8, <1>9
     DEF Next, BlockStep, SlotsExhausted

\* The session and Aura stay in step with the committee in office.
LEMMA OfficeNext ==
  ASSUME Inv1, [Next]_vars
  PROVE  OfficeInv'
<1> USE ConstantsAssumption, NoneAssumption DEF Inv1
<1>1. CASE StartBlock
  BY <1>1 DEF StartBlock, OfficeInv, Dated, FirstEpoch, committeeVars,
              sessionVars
<1>2. CASE SidechainOnInitialize
  BY <1>2 DEF SidechainOnInitialize, OfficeInv, Dated, FirstEpoch,
              EpochOfSlot, committeeVars, sessionVars
<1>3. CASE CommitteeOnInitialize
  <2>1. EpochOfSlot' = EpochOfSlot /\ EpochOfSlot \in Nat
    BY <1>3, EpochBound DEF CommitteeOnInitialize, EpochOfSlot
  <2>2. currentCommittee'.committee = currentCommittee.committee
    BY <1>3 DEF CommitteeOnInitialize, TypeOK, CommitteeInfo
  <2>3. BlockNumber = 1 <=> chain = <<>>
    BY ChainFacts DEF BlockNumber
  <2>4. CASE chain = <<>>
    <3>1. currentCommittee'.epoch = EpochOfSlot
      BY <1>3, <2>3, <2>4 DEF CommitteeOnInitialize, TypeOK, CommitteeInfo
    <3>2. QED
      BY <1>3, <2>1, <2>2, <2>4, <3>1
         DEF CommitteeOnInitialize, OfficeInv, Dated, FirstEpoch, sessionVars
  <2>5. CASE chain # <<>>
    BY <1>3, <2>1, <2>3, <2>5
       DEF CommitteeOnInitialize, OfficeInv, Dated, FirstEpoch, sessionVars
  <2>6. QED
    BY <2>4, <2>5
<1>4. CASE SessionOnInitialize
  <2>1. CASE ShouldEndSession /\ RotateSession
    <3>1. chain # <<>>
      BY <1>4, <2>1
         DEF SessionOnInitialize, ShouldEndSession, AnnouncedInv, Early
    <3>2. nextCommittee.epoch = currentCommittee.epoch + 1
      BY <2>1 DEF ShouldEndSession, CommitteeEpochs
    <3>3. FirstEpoch' = FirstEpoch /\ FirstEpoch \in Nat
      BY <1>4, <3>1, ChainFacts DEF SessionOnInitialize, FirstEpoch
    <3>4. QED
      BY <1>4, <2>1, <3>1, <3>2, <3>3
         DEF SessionOnInitialize, RotateSession, OnNewSession, OfficeInv,
             Dated, TypeOK, CommitteeInfo
  <2>2. CASE UNCHANGED <<committeeVars, sessionVars>>
    BY <1>4, <2>2
       DEF SessionOnInitialize, OfficeInv, Dated, FirstEpoch, EpochOfSlot,
           committeeVars, sessionVars
  <2>3. QED
    BY <1>4, <2>1, <2>2 DEF SessionOnInitialize
<1>5. CASE ApplySetInherent
  BY <1>5 DEF ApplySetInherent, OfficeInv, Dated, FirstEpoch, EpochOfSlot,
              sessionVars
<1>6. CASE SetCurrentBlockBeneficiary
  BY <1>6 DEF SetCurrentBlockBeneficiary, OfficeInv, Dated, FirstEpoch,
              EpochOfSlot, committeeVars, sessionVars
<1>7. CASE OnFinalize
  <2>1. epochNumber \in Nat /\ epochNumber = EpochOfSlot
    BY <1>7 DEF OnFinalize, ClockInv
  <2>2. chain' # <<>> /\ FirstEpoch' = FirstEpoch
    BY <1>7, <2>1, AppendBlock, ChainFacts DEF FirstEpoch
  <2>3. QED
    BY <1>7, <2>1, <2>2
       DEF OnFinalize, OfficeInv, Dated, committeeVars, sessionVars
<1>8. CASE SetMainChainScripts
  BY <1>8 DEF SetMainChainScripts, OfficeInv, Dated, FirstEpoch, EpochOfSlot,
              committeeVars, sessionVars
<1>9. CASE UNCHANGED vars
  BY <1>9 DEF vars, OfficeInv, Dated, FirstEpoch, EpochOfSlot,
              committeeVars, sessionVars
<1>10. QED
  BY <1>1, <1>2, <1>3, <1>4, <1>5, <1>6, <1>7, <1>8, <1>9
     DEF Next, BlockStep, SlotsExhausted

\* NextCommittee is there from each `set' to the next rotation.
LEMMA AnnouncedNext ==
  ASSUME Inv1, [Next]_vars
  PROVE  AnnouncedInv'
<1> USE ConstantsAssumption, NoneAssumption DEF Inv1, Early
<1>1. CASE StartBlock
  BY <1>1 DEF StartBlock, AnnouncedInv, committeeVars
<1>2. CASE SidechainOnInitialize
  BY <1>2 DEF SidechainOnInitialize, AnnouncedInv, committeeVars
<1>3. CASE CommitteeOnInitialize
  <2>1. BlockNumber = 1 <=> chain = <<>>
    BY ChainFacts DEF BlockNumber
  <2>2. QED
    BY <1>3, <2>1 DEF CommitteeOnInitialize, AnnouncedInv
<1>4. CASE SessionOnInitialize
  BY <1>4 DEF SessionOnInitialize, AnnouncedInv
<1>5. CASE ApplySetInherent
  <2>1. CASE nextCommittee # None
    BY <1>5, <2>1
       DEF ApplySetInherent, Set, CreateInherent, AnnouncedInv
  <2>2. CASE nextCommittee = None
    <3>1. setCall' \in SetCalls
      BY <1>5, <2>2, CreateInherentCall DEF ApplySetInherent
    <3>2. setCall' # None
      BY <3>1
    <3>3. nextCommittee' \in CommitteeInfo
      BY <1>5, <3>1, <3>2 DEF ApplySetInherent, Set, SetCalls, CommitteeInfo
    <3>4. QED
      BY <1>5, <3>3 DEF ApplySetInherent, AnnouncedInv
  <2>3. QED
    BY <2>1, <2>2
<1>6. CASE SetCurrentBlockBeneficiary
  BY <1>6 DEF SetCurrentBlockBeneficiary, AnnouncedInv, committeeVars
<1>7. CASE OnFinalize
  <2>1. epochNumber \in Nat /\ epochNumber = EpochOfSlot
    BY <1>7 DEF OnFinalize, ClockInv
  <2>2. chain' # <<>> /\ chain'[Len(chain')].epoch = epochNumber
    BY <1>7, <2>1, AppendBlock
  <2>3. currentCommittee.epoch <= epochNumber
    BY <1>7, <2>1 DEF OnFinalize, CommitteeEpochs, Dated
  <2>4. QED
    BY <1>7, <2>2, <2>3 DEF OnFinalize, AnnouncedInv, committeeVars
<1>8. CASE SetMainChainScripts
  BY <1>8 DEF SetMainChainScripts, AnnouncedInv, committeeVars
<1>9. CASE UNCHANGED vars
  BY <1>9 DEF vars, AnnouncedInv, committeeVars
<1>10. QED
  BY <1>1, <1>2, <1>3, <1>4, <1>5, <1>6, <1>7, <1>8, <1>9
     DEF Next, BlockStep, SlotsExhausted

\* Committees stay dated one epoch apart and not ahead of the slot's epoch.
LEMMA EpochsNext ==
  ASSUME Inv1, [Next]_vars
  PROVE  CommitteeEpochs'
<1> USE ConstantsAssumption, NoneAssumption DEF Inv1
<1>1. CASE StartBlock
  <2>1. EpochOfSlot <= EpochOfSlot' /\ EpochOfSlot \in Nat /\ EpochOfSlot' \in Nat
    BY <1>1, StartBlockEpoch
  <2>2. currentCommittee.epoch \in Nat
    BY DEF TypeOK, CommitteeInfo
  <2>3. QED
    BY <1>1, <2>1, <2>2 DEF StartBlock, CommitteeEpochs, Dated, committeeVars
<1>2. CASE SidechainOnInitialize
  BY <1>2 DEF SidechainOnInitialize, CommitteeEpochs, Dated, EpochOfSlot,
              committeeVars
<1>3. CASE CommitteeOnInitialize
  <2>1. BlockNumber = 1 <=> chain = <<>>
    BY ChainFacts DEF BlockNumber
  <2>2. EpochOfSlot' = EpochOfSlot /\ EpochOfSlot \in Nat
    BY <1>3, EpochBound DEF CommitteeOnInitialize, EpochOfSlot
  <2>3. CASE chain = <<>>
    <3>1. currentCommittee'.epoch = EpochOfSlot
      BY <1>3, <2>1, <2>3 DEF CommitteeOnInitialize, TypeOK, CommitteeInfo
    <3>2. nextCommittee' = None
      BY <1>3, <2>3 DEF CommitteeOnInitialize, AnnouncedInv, Early
    <3>3. QED
      BY <2>2, <3>1, <3>2 DEF CommitteeEpochs
  <2>4. CASE chain # <<>>
    BY <1>3, <2>1, <2>2, <2>4
       DEF CommitteeOnInitialize, CommitteeEpochs, Dated
  <2>5. QED
    BY <2>3, <2>4
<1>4. CASE SessionOnInitialize
  <2>1. EpochOfSlot' = EpochOfSlot /\ EpochOfSlot \in Nat
    BY <1>4, EpochBound DEF SessionOnInitialize, EpochOfSlot
  <2>2. CASE ShouldEndSession /\ RotateSession
    BY <1>4, <2>1, <2>2
       DEF SessionOnInitialize, ShouldEndSession, RotateSession,
           CommitteeEpochs, TypeOK, CommitteeInfo
  <2>3. CASE UNCHANGED <<committeeVars, sessionVars>>
    BY <1>4, <2>1, <2>3
       DEF SessionOnInitialize, CommitteeEpochs, Dated, committeeVars
  <2>4. QED
    BY <1>4, <2>2, <2>3 DEF SessionOnInitialize
<1>5. CASE ApplySetInherent
  <2>1. nextCommittee' # None =>
          nextCommittee'.epoch = currentCommittee'.epoch + 1
    BY <1>5 DEF ApplySetInherent, Set, CommitteeEpochs
  <2>2. QED
    BY <1>5, <2>1
       DEF ApplySetInherent, CommitteeEpochs, Dated, EpochOfSlot
<1>6. CASE SetCurrentBlockBeneficiary
  BY <1>6 DEF SetCurrentBlockBeneficiary, CommitteeEpochs, Dated, EpochOfSlot,
              committeeVars
<1>7. CASE OnFinalize
  BY <1>7 DEF OnFinalize, CommitteeEpochs, Dated, EpochOfSlot, committeeVars
<1>8. CASE SetMainChainScripts
  BY <1>8 DEF SetMainChainScripts, CommitteeEpochs, Dated, EpochOfSlot,
              committeeVars
<1>9. CASE UNCHANGED vars
  BY <1>9 DEF vars, CommitteeEpochs, Dated, EpochOfSlot, committeeVars
<1>10. QED
  BY <1>1, <1>2, <1>3, <1>4, <1>5, <1>6, <1>7, <1>8, <1>9
     DEF Next, BlockStep, SlotsExhausted

\* The block under construction keeps its relation to its parent.
LEMMA ParentNext ==
  ASSUME Inv1, [Next]_vars
  PROVE  ParentInv'
<1> USE NoneAssumption DEF Inv1, Early
<1>1. CASE StartBlock
  BY <1>1 DEF StartBlock, ParentInv, AnnouncedInv, committeeVars
<1>2. CASE SidechainOnInitialize
  BY <1>2 DEF SidechainOnInitialize, ParentInv, committeeVars, blockVars
<1>3. CASE CommitteeOnInitialize
  <2>1. currentCommittee'.committee = currentCommittee.committee
    BY <1>3 DEF CommitteeOnInitialize, TypeOK, CommitteeInfo
  <2>2. QED
    BY <1>3, <2>1 DEF CommitteeOnInitialize, ParentInv, blockVars
<1>4. CASE SessionOnInitialize
  <2>1. CASE ShouldEndSession /\ RotateSession
    BY <1>4, <2>1
       DEF SessionOnInitialize, ShouldEndSession, RotateSession, ParentInv,
           blockVars
  <2>2. CASE UNCHANGED <<committeeVars, sessionVars>>
    BY <1>4, <2>2 DEF SessionOnInitialize, ParentInv, committeeVars, blockVars
  <2>3. QED
    BY <1>4, <2>1, <2>2 DEF SessionOnInitialize
<1>5. CASE ApplySetInherent
  BY <1>5 DEF ApplySetInherent, ParentInv
<1>6. CASE SetCurrentBlockBeneficiary
  BY <1>6 DEF SetCurrentBlockBeneficiary, ParentInv, blockVars
<1>7. CASE OnFinalize
  BY <1>7 DEF OnFinalize, ParentInv
<1>8. CASE SetMainChainScripts
  BY <1>8 DEF SetMainChainScripts, ParentInv, committeeVars, blockVars
<1>9. CASE UNCHANGED vars
  BY <1>9 DEF vars, ParentInv, committeeVars, blockVars
<1>10. QED
  BY <1>1, <1>2, <1>3, <1>4, <1>5, <1>6, <1>7, <1>8, <1>9
     DEF Next, BlockStep, SlotsExhausted

\* The author's call is the one a verifier computes at the parent.
LEMMA VerificationNext ==
  ASSUME Inv1, [Next]_vars
  PROVE  BlocksPassVerification'
<1> USE NoneAssumption DEF Inv1
<1>1. CASE ApplySetInherent
  <2>1. parent' = parent /\ inherentData' = inherentData /\ phase = "set"
    BY <1>1 DEF ApplySetInherent
  <2>2. CASE nextCommittee # None
    <3>1. setCall' = None
      BY <1>1, <2>2 DEF ApplySetInherent, CreateInherent
    <3>2. parent.next # None
      BY <2>1, <2>2 DEF ParentInv
    <3>3. QED
      BY <2>1, <3>1, <3>2
         DEF BlocksPassVerification, BlockVerifies, IsInherentRequired
  <2>3. CASE nextCommittee = None
    <3>1. /\ setCall' \in SetCalls
          /\ setCall'.for_epoch_number = currentCommittee.epoch + 1
          /\ setCall'.validators =
               CalculateCommittee(inherentData, currentCommittee.epoch + 1,
                                  currentCommittee.committee)
      BY <1>1, <2>1, <2>3, CreateInherentCall
         DEF ApplySetInherent, CreateInherent
    <3>2. currentCommittee.committee =
            IF parent.next = None THEN parent.current.committee
                                  ELSE parent.next.committee
      BY <2>1, <2>3 DEF ParentInv
    <3>3. CheckInherent(parent, setCall', inherentData)
      BY <3>1, <3>2 DEF CheckInherent
    <3>4. QED
      BY <2>1, <3>1, <3>3 DEF BlocksPassVerification, BlockVerifies
  <2>4. QED
    BY <2>2, <2>3
<1>2. CASE SetCurrentBlockBeneficiary \/ SetMainChainScripts \/ UNCHANGED vars
  BY <1>2
     DEF SetCurrentBlockBeneficiary, SetMainChainScripts, vars, blockVars,
         BlocksPassVerification, BlockVerifies
<1>3. CASE phase' \notin {"beneficiary", "extrinsics"}
  BY <1>3 DEF BlocksPassVerification
<1>4. QED
  BY <1>1, <1>2, <1>3
     DEF Next, BlockStep, SlotsExhausted, StartBlock, SidechainOnInitialize,
         CommitteeOnInitialize, SessionOnInitialize, OnFinalize

\* Inv1 is an invariant of the runtime.
THEOREM Inv1Always == Spec => []Inv1
<1>1. Inv1 /\ [Next]_vars => Inv1'
  BY TypeNext, EpochsNext, ClockNext, OfficeNext, AnnouncedNext, ParentNext,
     VerificationNext DEF Inv1
<1>2. QED
  BY Inv1Init, <1>1, PTL DEF Spec

-----------------------------------------------------------------------------
(* Histories: sessions, epochs with blocks, and rewards.                   *)

Sessions == {chain[i].session : i \in DOMAIN chain}
EpochsWithBlocks == {chain[i].epoch : i \in DOMAIN chain}

\* The sessions seen so far are all there were; the session the block under
\* construction may have started is the one that can be missing.
ServesInv ==
  /\ phase \in Early /\ chain # <<>> => Sessions = 0 .. currentIndex
  /\ phase \in Late => Sessions \in {0 .. currentIndex, 0 .. currentIndex - 1}

\* Each epoch with a block, after the first, has brought a rotation.
LagInv ==
  /\ phase \in Early /\ chain # <<>> =>
       Cardinality(EpochsWithBlocks) <= currentIndex + 1
  /\ phase \in Late =>
       Cardinality(EpochsWithBlocks \cup {epochNumber}) <= currentIndex + 1

Inv2 == Inv1 /\ ServesInv /\ LagInv /\ RewardsPerEpoch

\* The histories read from the chain, before and after a block is added.
LEMMA HistoryAppend ==
  ASSUME TypeOK, OnFinalize, epochNumber \in Nat
  PROVE  /\ Sessions' = Sessions \cup {currentIndex}
         /\ EpochsWithBlocks' = EpochsWithBlocks \cup {epochNumber}
         /\ \A e, b : BlocksPaying(e, b)' =
              IF e = epochNumber /\ b = beneficiary
              THEN BlocksPaying(e, b) \cup {Len(chain) + 1}
              ELSE BlocksPaying(e, b)
<1> DEFINE n == Len(chain)
<1>1. /\ n \in Nat
      /\ DOMAIN chain = 1 .. n
      /\ DOMAIN chain' = 1 .. n + 1
      /\ \A i \in 1 .. n : chain'[i] = chain[i]
      /\ chain'[n + 1].session = currentIndex
      /\ chain'[n + 1].epoch = epochNumber
      /\ chain'[n + 1].beneficiary = beneficiary
  BY ChainFacts, AppendBlock
<1> HIDE DEF n
<1>2. 1 .. n + 1 = (1 .. n) \cup {n + 1}
  BY <1>1
<1>3. Sessions' = Sessions \cup {currentIndex}
  BY <1>1, <1>2 DEF Sessions
<1>4. EpochsWithBlocks' = EpochsWithBlocks \cup {epochNumber}
  BY <1>1, <1>2 DEF EpochsWithBlocks
<1>5. ASSUME NEW e, NEW b
      PROVE  BlocksPaying(e, b)' =
               IF e = epochNumber /\ b = beneficiary
               THEN BlocksPaying(e, b) \cup {n + 1}
               ELSE BlocksPaying(e, b)
  BY <1>1, <1>2 DEF BlocksPaying
<1>6. QED
  BY <1>3, <1>4, <1>5 DEF n

\* The sets of epochs and of paid blocks are finite.
LEMMA HistoryFinite ==
  ASSUME TypeOK, ClockInv
  PROVE  /\ IsFiniteSet(EpochsWithBlocks)
         /\ \A e, b : /\ IsFiniteSet(BlocksPaying(e, b))
                      /\ Len(chain) + 1 \notin BlocksPaying(e, b)
<1>1. EpochsWithBlocks \subseteq 0 .. EpochOfSlot /\ EpochOfSlot \in Nat
  BY ChainFacts, EpochBound DEF ClockInv, EpochsWithBlocks
<1>2. IsFiniteSet(0 .. EpochOfSlot)
  BY <1>1, FS_Interval
<1>3. IsFiniteSet(EpochsWithBlocks)
  BY <1>1, <1>2, FS_Subset
<1>4. Len(chain) \in Nat /\ DOMAIN chain = 1 .. Len(chain)
  BY ChainFacts
<1>5. IsFiniteSet(1 .. Len(chain))
  BY <1>4, FS_Interval
<1>6. ASSUME NEW e, NEW b
      PROVE  /\ IsFiniteSet(BlocksPaying(e, b))
             /\ Len(chain) + 1 \notin BlocksPaying(e, b)
  <2>1. BlocksPaying(e, b) \subseteq 1 .. Len(chain)
    BY <1>4 DEF BlocksPaying
  <2>2. QED
    BY <1>4, <1>5, <2>1, FS_Subset
<1>7. QED
  BY <1>3, <1>6

\* Steps of a block before it joins the chain leave what is read from the
\* chain alone.
LEMMA HistoryUnchanged ==
  ASSUME chain' = chain
  PROVE  /\ Sessions' = Sessions
         /\ EpochsWithBlocks' = EpochsWithBlocks
         /\ \A e, b : BlocksPaying(e, b)' = BlocksPaying(e, b)
  BY DEF Sessions, EpochsWithBlocks, BlocksPaying

\* Every session is in force after some block.
LEMMA ServesNext ==
  ASSUME Inv1, ServesInv, [Next]_vars
  PROVE  ServesInv'
<1> USE DEF Early, Late
<1>1. CASE OnFinalize
  <2>1. epochNumber \in Nat
    BY <1>1 DEF OnFinalize, ClockInv, Inv1
  <2>2. Sessions' = Sessions \cup {currentIndex}
    BY <1>1, <2>1, HistoryAppend DEF Inv1
  <2>3. Sessions \in {0 .. currentIndex, 0 .. currentIndex - 1}
    BY <1>1 DEF OnFinalize, ServesInv
  <2>4. Sessions' = 0 .. currentIndex
    BY <2>2, <2>3 DEF Inv1, TypeOK
  <2>5. QED
    BY <1>1, <2>4 DEF OnFinalize, ServesInv, sessionVars
<1>2. CASE SessionOnInitialize
  <2>1. chain' = chain /\ Sessions' = Sessions
    BY <1>2, HistoryUnchanged DEF SessionOnInitialize
  <2>2. CASE ShouldEndSession /\ RotateSession
    <3>1. chain # <<>>
      BY <1>2, <2>2
         DEF SessionOnInitialize, ShouldEndSession, AnnouncedInv, Inv1
    <3>2. Sessions = 0 .. currentIndex
      BY <1>2, <3>1 DEF SessionOnInitialize, ServesInv
    <3>3. currentIndex' - 1 = currentIndex
      BY <2>2 DEF RotateSession, Inv1, TypeOK
    <3>4. QED
      BY <1>2, <2>1, <3>2, <3>3 DEF SessionOnInitialize, ServesInv
  <2>3. CASE UNCHANGED <<committeeVars, sessionVars>>
    <3>1. CASE chain # <<>>
      BY <1>2, <2>1, <2>3, <3>1
         DEF SessionOnInitialize, ServesInv, sessionVars
    <3>2. CASE chain = <<>>
      <4>1. Sessions = {} /\ currentIndex = 0
        BY <3>2, ChainFacts DEF Sessions, Inv1, OfficeInv
      <4>2. QED
        BY <1>2, <2>1, <2>3, <4>1
           DEF SessionOnInitialize, ServesInv, sessionVars
    <3>3. QED
      BY <3>1, <3>2
  <2>4. QED
    BY <1>2, <2>2, <2>3 DEF SessionOnInitialize
<1>3. CASE \/ StartBlock \/ SidechainOnInitialize \/ CommitteeOnInitialize
           \/ ApplySetInherent \/ SetCurrentBlockBeneficiary
           \/ SetMainChainScripts \/ UNCHANGED vars
  <2>1. chain' = chain /\ currentIndex' = currentIndex
    BY <1>3
       DEF StartBlock, SidechainOnInitialize, CommitteeOnInitialize,
           ApplySetInherent, SetCurrentBlockBeneficiary, SetMainChainScripts,
           vars, sessionVars
  <2>2. Sessions' = Sessions
    BY <2>1, HistoryUnchanged
  <2>3. (phase' \in Early => phase \in Early) /\ (phase' \in Late => phase \in Late)
    BY <1>3
       DEF StartBlock, SidechainOnInitialize, CommitteeOnInitialize,
           ApplySetInherent, SetCurrentBlockBeneficiary, SetMainChainScripts,
           vars
  <2>4. QED
    BY <2>1, <2>2, <2>3 DEF ServesInv
<1>4. QED
  BY <1>1, <1>2, <1>3 DEF Next, BlockStep, SlotsExhausted

\* Each epoch with a block brings a rotation.
LEMMA LagNext ==
  ASSUME Inv1, LagInv, [Next]_vars
  PROVE  LagInv'
<1> USE DEF Early, Late
<1>1. CASE OnFinalize
  <2>1. epochNumber \in Nat
    BY <1>1 DEF OnFinalize, ClockInv, Inv1
  <2>2. EpochsWithBlocks' = EpochsWithBlocks \cup {epochNumber}
    BY <1>1, <2>1, HistoryAppend DEF Inv1
  <2>3. QED
    BY <1>1, <2>2 DEF OnFinalize, LagInv, sessionVars
<1>2. CASE SessionOnInitialize
  <2>1. /\ chain' = chain /\ epochNumber' = epochNumber
        /\ EpochsWithBlocks' = EpochsWithBlocks
    BY <1>2, HistoryUnchanged DEF SessionOnInitialize
  <2>2. /\ IsFiniteSet(EpochsWithBlocks)
        /\ Cardinality(EpochsWithBlocks) \in Nat
    BY HistoryFinite, FS_CardinalityType DEF Inv1
  <2>3. Cardinality(EpochsWithBlocks \cup {epochNumber}) =
          IF epochNumber \in EpochsWithBlocks THEN Cardinality(EpochsWithBlocks)
          ELSE Cardinality(EpochsWithBlocks) + 1
    BY <2>2, FS_AddElement
  <2>4. currentIndex \in Nat /\ phase = "session" /\ phase' = "set"
    BY <1>2 DEF SessionOnInitialize, Inv1, TypeOK
  <2>5. CASE ShouldEndSession /\ RotateSession
    <3>1. chain # <<>>
      BY <2>4, <2>5 DEF ShouldEndSession, AnnouncedInv, Inv1
    <3>2. Cardinality(EpochsWithBlocks) <= currentIndex + 1
      BY <2>4, <3>1 DEF LagInv
    <3>3. currentIndex' = currentIndex + 1
      BY <2>5 DEF RotateSession
    <3>4. QED
      BY <2>1, <2>2, <2>3, <2>4, <3>2, <3>3 DEF LagInv
  <2>6. CASE ~ShouldEndSession /\ UNCHANGED <<committeeVars, sessionVars>>
    <3>1. CASE chain = <<>>
      <4>1. EpochsWithBlocks = {}
        BY <3>1, ChainFacts DEF EpochsWithBlocks, Inv1
      <4>2. Cardinality(EpochsWithBlocks) = 0
        BY <4>1, FS_EmptySet
      <4>3. QED
        BY <2>1, <2>3, <2>4, <2>6, <4>1, <4>2 DEF LagInv, sessionVars
    <3>2. CASE chain # <<>>
      <4>1. nextCommittee # None
        BY <2>4, <3>2 DEF AnnouncedInv, Inv1
      <4>2. epochNumber = EpochOfSlot /\ epochNumber \in Nat
        BY <2>4, NoneAssumption DEF ClockInv, Inv1
      <4>3. epochNumber <= currentCommittee.epoch
        BY <2>6, <4>1, <4>2 DEF ShouldEndSession, Inv1, TypeOK, CommitteeInfo
      <4>4. currentCommittee.epoch <= chain[Len(chain)].epoch
        BY <2>4, <3>2 DEF AnnouncedInv, Inv1
      <4>5. Len(chain) \in DOMAIN chain
        BY <3>2, ChainFacts DEF Inv1
      <4>6. chain[Len(chain)].epoch <= epochNumber
        BY <4>5 DEF ClockInv, Inv1
      <4>7. chain[Len(chain)].epoch = epochNumber
        BY <4>2, <4>3, <4>4, <4>5, <4>6, ChainFacts
           DEF Inv1, TypeOK, CommitteeInfo
      <4>8. epochNumber \in EpochsWithBlocks
        BY <4>5, <4>7 DEF EpochsWithBlocks
      <4>9. QED
        BY <2>1, <2>3, <2>4, <2>6, <3>2, <4>8 DEF LagInv, sessionVars
    <3>3. QED
      BY <3>1, <3>2
  <2>7. QED
    BY <1>2, <2>5, <2>6 DEF SessionOnInitialize
<1>3. CASE \/ StartBlock \/ SidechainOnInitialize \/ CommitteeOnInitialize
           \/ ApplySetInherent \/ SetCurrentBlockBeneficiary
           \/ SetMainChainScripts \/ UNCHANGED vars
  <2>1. chain' = chain /\ currentIndex' = currentIndex
    BY <1>3
       DEF StartBlock, SidechainOnInitialize, CommitteeOnInitialize,
           ApplySetInherent, SetCurrentBlockBeneficiary, SetMainChainScripts,
           vars, sessionVars
  <2>2. EpochsWithBlocks' = EpochsWithBlocks
    BY <2>1, HistoryUnchanged
  <2>3. /\ phase' \in Early => phase \in Early
        /\ phase' \in Late => phase \in Late /\ epochNumber' = epochNumber
    BY <1>3
       DEF StartBlock, SidechainOnInitialize, CommitteeOnInitialize,
           ApplySetInherent, SetCurrentBlockBeneficiary, SetMainChainScripts,
           vars
  <2>4. QED
    BY <2>1, <2>2, <2>3 DEF LagInv
<1>4. QED
  BY <1>1, <1>2, <1>3 DEF Next, BlockStep, SlotsExhausted

\* Rewards stay those of the blocks of their epoch.
LEMMA RewardsNext ==
  ASSUME Inv1, RewardsPerEpoch, [Next]_vars
  PROVE  RewardsPerEpoch'
<1> USE NoneAssumption
<1>1. CASE SidechainOnInitialize
  <2>1. /\ chain' = chain /\ epochNumber' = EpochOfSlot
        /\ EpochOfSlot \in Nat /\ epochNumber' # None
    BY <1>1, EpochBound DEF SidechainOnInitialize, Inv1
  <2>2. \A e, b : BlocksPaying(e, b)' = BlocksPaying(e, b)
    BY <2>1, HistoryUnchanged
  <2>3. CASE epochNumber = EpochOfSlot
    BY <1>1, <2>1, <2>2, <2>3 DEF SidechainOnInitialize, RewardsPerEpoch
  <2>4. CASE epochNumber # EpochOfSlot
    <3>1. \A i \in DOMAIN chain : chain[i].epoch # EpochOfSlot
      <4>1. CASE chain = <<>>
        BY <4>1, ChainFacts DEF Inv1
      <4>2. CASE chain # <<>>
        <5>1. epochNumber \in Nat /\ epochNumber <= EpochOfSlot
          BY <4>2 DEF ClockInv, Inv1
        <5>2. \A i \in DOMAIN chain :
                chain[i].epoch <= epochNumber /\ chain[i].epoch \in Nat
          BY ChainFacts DEF ClockInv, Inv1
        <5>3. QED
          BY <2>1, <2>4, <5>1, <5>2
      <4>3. QED
        BY <4>1, <4>2
    <3>2. \A b : BlocksPaying(EpochOfSlot, b) = {}
      BY <3>1 DEF BlocksPaying
    <3>3. \A b \in Beneficiaries :
            Cardinality(BlocksPaying(epochNumber, b)') = 0
      BY <2>1, <2>2, <3>2, FS_EmptySet
    <3>4. pendingRewards' = NoRewards
      <4>1. CASE epochNumber = None
        BY <1>1, <4>1
           DEF SidechainOnInitialize, RewardsPerEpoch, NoRewards, Inv1, TypeOK
      <4>2. CASE epochNumber # None
        BY <1>1, <2>4, <4>2 DEF SidechainOnInitialize
      <4>3. QED
        BY <4>1, <4>2
    <3>5. ASSUME NEW p \in payouts', NEW b \in Beneficiaries
          PROVE  p.rewards[b] = Cardinality(BlocksPaying(p.epoch, b)')
      <4>1. CASE p \in payouts
        BY <2>2, <4>1 DEF RewardsPerEpoch
      <4>2. CASE p \notin payouts
        <5>1. epochNumber # None
              /\ p = [epoch |-> epochNumber, rewards |-> pendingRewards]
          BY <1>1, <4>2 DEF SidechainOnInitialize
        <5>2. QED
          BY <2>2, <5>1 DEF RewardsPerEpoch
      <4>3. QED
        BY <4>1, <4>2
    <3>6. QED
      BY <2>1, <3>3, <3>4, <3>5 DEF RewardsPerEpoch, NoRewards
  <2>5. QED
    BY <2>3, <2>4
<1>2. CASE OnFinalize
  <2>1. epochNumber \in Nat /\ epochNumber # None
    BY <1>2 DEF OnFinalize, ClockInv, Inv1
  <2>2. \A e, b : BlocksPaying(e, b)' =
          IF e = epochNumber /\ b = beneficiary
          THEN BlocksPaying(e, b) \cup {Len(chain) + 1}
          ELSE BlocksPaying(e, b)
    BY <1>2, <2>1, HistoryAppend DEF Inv1
  <2>3. \A e, b : Cardinality(BlocksPaying(e, b)) \in Nat
                  /\ Cardinality(BlocksPaying(e, b) \cup {Len(chain) + 1}) =
                       Cardinality(BlocksPaying(e, b)) + 1
    BY HistoryFinite, FS_AddElement, FS_CardinalityType DEF Inv1
  <2>4. epochNumber' = epochNumber /\ payouts' = payouts
    BY <1>2 DEF OnFinalize
  <2>5. ASSUME NEW b \in Beneficiaries
        PROVE  pendingRewards'[b] =
                 Cardinality(BlocksPaying(epochNumber, b)')
    <3>1. pendingRewards[b] = Cardinality(BlocksPaying(epochNumber, b))
      BY <2>1 DEF RewardsPerEpoch
    <3>2. pendingRewards'[b] = IF b = beneficiary THEN pendingRewards[b] + 1
                                                  ELSE pendingRewards[b]
      BY <1>2 DEF OnFinalize, Inv1, TypeOK
    <3>3. BlocksPaying(epochNumber, b)' =
            IF b = beneficiary
            THEN BlocksPaying(epochNumber, b) \cup {Len(chain) + 1}
            ELSE BlocksPaying(epochNumber, b)
      BY <2>2, <2>4
    <3>4. QED
      BY <2>3, <3>1, <3>2, <3>3
  <2>6. ASSUME NEW p \in payouts, NEW b \in Beneficiaries
        PROVE  p.rewards[b] = Cardinality(BlocksPaying(p.epoch, b)')
    <3>1. p.epoch # epochNumber
      BY <2>1 DEF ClockInv, Inv1, TypeOK
    <3>2. QED
      BY <2>2, <3>1 DEF RewardsPerEpoch
  <2>7. QED
    BY <2>1, <2>4, <2>5, <2>6 DEF RewardsPerEpoch
<1>3. CASE \/ StartBlock \/ CommitteeOnInitialize \/ SessionOnInitialize
           \/ ApplySetInherent \/ SetCurrentBlockBeneficiary
           \/ SetMainChainScripts \/ UNCHANGED vars
  <2>1. UNCHANGED <<chain, epochNumber, pendingRewards, payouts>>
    BY <1>3
       DEF StartBlock, CommitteeOnInitialize, SessionOnInitialize,
           ApplySetInherent, SetCurrentBlockBeneficiary, SetMainChainScripts,
           vars, rewardVars
  <2>2. \A e, b : BlocksPaying(e, b)' = BlocksPaying(e, b)
    BY <2>1, HistoryUnchanged
  <2>3. QED
    BY <2>1, <2>2 DEF RewardsPerEpoch
<1>4. QED
  BY <1>1, <1>2, <1>3 DEF Next, BlockStep, SlotsExhausted

\* The histories agree with the state, in every phase.
THEOREM Inv2Always == Spec => []Inv2
<1>1. Init => Inv2
  <2> SUFFICES ASSUME Init PROVE Inv2
    OBVIOUS
  <2>1. Inv1 /\ chain = <<>> /\ phase = "idle"
    BY Inv1Init DEF Init
  <2>2. ServesInv /\ LagInv
    BY <2>1 DEF ServesInv, LagInv, Early, Late
  <2>3. RewardsPerEpoch
    BY DEF Init, RewardsPerEpoch, NoRewards
  <2>4. QED
    BY <2>1, <2>2, <2>3 DEF Inv2
<1>2. Inv2 /\ [Next]_vars => Inv2'
  <2>1. Inv1 /\ [Next]_vars => Inv1'
    BY TypeNext, EpochsNext, ClockNext, OfficeNext, AnnouncedNext, ParentNext,
       VerificationNext DEF Inv1
  <2>2. QED
    BY <2>1, ServesNext, LagNext, RewardsNext DEF Inv2
<1>3. QED
  BY <1>1, <1>2, PTL DEF Spec

-----------------------------------------------------------------------------
(* Theorems.                                                               *)

\* The storage items of the four pallets keep their types.
THEOREM TypeCorrect == Spec => []TypeOK
<1>1. Inv1 => TypeOK
  BY DEF Inv1
<1>2. QED
  BY Inv1Always, <1>1, PTL

\* Committees are dated one epoch apart, and none is in office before its
\* epoch (should_end_session, set, rotate_committee_to_next_epoch).
THEOREM CommitteeEpochsCorrect == Spec => []CommitteeEpochs
<1>1. Inv1 => CommitteeEpochs
  BY DEF Inv1
<1>2. QED
  BY Inv1Always, <1>1, PTL

\* next_committee() is defined after the inherents of every block.
THEOREM NextCommitteeAlwaysDefined == Spec => []NextCommitteeDefined
<1>1. Inv1 => NextCommitteeDefined
  <2> SUFFICES ASSUME Inv1 PROVE NextCommitteeDefined
    OBVIOUS
  <2>1. AfterSet => nextCommittee # None
    BY DEF Inv1, AnnouncedInv, AfterSet, Early
  <2>2. phase # "idle" /\ parent.next = None => BlockNumber = 1
    BY ChainFacts DEF Inv1, ParentInv, BlockNumber
  <2>3. QED
    BY <2>1, <2>2 DEF NextCommitteeDefined
<1>2. QED
  BY Inv1Always, <1>1, PTL

\* The session pallet, its stub and Aura follow the committee in office
\* (rotate_session, new_session, rotate_validators).
THEOREM SessionFollows == Spec => []SessionFollowsCommittee
<1>1. Inv1 => SessionFollowsCommittee
  BY DEF Inv1, OfficeInv, SessionFollowsCommittee, Dated, FirstEpoch
<1>2. QED
  BY Inv1Always, <1>1, PTL

\* A block an author builds passes check_inherents (create_inherent runs after
\* the rotation, check_inherent before it).
THEOREM AuthorsAgreeWithVerifiers == Spec => []BlocksPassVerification
<1>1. Inv1 => BlocksPassVerification
  BY DEF Inv1
<1>2. QED
  BY Inv1Always, <1>1, PTL

\* No committee is skipped, however many epochs pass without a block.
THEOREM CommitteesServe == Spec => []EveryCommitteeServes
<1>1. Inv2 => EveryCommitteeServes
  BY DEF Inv2, ServesInv, EveryCommitteeServes, Sessions, Early
<1>2. QED
  BY Inv2Always, <1>1, PTL

\* The committee in office is late by at most one epoch per epoch without
\* blocks.
THEOREM LagBounded == Spec => []LagBoundedBySkippedEpochs
<1>1. Inv2 => LagBoundedBySkippedEpochs
  <2> SUFFICES ASSUME Inv2, phase = "idle", chain # <<>>
               PROVE  epochNumber - currentCommittee.epoch <=
                        Cardinality((chain[1].epoch .. epochNumber)
                                      \ EpochsWithBlocks)
    BY DEF LagBoundedBySkippedEpochs, EpochsWithBlocks
  <2> DEFINE span == chain[1].epoch .. epochNumber
  <2>1. /\ epochNumber \in Nat
        /\ currentCommittee.epoch \in Nat
        /\ 1 \in DOMAIN chain
        /\ chain[1].epoch \in Nat
    BY ChainFacts, SMTT(30) DEF Inv2, Inv1, ClockInv, TypeOK, CommitteeInfo
  <2>2. chain[1].epoch <= epochNumber
    BY <2>1 DEF Inv2, Inv1, ClockInv
  <2>3. IsFiniteSet(span) /\ Cardinality(span) = epochNumber - chain[1].epoch + 1
    BY <2>1, <2>2, EpochInterval
  <2>4. IsFiniteSet(EpochsWithBlocks)
    BY HistoryFinite DEF Inv2, Inv1
  <2>5. /\ Cardinality(EpochsWithBlocks) \in Nat
        /\ Cardinality(span \cap EpochsWithBlocks) \in Nat
        /\ Cardinality(span \cap EpochsWithBlocks)
             <= Cardinality(EpochsWithBlocks)
    BY <2>4, FS_Intersection, FS_CardinalityType
  <2>6. Cardinality(span \ EpochsWithBlocks) =
          Cardinality(span) - Cardinality(span \cap EpochsWithBlocks)
    BY <2>3, FS_Difference
  <2>7. Cardinality(EpochsWithBlocks) <= currentIndex + 1
    BY DEF Inv2, LagInv, Early
  <2>8. currentIndex = currentCommittee.epoch - chain[1].epoch
    BY DEF Inv2, Inv1, OfficeInv, Dated, FirstEpoch
  <2> HIDE DEF span
  <2>9. QED
    BY <2>1, <2>3, <2>5, <2>6, <2>7, <2>8, SMTT(30) DEF span
<1>2. QED
  BY Inv2Always, <1>1, PTL

\* on_new_epoch receives the rewards of exactly the epoch it names
\* (get_rewards_and_clear, on_finalize of pallet_block_rewards).
THEOREM RewardsCorrect == Spec => []RewardsPerEpoch
<1>1. Inv2 => RewardsPerEpoch
  BY DEF Inv2
<1>2. QED
  BY Inv2Always, <1>1, PTL

\* The runtime implements the abstract schedule of committees.
THEOREM RuntimeImplementsSchedule == Spec => ImplementsSchedule
<1>1. Init => Schedule!Init
  BY DEF Init, Schedule!Init, Dated
<1>2. Inv1 /\ Inv1' /\ [Next]_vars => [Schedule!Next]_Schedule!vars
  <2> SUFFICES ASSUME Inv1, Inv1', [Next]_vars
               PROVE  Schedule!Next \/ UNCHANGED Schedule!vars
    OBVIOUS
  <2> USE NoneAssumption
  <2>1. CASE SidechainOnInitialize
    <3>1. EpochOfSlot \in Nat
      BY EpochBound DEF Inv1
    <3>2. UNCHANGED <<Dated, currentCommittee, nextCommittee>>
      BY <2>1 DEF SidechainOnInitialize, Dated, committeeVars
    <3>3. epochNumber' = EpochOfSlot
      BY <2>1 DEF SidechainOnInitialize
    <3>4. CASE epochNumber = EpochOfSlot
      BY <3>2, <3>3, <3>4 DEF Schedule!vars
    <3>5. CASE epochNumber # EpochOfSlot
      <4>1. epochNumber # None => EpochOfSlot > epochNumber
        BY <2>1, <3>1, <3>5, SMTT(30) DEF SidechainOnInitialize, Inv1, ClockInv
      <4>2. QED
        BY <3>1, <3>2, <3>3, <4>1 DEF Schedule!Next, Schedule!EpochPasses
    <3>6. QED
      BY <3>4, <3>5
  <2>2. CASE CommitteeOnInitialize
    <3>1. BlockNumber = 1 <=> chain = <<>>
      BY ChainFacts DEF BlockNumber, Inv1
    <3>2. CASE chain = <<>>
      <4>1. ~Dated /\ Dated'
        BY <2>2, <3>2 DEF CommitteeOnInitialize, Dated
      <4>2. epochNumber # None /\ epochNumber = EpochOfSlot
        BY <2>2 DEF CommitteeOnInitialize, Inv1, ClockInv
      <4>3. nextCommittee = None
        BY <2>2, <3>2 DEF CommitteeOnInitialize, Inv1, AnnouncedInv, Early
      <4>4. currentCommittee' = [currentCommittee EXCEPT !.epoch = epochNumber]
        BY <2>2, <3>1, <3>2, <4>2 DEF CommitteeOnInitialize
      <4>5. UNCHANGED <<epochNumber, nextCommittee>>
        BY <2>2 DEF CommitteeOnInitialize
      <4>6. Schedule!Open
        BY <4>1, <4>2, <4>3, <4>4, <4>5 DEF Schedule!Open
      <4>7. QED
        BY <4>6 DEF Schedule!Next
    <3>3. CASE chain # <<>>
      BY <2>2, <3>1, <3>3 DEF CommitteeOnInitialize, Dated, Schedule!vars
    <3>4. QED
      BY <3>2, <3>3
  <2>3. CASE SessionOnInitialize
    <3>1. Dated /\ Dated' /\ epochNumber' = epochNumber
      BY <2>3 DEF SessionOnInitialize, Dated
    <3>2. CASE ShouldEndSession /\ RotateSession
      <4>1. /\ nextCommittee # None
            /\ nextCommittee.epoch = currentCommittee.epoch + 1
            /\ currentCommittee.epoch \in Nat
            /\ EpochOfSlot > currentCommittee.epoch
        BY <3>2 DEF ShouldEndSession, Inv1, CommitteeEpochs, TypeOK, CommitteeInfo
      <4>2. epochNumber = EpochOfSlot /\ epochNumber \in Nat
        BY <2>3 DEF SessionOnInitialize, Inv1, ClockInv
      <4>3. nextCommittee.epoch <= epochNumber
        BY <4>1, <4>2
      <4>4. Schedule!TakeOffice
        BY <3>1, <3>2, <4>1, <4>3 DEF RotateSession, Schedule!TakeOffice
      <4>5. QED
        BY <4>4 DEF Schedule!Next
    <3>3. CASE UNCHANGED <<committeeVars, sessionVars>>
      BY <3>1, <3>3 DEF committeeVars, Schedule!vars
    <3>4. QED
      BY <2>3, <3>2, <3>3 DEF SessionOnInitialize
  <2>4. CASE ApplySetInherent
    <3>1. Dated /\ Dated' /\ UNCHANGED <<epochNumber, currentCommittee>>
      BY <2>4 DEF ApplySetInherent, Dated
    <3>2. CASE nextCommittee # None
      BY <2>4, <3>1, <3>2
         DEF ApplySetInherent, CreateInherent, Schedule!vars
    <3>3. CASE nextCommittee = None
      <4>1. setCall' \in SetCalls
        BY <2>4, <3>3, CreateInherentCall DEF ApplySetInherent
      <4>2. nextCommittee' \in
              [epoch : {currentCommittee.epoch + 1}, committee : Committees]
        BY <2>4, <4>1 DEF ApplySetInherent, Set, SetCalls
      <4>3. Schedule!Announce
        BY <3>1, <3>3, <4>2 DEF Schedule!Announce
      <4>4. QED
        BY <4>3 DEF Schedule!Next
    <3>4. QED
      BY <3>2, <3>3
  <2>5. CASE OnFinalize
    <3>1. epochNumber \in Nat
      BY <2>5 DEF OnFinalize, ClockInv, Inv1
    <3>2. Dated /\ Dated'
      BY <2>5, <3>1, AppendBlock DEF OnFinalize, Dated, Inv1
    <3>3. QED
      BY <2>5, <3>2 DEF OnFinalize, committeeVars, Schedule!vars
  <2>6. CASE \/ StartBlock \/ SetCurrentBlockBeneficiary
             \/ SetMainChainScripts \/ UNCHANGED vars
    <3>1. UNCHANGED <<epochNumber, committeeVars>>
      BY <2>6
         DEF StartBlock, SetCurrentBlockBeneficiary, SetMainChainScripts, vars
    <3>2. Dated' = Dated
      BY <2>6
         DEF StartBlock, SetCurrentBlockBeneficiary, SetMainChainScripts,
             vars, Dated
    <3>3. QED
      BY <3>1, <3>2 DEF committeeVars, Schedule!vars
  <2>7. QED
    BY <2>1, <2>2, <2>3, <2>4, <2>5, <2>6 DEF Next, BlockStep, SlotsExhausted
<1>3. QED
  BY <1>1, <1>2, Inv1Always, PTL DEF Spec, ImplementsSchedule, Schedule!Spec

=============================================================================
