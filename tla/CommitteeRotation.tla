------------------------- MODULE CommitteeRotation -------------------------
(***************************************************************************)
(* The runtime of a partner chain while it executes blocks: the pallets    *)
(* Sidechain, SessionCommitteeManagement, BlockRewards and Session, in the *)
(* order construct_runtime! gives them (node/runtime/src/lib.rs).          *)
(*                                                                         *)
(* A block is a sequence of hooks and calls, and `phase' says which one is *)
(* next: Aura and Sidechain on_initialize, the committee pallet's hook,    *)
(* the session pallet's hook, the `set' inherent, the beneficiary inherent,*)
(* ordinary extrinsics, on_finalize.  Between blocks phase is "idle".  The *)
(* executive runs these steps one after the other; nothing interleaves     *)
(* with them.  What is open is the environment: which slot gets a block    *)
(* (slots and whole epochs may pass without one), what the main chain says *)
(* about the candidates, who is paid, and when governance changes scripts. *)
(*                                                                         *)
(* A step the code answers with a panic or a failed mandatory inherent has *)
(* no successor here, so a deadlock inside a block is a block that cannot  *)
(* be built.                                                               *)
(***************************************************************************)
EXTENDS Integers, Sequences, FiniteSets

CONSTANTS
  Authorities,              \* (AuthorityId, AuthorityKeys) pairs
  Scripts,                  \* values of MainChainScripts
  Observations,             \* what the main chain says, given the scripts
  Beneficiaries,            \* BeneficiaryId
  SelectAuthorities(_, _),  \* T::select_authorities(inputs, epoch)
  GenesisCommittee,         \* initial_authorities
  GenesisScripts,           \* main_chain_scripts of the genesis
  SlotsPerEpoch,            \* slots of one sidechain epoch
  MaxSlot,                  \* bound: no block is built after this slot
  None                      \* an absent storage value or call

Committees == Seq(Authorities)

\* AuthoritySelectionInputs: read with the scripts the parent block stores.
Inputs == [scripts : Scripts, seen : Observations]

ASSUME ConstantsAssumption ==
  /\ SlotsPerEpoch \in Nat \ {0}
  /\ MaxSlot \in Nat
  /\ GenesisCommittee \in Committees
  /\ GenesisScripts \in Scripts
  /\ IsFiniteSet(Beneficiaries)

\* select_authorities gives a committee, or None when nobody can be selected.
ASSUME SelectionAssumption ==
  \A input \in Inputs, epoch \in 0 .. MaxSlot + 1 :
    SelectAuthorities(input, epoch) \in Committees \cup {None}

CommitteeInfo == [epoch : Nat, committee : Committees]

\* A finished block: its slot and epoch, whom it pays, and the session that is
\* in force after it.
Blocks == [slot : Nat, epoch : Nat, beneficiary : Beneficiaries, session : Nat]

SetCalls == [validators : Committees, for_epoch_number : Nat]

ASSUME NoneAssumption ==
  /\ None \notin CommitteeInfo
  /\ None \notin SetCalls
  /\ None \notin Committees
  /\ None \notin Beneficiaries
  /\ None \notin Nat

VARIABLES
  phase,              \* which hook or call of the block runs next
  slot,               \* pallet_aura CurrentSlot
  epochNumber,        \* Sidechain EpochNumber
  currentCommittee,   \* SessionCommitteeManagement CurrentCommittee
  nextCommittee,      \* SessionCommitteeManagement NextCommittee
  mainChainScripts,   \* SessionCommitteeManagement MainChainScriptsConfiguration
  currentIndex,       \* Session CurrentIndex
  stubIndex,          \* pallet_session CurrentIndex, read by Grandpa
  validators,         \* Session ValidatorsAndKeys
  auraAuthorities,    \* pallet_aura Authorities
  beneficiary,        \* BlockRewards CurrentBlockBeneficiary
  pendingRewards,     \* BlockRewards PendingRewards
  inherentData,       \* selection inputs handed to the block being built
  setCall,            \* the `set' inherent of the block, or None
  parent,             \* committees stored by the parent block
  chain,              \* history: the blocks finished so far
  payouts             \* history: what on_new_epoch was given

committeeVars == <<currentCommittee, nextCommittee>>
sessionVars == <<currentIndex, stubIndex, validators, auraAuthorities>>
rewardVars == <<beneficiary, pendingRewards, payouts>>
blockVars == <<inherentData, setCall, parent>>
vars == <<phase, slot, epochNumber, committeeVars, mainChainScripts,
          sessionVars, rewardVars, blockVars, chain>>

Phases == {"idle", "sidechain", "committee", "session", "set", "beneficiary",
           "extrinsics"}

NoRewards == [b \in Beneficiaries |-> 0]

\* Number of the block being executed; the genesis block is number 0.
BlockNumber == Len(chain) + 1

\* SidechainPallet::current_epoch_number.
EpochOfSlot == slot \div SlotsPerEpoch

-----------------------------------------------------------------------------
(* Genesis.                                                                *)

Init ==
  /\ phase = "idle"
  /\ slot = 0
  /\ epochNumber = None
  /\ currentCommittee = [epoch |-> 0, committee |-> GenesisCommittee]
  /\ nextCommittee = None
  /\ mainChainScripts = GenesisScripts
  /\ currentIndex = 0
  /\ stubIndex = 0
  /\ validators = GenesisCommittee
  /\ auraAuthorities = GenesisCommittee
  /\ beneficiary = None
  /\ pendingRewards = NoRewards
  /\ inherentData = None
  /\ setCall = None
  /\ parent = [current |-> currentCommittee, next |-> None]
  /\ chain = <<>>
  /\ payouts = {}

-----------------------------------------------------------------------------
(* on_initialize, in pallet order.                                         *)

\* A slot later than the parent's is claimed, inherent data is created from
\* the parent's state, and Aura stores the slot.  Slots without a block are
\* skipped.
StartBlock ==
  /\ phase = "idle"
  /\ slot' \in slot + 1 .. MaxSlot
  /\ inherentData' \in {d \in Inputs : d.scripts = mainChainScripts}
  /\ parent' = [current |-> currentCommittee, next |-> nextCommittee]
  /\ setCall' = None
  /\ phase' = "sidechain"
  /\ UNCHANGED <<epochNumber, committeeVars, mainChainScripts, sessionVars,
                 rewardVars, chain>>

\* Faulty variant: on_new_epoch reports the rewards without clearing them.
SidechainOnInitialize_KeepsRewards ==
  /\ phase = "sidechain"
  /\ phase' = "committee"
  /\ epochNumber' = EpochOfSlot
  /\ payouts' = IF epochNumber \in {None, EpochOfSlot}
                THEN payouts
                ELSE payouts \cup
                       {[epoch |-> epochNumber, rewards |-> pendingRewards]}
  /\ UNCHANGED <<slot, committeeVars, mainChainScripts, sessionVars,
                 beneficiary, pendingRewards, blockVars, chain>>

\* pallet_sidechain: when the slot's epoch differs from the saved one, save
\* it and run on_new_epoch, which drains the pending rewards.
SidechainOnInitialize ==
  /\ phase = "sidechain"
  /\ phase' = "committee"
  /\ epochNumber' = EpochOfSlot
  /\ \/ /\ epochNumber \notin {None, EpochOfSlot}
        /\ pendingRewards' = NoRewards
        /\ payouts' = payouts \cup
             {[epoch |-> epochNumber, rewards |-> pendingRewards]}
     \/ /\ epochNumber \in {None, EpochOfSlot}
        /\ UNCHANGED <<pendingRewards, payouts>>
  /\ UNCHANGED <<slot, committeeVars, mainChainScripts, sessionVars,
                 beneficiary, blockVars, chain>>

\* Faulty variant: the genesis committee keeps epoch 0.
CommitteeOnInitialize_Undated ==
  /\ phase = "committee"
  /\ phase' = "session"
  /\ UNCHANGED <<slot, epochNumber, committeeVars, mainChainScripts,
                 sessionVars, rewardVars, blockVars, chain>>

\* pallet_session_validator_management: block 1 dates the genesis committee.
CommitteeOnInitialize ==
  /\ phase = "committee"
  /\ phase' = "session"
  /\ currentCommittee' = IF BlockNumber = 1
                         THEN [currentCommittee EXCEPT !.epoch = EpochOfSlot]
                         ELSE currentCommittee
  /\ UNCHANGED <<slot, epochNumber, nextCommittee, mainChainScripts,
                 sessionVars, rewardVars, blockVars, chain>>

\* Faulty variant: a session also ends in the epoch of its own committee.
ShouldEndSession_AtLeast ==
  /\ EpochOfSlot >= currentCommittee.epoch
  /\ nextCommittee # None

\* Faulty variant: a session ends only when it is exactly one epoch late.
ShouldEndSession_ExactlyOne ==
  /\ EpochOfSlot = currentCommittee.epoch + 1
  /\ nextCommittee # None

ShouldEndSession ==
  /\ EpochOfSlot > currentCommittee.epoch
  /\ nextCommittee # None

\* Aura keeps its authorities when it is handed an empty list.
OnNewSession(committee) ==
  auraAuthorities' = IF committee = <<>> THEN auraAuthorities ELSE committee

\* Faulty variant: NextCommittee is read and not taken.
RotateSession_NotTaken ==
  /\ currentIndex' = currentIndex + 1
  /\ stubIndex' = currentIndex + 1
  /\ currentCommittee' = nextCommittee
  /\ validators' = nextCommittee.committee
  /\ OnNewSession(nextCommittee.committee)
  /\ UNCHANGED nextCommittee

\* Faulty variant: the session index is taken from the epoch.
RotateSession_EpochIndex ==
  /\ currentIndex' = EpochOfSlot
  /\ stubIndex' = EpochOfSlot
  /\ currentCommittee' = nextCommittee
  /\ nextCommittee' = None
  /\ validators' = nextCommittee.committee
  /\ OnNewSession(nextCommittee.committee)

\* rotate_session: new_session takes NextCommittee into office, and the new
\* validators reach the consensus pallets in the same step.
RotateSession ==
  /\ currentIndex' = currentIndex + 1
  /\ stubIndex' = currentIndex + 1
  /\ currentCommittee' = nextCommittee
  /\ nextCommittee' = None
  /\ validators' = nextCommittee.committee
  /\ OnNewSession(nextCommittee.committee)

SessionOnInitialize ==
  /\ phase = "session"
  /\ phase' = "set"
  /\ \/ ShouldEndSession /\ RotateSession
     \/ ~ShouldEndSession /\ UNCHANGED <<committeeVars, sessionVars>>
  /\ UNCHANGED <<slot, epochNumber, mainChainScripts, rewardVars, blockVars,
                 chain>>

-----------------------------------------------------------------------------
(* Inherents, extrinsics and on_finalize.                                  *)

\* The committee `set' must carry; `fallback' is kept when none is selected.
CalculateCommittee(input, epoch, fallback) ==
  LET selected == SelectAuthorities(input, epoch)
  IN  IF selected = None THEN fallback ELSE selected

\* Faulty variant: no committee selected, no call.
CreateInherent_NoFallback ==
  LET for_epoch == currentCommittee.epoch + 1
      selected == SelectAuthorities(inherentData, for_epoch)
  IN  IF nextCommittee # None \/ selected = None
      THEN None
      ELSE [validators |-> selected, for_epoch_number |-> for_epoch]

\* Faulty variant: the selection's result is used as it is.
CreateInherent_Unchecked ==
  LET for_epoch == currentCommittee.epoch + 1
  IN  IF nextCommittee # None
      THEN None
      ELSE [validators |-> SelectAuthorities(inherentData, for_epoch),
            for_epoch_number |-> for_epoch]

\* create_inherent, run by the author after on_initialize.
CreateInherent ==
  LET for_epoch == currentCommittee.epoch + 1
  IN  IF nextCommittee # None
      THEN None
      ELSE [validators |-> CalculateCommittee(inherentData, for_epoch,
                                              currentCommittee.committee),
            for_epoch_number |-> for_epoch]

\* The dispatchable `set'.
Set(call) ==
  /\ call.for_epoch_number = currentCommittee.epoch + 1
  /\ nextCommittee' = [epoch |-> call.for_epoch_number,
                       committee |-> call.validators]

ApplySetInherent ==
  /\ phase = "set"
  /\ phase' = "beneficiary"
  /\ setCall' = CreateInherent
  /\ \/ setCall' # None /\ Set(setCall')
     \/ setCall' = None /\ UNCHANGED nextCommittee
  /\ UNCHANGED <<slot, epochNumber, currentCommittee, mainChainScripts,
                 sessionVars, rewardVars, inherentData, parent, chain>>

\* The mandatory inherent of pallet_block_rewards names who is paid.
SetCurrentBlockBeneficiary ==
  /\ phase = "beneficiary"
  /\ phase' = "extrinsics"
  /\ beneficiary' \in Beneficiaries
  /\ UNCHANGED <<slot, epochNumber, committeeVars, mainChainScripts,
                 sessionVars, pendingRewards, payouts, blockVars, chain>>

\* Governance changes the scripts; the next block's inputs are read with them.
SetMainChainScripts ==
  /\ phase = "extrinsics"
  /\ mainChainScripts' \in Scripts \ {mainChainScripts}
  /\ UNCHANGED <<phase, slot, epochNumber, committeeVars, sessionVars,
                 rewardVars, blockVars, chain>>

\* on_finalize of pallet_block_rewards takes the beneficiary and adds a point;
\* the block joins the chain.
OnFinalize ==
  /\ phase = "extrinsics"
  /\ phase' = "idle"
  /\ beneficiary # None
  /\ pendingRewards' = [pendingRewards EXCEPT ![beneficiary] = @ + 1]
  /\ beneficiary' = None
  /\ chain' = Append(chain, [slot |-> slot, epoch |-> epochNumber,
                             beneficiary |-> beneficiary,
                             session |-> currentIndex])
  /\ UNCHANGED <<slot, epochNumber, committeeVars, mainChainScripts,
                 sessionVars, payouts, blockVars>>

\* The bound on slots is reached: nothing is left to explore.
SlotsExhausted ==
  /\ phase = "idle"
  /\ slot = MaxSlot
  /\ UNCHANGED vars

BlockStep ==
  \/ SidechainOnInitialize
  \/ CommitteeOnInitialize
  \/ SessionOnInitialize
  \/ ApplySetInherent
  \/ SetCurrentBlockBeneficiary
  \/ OnFinalize

Next ==
  \/ StartBlock
  \/ BlockStep
  \/ SetMainChainScripts
  \/ SlotsExhausted

Spec == Init /\ [][Next]_vars

\* A block that is started is executed to its end, and some author builds
\* the first block.
FairSpec == Spec /\ WF_vars(BlockStep) /\ WF_vars(StartBlock)

-----------------------------------------------------------------------------
(* Verification of an imported block, on the parent's state.               *)

\* Faulty variant: the fallback is always the parent's CurrentCommittee.
CheckInherent_CurrentOnly(at, call, input) ==
  call.validators = CalculateCommittee(input, call.for_epoch_number,
                                       at.current.committee)

\* check_inherent on a `set' call.  It runs before on_initialize, so a
\* committee that could not be selected is compared with the parent's
\* NextCommittee, and with CurrentCommittee in block 1.
CheckInherent(at, call, input) ==
  call.validators =
    CalculateCommittee(input, call.for_epoch_number,
                       IF at.next = None THEN at.current.committee
                                         ELSE at.next.committee)

\* is_inherent_required: a parent without NextCommittee obliges the block.
IsInherentRequired(at) == at.next = None

\* Executive::check_inherents for the committee pallet.
BlockVerifies ==
  /\ setCall # None => CheckInherent(parent, setCall, inherentData)
  /\ setCall = None => ~IsInherentRequired(parent)

-----------------------------------------------------------------------------
(* Properties.                                                             *)

\* Type invariant of the storage items, the block being built and the
\* history.
TypeOK ==
  /\ phase \in Phases
  /\ slot \in 0 .. MaxSlot
  /\ epochNumber \in Nat \cup {None}
  /\ currentCommittee \in CommitteeInfo
  /\ nextCommittee \in CommitteeInfo \cup {None}
  /\ mainChainScripts \in Scripts
  /\ currentIndex \in Nat
  /\ stubIndex \in Nat
  /\ validators \in Committees
  /\ auraAuthorities \in Committees
  /\ beneficiary \in Beneficiaries \cup {None}
  /\ pendingRewards \in [Beneficiaries -> Nat]
  /\ inherentData \in Inputs \cup {None}
  /\ setCall \in SetCalls \cup {None}
  /\ parent \in [current : CommitteeInfo, next : CommitteeInfo \cup {None}]
  /\ chain \in Seq(Blocks)
  /\ payouts \subseteq [epoch : Nat, rewards : [Beneficiaries -> Nat]]

\* The committee pallet has dated the genesis committee.
Dated ==
  \/ phase \in {"session", "set", "beneficiary", "extrinsics"}
  \/ chain # <<>>

\* `set' has run in this block and no later block has rotated.
AfterSet ==
  \/ phase \in {"beneficiary", "extrinsics"}
  \/ phase = "idle" /\ chain # <<>>

\* NextCommittee is always for the epoch after CurrentCommittee's, and no
\* committee is in office before its epoch (session_manager: a session is
\* never ahead of the sidechain epoch).
CommitteeEpochs ==
  /\ nextCommittee # None => nextCommittee.epoch = currentCommittee.epoch + 1
  /\ Dated => currentCommittee.epoch <= EpochOfSlot

\* next_committee() is defined after the inherents of every block, so the
\* committee of the next epoch is known one epoch ahead, and only block 1 is
\* built on a parent without one.
NextCommitteeDefined ==
  /\ AfterSet => nextCommittee # None
  /\ phase # "idle" /\ parent.next = None => BlockNumber = 1

\* Between blocks, the session pallet, its stub and Aura are in step with the
\* committee pallet: the session index counts the epochs since block 1, the
\* validators are the committee in office, and Aura's authorities are too
\* unless that committee is empty.
SessionFollowsCommittee ==
  phase = "idle" /\ chain # <<>> =>
    /\ currentIndex = currentCommittee.epoch - chain[1].epoch
    /\ stubIndex = currentIndex
    /\ validators = currentCommittee.committee
    /\ validators # <<>> => auraAuthorities = validators

\* Every committee is in office for at least one block, in order: the sessions
\* in force after the blocks of the chain are all of 0..CurrentIndex.  This is
\* how a chain recovers from epochs without blocks.
EveryCommitteeServes ==
  phase = "idle" /\ chain # <<>> =>
    {chain[i].session : i \in DOMAIN chain} = 0 .. currentIndex

\* The committee in office is late by no more than the number of epochs that
\* passed without a block: epochs with a block catch up one rotation each.
LagBoundedBySkippedEpochs ==
  phase = "idle" /\ chain # <<>> =>
    LET withBlocks == {chain[i].epoch : i \in DOMAIN chain}
        skipped == (chain[1].epoch .. epochNumber) \ withBlocks
    IN  epochNumber - currentCommittee.epoch <= Cardinality(skipped)

\* A block built by the runtime's own create_inherent passes check_inherents
\* at a node that reads the same inputs, although the author runs after the
\* rotation and the verifier before it.
BlocksPassVerification ==
  phase \in {"beneficiary", "extrinsics"} => BlockVerifies

\* Blocks of the chain with epoch e that pay b.
BlocksPaying(e, b) ==
  {i \in DOMAIN chain : chain[i].epoch = e /\ chain[i].beneficiary = b}

\* on_new_epoch(old) receives exactly the blocks of epoch `old', one point
\* each, per beneficiary; what is pending belongs to the saved epoch.  No
\* block is paid twice, in a wrong epoch or not at all.
RewardsPerEpoch ==
  \A b \in Beneficiaries :
    /\ pendingRewards[b] = IF epochNumber = None
                           THEN 0
                           ELSE Cardinality(BlocksPaying(epochNumber, b))
    /\ \A p \in payouts : p.rewards[b] = Cardinality(BlocksPaying(p.epoch, b))

\* The chain is never left without a next committee: whenever there is none,
\* a block that stores one is finished later.
NextCommitteeEventuallyDefined == nextCommittee = None ~> nextCommittee # None

\* What the comment on the committee pallet's on_initialize says of block 1:
\* "should_end_session() returns true at 1st block".
FirstBlockEndsSession ==
  phase = "session" /\ BlockNumber = 1 => ShouldEndSession

\* The abstract schedule this runtime implements.
Schedule == INSTANCE CommitteeSchedule WITH
  epoch <- epochNumber,
  opened <- Dated,
  office <- currentCommittee,
  announced <- nextCommittee

\* The runtime implements the abstract committee schedule.
ImplementsSchedule == Schedule!Spec

=============================================================================
