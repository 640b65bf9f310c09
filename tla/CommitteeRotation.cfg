SPECIFICATION FairSpec
CONSTANTS
  alice = alice
  bob = bob
  s1 = s1
  s2 = s2
  None = None
  Authorities = {alice, bob}
  Scripts = {s1, s2}
  Observations = {"candidates", "nobody"}
  Beneficiaries = {"b1", "b2"}
  GenesisScripts = s1
  SlotsPerEpoch = 2
  MaxSlot = 7
  GenesisCommittee <- MCGenesisCommittee
  SelectAuthorities <- MCSelectAuthorities
INVARIANTS
  TypeOK
  CommitteeEpochs
  NextCommitteeDefined
  SessionFollowsCommittee
  EveryCommitteeServes
  LagBoundedBySkippedEpochs
  BlocksPassVerification
  RewardsPerEpoch
PROPERTIES
  NextCommitteeEventuallyDefined
  ImplementsSchedule
