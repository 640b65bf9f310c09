SPECIFICATION Spec
CONSTANTS
  alice = alice
  bob = bob
  s1 = s1
  s2 = s2
  None = None
  Authorities = {alice, bob}
  Scripts = {s1}
  Observations = {"candidates"}
  Beneficiaries = {"b1"}
  GenesisScripts = s1
  SlotsPerEpoch = 2
  MaxSlot = 4
  GenesisCommittee <- MCGenesisCommittee
  SelectAuthorities <- MCSelectAuthorities
INVARIANTS
  FirstBlockEndsSession
