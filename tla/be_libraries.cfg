SPECIFICATION Spec
CONSTANTS
  Candidates <- MCCandidates
  Flaws = {"root"}
INVARIANTS
  TypeOK
  HoldsWhatItNeeds
  DevicesGivenBack
