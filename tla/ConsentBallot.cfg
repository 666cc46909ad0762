SPECIFICATION Spec
CONSTANTS
  ann = ann
  bob = bob
  corp = corp
  Parties <- MCParties
  Kinds <- MCKinds
  Registers <- MCRegisters
  Directors <- MCDirectors
  Signatory <- MCSignatory
  MaxNamed = 2
INVARIANTS
  TypeOK
  TallyIsConclusive
  FullBallotIsDecided
PROPERTY DecisionIsStable
CHECK_DEADLOCK FALSE
