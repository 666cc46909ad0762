SPECIFICATION Spec
CONSTANTS
  ann = ann
  bob = bob
  corp = corp
  Parties <- MCParties
  Persons <- MCPersons
  Signatory <- MCSignatory
  Payloads <- MCPayloads
  Boards <- MCBoards
  Teams <- MCTeams
  Whole = 2
  MaxChanges = 2
CONSTRAINT InStep
INVARIANTS
  TypeOK
  FoundedOnAgreement
  ApprovalIsRepairable
  RegisterBalances
  BoardIsLegal
  OneManagerPerRole
PROPERTIES
  FoundedIfWanted
  NobodyIsDrafted
CHECK_DEADLOCK FALSE
