SPECIFICATION FaultySpec
CONSTANTS
  ann = ann
  bob = bob
  corp = corp
  r1 = r1
  r2 = r2
  Parties <- MCParties
  Signatory <- MCSignatory
  Registers <- MCRegisters
  FirstRegister <- Majority
  Kinds = {"equity_transfer", "deregistration", "capital_change"}
  MaxNamed = 1
  MaxApplications = 1
  AdminActions <- Reviewing
  Requests = {r1, r2}
  AutoApprove = {TRUE, FALSE}
INVARIANTS
  TypeOK
  EndorsementIsJustified
  EffectIsJustified
PROPERTY BallotedChanges
CHECK_DEADLOCK FALSE
