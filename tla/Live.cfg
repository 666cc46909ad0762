SPECIFICATION FairSpec
CONSTANTS
  ann = ann
  bob = bob
  corp = corp
  r1 = r1
  r2 = r2
  Parties <- MCParties
  Signatory <- MCSignatory
  Registers <- MCRegisters
  FirstRegister <- Majority
  Kinds = {"capital_change", "deregistration"}
  MaxNamed = 1
  MaxApplications = 2
  AdminActions <- Reviewing
  Requests = {r1}
  AutoApprove = {FALSE}
PROPERTY WonBallotIsEndorsed
CHECK_DEADLOCK FALSE
