SPECIFICATION Spec
CONSTANTS
  ann = ann
  bob = bob
  corp = corp
  r1 = r1
  r2 = r2
  Parties <- MCParties
  Signatory <- MCSignatory
  Registers <- MCRegisters
  FirstRegister <- Majority
  Kinds = {"deregistration"}
  MaxNamed = 0
  MaxApplications = 1
  AdminActions <- Reviewing
  Requests = {r1, r2}
  AutoApprove = {FALSE}
INVARIANT EndorsementIsBacked
CHECK_DEADLOCK FALSE
