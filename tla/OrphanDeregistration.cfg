SPECIFICATION FaultySpec
CONSTANTS
  ann = ann
  bob = bob
  corp = corp
  r1 = r1
  r2 = r2
  Parties <- MCParties
  Signatory <- MCSignatory
  Registers <- MCRegisters
  FirstRegister <- Majority
  Kinds = {"deregistration"}
  MaxNamed = 0
  MaxApplications = 2
  AdminActions <- Reviewing
  Requests = {r1}
  AutoApprove = {FALSE}
INVARIANT ArchivedWithConsent
CHECK_DEADLOCK FALSE
