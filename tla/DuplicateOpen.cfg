SPECIFICATION Spec
CONSTANTS
  ann = ann
  bob = bob
  corp = corp
  r1 = r1
  r2 = r2
  Parties <- MCParties
  Signatory <- MCSignatory
  Registers <- MCRegisters
  FirstRegister <- Majority
  Kinds = {"equity_transfer"}
  MaxNamed = 0
  MaxApplications = 2
  AdminActions <- Reviewing
  Requests = {r1, r2}
  AutoApprove = {FALSE}
INVARIANT OneOpenPerKind
CHECK_DEADLOCK FALSE
