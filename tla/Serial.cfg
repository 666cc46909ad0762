SPECIFICATION Spec
CONSTANTS
  ann = ann
  bob = bob
  corp = corp
  r1 = r1
  r2 = r2
  Parties <- MCParties
  Signatory <- MCSignatory
  Registers <- MCRegisters
  FirstRegister <- Majority
  Kinds = {"equity_transfer", "deregistration", "rename"}
  MaxNamed = 0
  MaxApplications = 2
  AdminActions <- Administration
  Requests = {r1}
  AutoApprove = {TRUE, FALSE}
INVARIANTS
  OneOpenPerKind
  AppliedAtMostOnce
  ApprovedIsApplied
  EndorsementIsFresh
  WithdrawnIsNotEndorsed
  ArchivedWithConsent
PROPERTY ClosedStaysClosed
CHECK_DEADLOCK FALSE
