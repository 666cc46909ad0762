SPECIFICATION Spec
CONSTANTS
  a = a
  b = b
  c = c
  d = d
  e = e
  north = north
  off = off
  NoNode = NoNode
  Nodes <- MCNodes
  Rails <- MCRails
  Weights <- MCWeights
  Discount <- MCDiscount
  MaxDensity = 9
  Near <- MCNear
  Routes <- MCRoutes
  MaxVisits = 4
  MaxTrail = 6
  Snapshots <- MCSnapshots
  Levels <- MCLevels
INVARIANTS
  TypeOK
  TrailIsSimple
  LegIsCheapest
  FailureIsTrue
  RouteIsRail
  ServesStops
PROPERTY
  SettledIsFinal
