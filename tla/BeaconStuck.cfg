SPECIFICATION PoolSpec
\* A server without a beacon, with no failure left to happen, is at rest.
CHECK_DEADLOCK FALSE
CONSTANTS
  FirstEndpoint = "here"
  Endpoints = {"here", "there"}
  Budget = 3
INVARIANT
  ConnectingIsTrue
