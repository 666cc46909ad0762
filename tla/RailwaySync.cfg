SPECIFICATION FairSpec
CONSTANTS
  station = station
  new = new
  FirstEndpoint = "here"
  Endpoints = {"here", "there"}
  Budget = 2
  Entities = {station}
  LogRows = {new}
  Recent = {new}
  JobKinds = {"sync", "full"}
  MaxJobs = 2
ACTION_CONSTRAINT FewJobs
INVARIANTS
  TypeOK
  PoolWatches
  JobsAreAccountedFor
PROPERTIES
  KeepsWhatItSaw
  Converges
  StaysConnected
  JobsEnd
