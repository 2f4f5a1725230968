SPECIFICATION Spec
CONSTANTS
  Faults = {"late", "reject", "bus"}
  MaxQueue = 2
INVARIANTS TypeOK StatusMeansBus OpenInStep
PROPERTIES OpenIsClean DiscoveryFollowsCalls
CHECK_DEADLOCK FALSE
