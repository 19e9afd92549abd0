SPECIFICATION FairSpec
CONSTANTS
  Loop = Loop
  Contracts = {"K"}
  Approvals = {1, 2}
  Ids = {1, 2}
  RetryLimit = 2
  Faults = {"locked", "disk", "refuse", "ambiguous", "crash"}
  MaxBusy = 2
  MaxPasses = 1
  MaxFaults = 2
INVARIANTS SubmissionsAudited JournalFaithful SoleWriterVerifies FilledBacked
PROPERTIES DamageShows ApprovalSettles
CHECK_DEADLOCK FALSE
