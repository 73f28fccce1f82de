\* Two processes with a worker each share the table; one of them retries jobs.
SPECIFICATION FairSpec
CONSTANTS
  p1 = p1
  p2 = p2
  Processes = {p1, p2}
  PoolSize = 1
  MaxAttempts = 2
  MaxTries = 2
  Retriers <- OneRetrier
  StalePages = FALSE
  MaxJobs = 2
  MaxAsked = 3
  MaxCrashes = 1
  None = None
CHECK_DEADLOCK FALSE
INVARIANTS JobQueueInv
PROPERTIES KeepsPromise JobsAreTaken
