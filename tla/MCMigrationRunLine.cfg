SPECIFICATION FairSpec
CONSTANTS
  Run = {r1, r2}
  NumFiles = 3
  FirstFiles = {2}
  Transactional = {2}
  Jobs <- MCLineJobs
  Labels = FALSE
  Timeouts = TRUE
  Free = Free
  MaxBatch = 5
  MaxFaults = 2
PROPERTY AllApplied
