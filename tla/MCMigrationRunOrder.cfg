SPECIFICATION Spec
CONSTANTS
  Run = {r1}
  NumFiles = 3
  FirstFiles = {2}
  Transactional = {1, 2}
  Jobs <- MCOrderJobs
  Labels = TRUE
  Timeouts = FALSE
  Free = Free
  MaxBatch = 3
  MaxFaults = 1
PROPERTIES OrderedStep OrderKept RevertsNewestFirst BatchNeverReused
