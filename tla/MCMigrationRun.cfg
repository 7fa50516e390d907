SPECIFICATION Spec
CONSTANTS
  Run = {r1, r2}
  NumFiles = 2
  FirstFiles = {1, 2}
  Transactional = {2}
  Jobs <- MCJobs
  Labels = FALSE
  Timeouts = TRUE
  Free = Free
  MaxBatch = 2
  MaxFaults = 2
SYMMETRY MCSymmetry
INVARIANT Exact
PROPERTIES FailureNeverDemotes UsesLease
