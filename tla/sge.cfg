\* Every request of up to three segments in three regions.
\* The call ends, so deadlock is not an error.
SPECIFICATION Spec
CONSTANTS
  PageSize = 2
  SgePerWqe = 2
  MaxIovlen = 4
  Regions <- SomeRegions
  NoMr = NoMr
  DmaKinds = {TRUE, FALSE}
  MaxSges = 3
INVARIANTS TypeOK WithinMap Covers WithinPages
CHECK_DEADLOCK FALSE
