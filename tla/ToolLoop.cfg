SPECIFICATION MCSpec
CONSTANTS
  read = read  write = write  ask = ask  plan = plan  gone = gone
  Call = {read, write, ask, gone}
  Parallel = {read}
  Mutating = {write, plan}
  Gated = {write}
  Asking = {ask}
  Unknown = {gone}
  Plan = plan
  ParallelLimit = 2
  Window = 3
  Threshold = 3
  MaxRetries = 1
  MaxSteps = 2
  MaxCalls = 3
INVARIANTS EveryCallIsAnswered
PROPERTIES StartsAreAllowed EndsOrWaits
