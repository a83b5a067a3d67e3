SPECIFICATION Spec
CONSTANTS
  c1 = c1 m1 = m1 m2 = m2 one = one here = here there = there k1 = k1 word = word
  None = None
  Callback <- OneCallback
  Message <- Messages
  Batch <- Batches
  sender <- Numbers
  Link = {1, 2}
  Instance <- TwoInstances
  Client <- OneClient
  home <- Homes
  Shared = TRUE
  Pattern <- Words
  hits <- Hits
  Asked <- Queries
  PageSize = 1
  MaxDeliveries = 2
  MaxRequests = 1
  MaxFaults = 1
INVARIANTS AnsweredMeansStored SplitOnlyByRace NothingMissed NewestKnown
CHECK_DEADLOCK FALSE
SYMMETRY Same
