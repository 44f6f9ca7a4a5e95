SPECIFICATION Spec
CONSTANTS
  Pages = 2
  Concurrencies = {1, 2}
  Retries = 1
  MaxOutages = 1
  MaxPolls = 1
INVARIANTS FirstStartWaits PagesInOrder CanceledMeansCancel
PROPERTIES InferredOnce RunSettles
CHECK_DEADLOCK FALSE
