CONSTANTS
  d1 = d1
  d2 = d2
  p1 = p1
  p2 = p2
  Events <- MCEvents
  Dispatchers <- MCDispatchers
  Processors <- MCProcessors
  KindsOf <- MCKindsOf
  BatchSize = 2
  MaxTries = 2
  MaxStalls = 1
  MaxFaults = 2
SPECIFICATION Spec
INVARIANTS UnsupportedIsAlerted DuplicatesOnlyInWindows
PROPERTIES RefinesPromise EventsSettle
CHECK_DEADLOCK FALSE
