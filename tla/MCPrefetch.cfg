SPECIFICATION Spec
CONSTANTS
  w1 = w1
  w2 = w2
  p1 = p1
  d1 = d1
  d2 = d2
  Callers = {c1, c2}
  Processes = {p1}
  Home <- MCHome
  Depts = {d1, d2}
  Questions <- MCQuestions
  HasProvider = TRUE
  DayLength = 2
  Backtrack = 2
  UnsettledTTL = 1
  SettledTTL = 2
  MaxRun = 1
  MaxTime = 3
  EntryKinds <- MCEntryKinds
  Workers = {w1, w2}
  Scenarios <- MCScenarios
  PrefetchHour = 1
  Poll = 1
  PrefetchTimeout = 1
  LeaseMargin = 1
INVARIANTS
  SharedSnapshotIsWhole
  CachedAnswerIsRecentView
  OneProducerPerDay
  MarkedDayIsPublished
PROPERTIES
  RequestsEnd
  RetriesSettle
