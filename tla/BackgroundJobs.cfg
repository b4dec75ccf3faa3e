\* Two jobs of one conversation; a second one shares its terminal and history.
CONSTANTS
  k1 = k1
  k2 = k2
  h1 = h1
  h2 = h2
  s1 = s1
  s2 = s2
  j1 = j1
  j2 = j2
  j3 = j3
  Jobs = {j1, j2}
  Keys = {k1, k2}
  Histories = {h1}
  HistoryOf <- SharedHistoryOf
  Sessions = {s1}
  SessionOf <- SharedSessionOf
  Conversation <- OneConversation
  MaxBatch = 2
  ReadsFail = FALSE
  SessionsDrop = TRUE
SPECIFICATION FairSpec
INVARIANTS ToldOnce
PROPERTIES ResultsStay StopIsFinal ResultsArrive
CHECK_DEADLOCK FALSE
