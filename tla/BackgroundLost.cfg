\* Two conversations whose drains overlap: a result is neither told nor kept.
CONSTANTS
  k1 = k1
  k2 = k2
  h1 = h1
  h2 = h2
  s1 = s1
  s2 = s2
  j1 = j1
  j2 = j2
  j3 = j3
  Jobs = {j1, j2, j3}
  Keys = {k1, k2}
  Histories = {h1, h2}
  HistoryOf <- TwoHistoriesOf
  Sessions = {s1, s2}
  SessionOf <- TwoSessionsOf
  Conversation <- TwoConversations
  MaxBatch = 3
  ReadsFail = FALSE
  SessionsDrop = FALSE
SPECIFICATION Spec
INVARIANTS NoResultLost
CHECK_DEADLOCK FALSE
