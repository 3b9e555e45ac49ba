CONSTANTS
  Commits = {c1, c2}
  Posts = {p1}
  None = None
SPECIFICATION FairSpec
INVARIANTS
  TypeOK
  FifoOnce
  AnswerIsTrue
PROPERTIES
  SettledOnce
  EveryFutureSettles
  TimedOutStillLeaves
