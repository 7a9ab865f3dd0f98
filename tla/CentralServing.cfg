SPECIFICATION FairServing
CONSTANTS
  c1 = c1  c2 = c2
  k1 = k1  k2 = k2
  Clients = {c1, c2}
  Children = {k1, k2}
  SemServer = SemServer
  QueServer = QueServer
  Question = Question  SemAnswer = SemAnswer  QueAnswer = QueAnswer
  Shifted = Shifted  Empty = Empty
  SEMAEM = 1
  FlagsFound <- MCharmless_flags
  SemStarts = 1
  SemIdZero = FALSE
  ShmIdZero = FALSE
  ReqSize = 5
  RpySize = 7
  QBytes = 7
  NoMsg = NoMsg
  QueStarts = 1
  QueIdZero = FALSE
  Choices <- Both
  NoChoice = NoChoice
  NoText = NoText
CHECK_DEADLOCK FALSE
INVARIANTS MutualExclusion QuietAtRest ShownFitsChoice
PROPERTIES GotMeansAnswered EveryClientEnds
