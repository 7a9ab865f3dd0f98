SPECIFICATION SpecOneTask
CONSTANTS
  c1 = c1  c2 = c2
  k1 = k1  k2 = k2
  Clients = {c1, c2}
  Children = {k1, k2}
  SemServer = SemServer
  QueServer = QueServer
  Question = Question  SemAnswer = SemAnswer  QueAnswer = QueAnswer
  Shifted = Shifted  Empty = Empty
  SEMAEM = 2
  FlagsFound <- MCtwo_flags
  SemStarts = 2
  SemIdZero = TRUE
  ShmIdZero = TRUE
  ReqSize = 5
  RpySize = 7
  QBytes = 14
  NoMsg = NoMsg
  QueStarts = 3
  QueIdZero = TRUE
  Choices <- Both
  NoChoice = NoChoice
  NoText = NoText
SYMMETRY Symmetry
CHECK_DEADLOCK FALSE
INVARIANTS TypeOK AtMostOneEach
PROPERTIES TakenRequestSurvivesCrash
