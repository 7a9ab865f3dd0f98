SPECIFICATION Spec
CONSTANTS
  SEMAEM = 2
  c1 = c1  c2 = c2
  e1 = e1  r1 = r1  r2 = r2
  Clients = {c1, c2}
  Server = Server
  Expressions = {Blank}
  Quit = Quit  Blank = Blank
  Results = {r1}
  NoResult = NoResult
  find_answer <- MCfind_one
  MaxStarts = 2
  SemIdZero = TRUE
  ShmIdZero = TRUE
SYMMETRY Symmetry
CHECK_DEADLOCK FALSE
INVARIANTS TypeOK
PROPERTIES TakenRequestSurvivesCrash
