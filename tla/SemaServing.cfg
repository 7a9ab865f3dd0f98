SPECIFICATION FairServing
CONSTANTS
  SEMAEM = 3
  c1 = c1  c2 = c2
  e1 = e1  r1 = r1  r2 = r2
  Clients = {c1, c2}
  Server = Server
  Expressions = {e1, Blank}
  Quit = Quit  Blank = Blank
  Results = {r1, r2}
  NoResult = NoResult
  find_answer <- MCfind_answer
  MaxStarts = 2
  SemIdZero = FALSE
  ShmIdZero = FALSE
CHECK_DEADLOCK FALSE
INVARIANTS MutualExclusion ResultIsOwn IInv
PROPERTIES ResetDone ImplementsRequestReply AskedIsAnswered
