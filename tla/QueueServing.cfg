SPECIFICATION FairServing
CONSTANTS
  c1 = c1  c2 = c2
  e1 = e1  e2 = e2  x1 = x1  x2 = x2
  Clients = {c1, c2}
  Server = Server
  ReqSize = 5
  RpySize = 7
  QBytes = 7
  NoMsg = NoMsg
  Equations = {e1, e2}
  NoEquation = NoEquation
  Roots = {x1, x2}
  third_degree_equation <- MCroots
INVARIANT OneMessageEach
PROPERTIES ImplementsRequestReply Answered
