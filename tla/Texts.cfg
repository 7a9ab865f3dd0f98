SPECIFICATION Spec
CONSTANTS
  WordClients = {w1, w2}
  SIZE = 4
  Inputs <- MCInputs
  ServerStarts = 2
  Users = {ann, bob}
  BufferSize = 2
  MaxLetters = 2
  Runs = 3
  MaxFaults = 1
  BufferLength = 8
  Lines <- MCLines
  Arguments <- MCArguments
CHECK_DEADLOCK FALSE
INVARIANTS
  TypeOK
  ShownIsTheCount ShownInOrder EndTogether EquationsAreSolved
PROPERTIES SentIsEnded ArrivedIsShown
