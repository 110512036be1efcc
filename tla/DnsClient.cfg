SPECIFICATION Spec
CONSTANTS
  Calls = {c1, c2, c3}
  NoCall = NoCall
  Environments = {0, 1, 2}
  Timeouts = {5}
  MaxMoves = 2
SYMMETRY Symmetry
INVARIANTS OneFlight NobodyForgotten AnswerFitsNetwork
CHECK_DEADLOCK FALSE
