SPECIFICATION Spec
CONSTANTS
  Queries = {q1, q2}
  Conns = {1, 2}
  NoConn = 0
  MaxIds = 3
INVARIANTS OneHand AnswerIsOwn PendingIsRead
SYMMETRY Symmetry
CHECK_DEADLOCK FALSE
