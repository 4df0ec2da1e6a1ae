SPECIFICATION FairSpec
CONSTANTS
  main = main
  other = other
  Nobody = Nobody
  Callers = {main, other}
  Main = main
  MAX_STREAM_COUNT = 1
  MaxConns = 2
  RunMayTimeOut = FALSE
INVARIANTS
  QuicInv
  OpenIsHeld
  TickToCome
  StreamHasQueue
PROPERTIES
  NoCommandErased
  AnswersHold
  CloseCompletes
CHECK_DEADLOCK FALSE
