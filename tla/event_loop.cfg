SPECIFICATION FairSpec
CONSTANTS
  Million = 2
  Nobody = Nobody
  MaxNow = 1
  a = a
  b = b
  c = c
  p = p
  o = o
  IoEvents = {b}
  Fds = {1}
  EvFd <- MCEvFd
  EvPersist <- MCEvPersist
  MaxEvents = 1
  CusEvents = {o}
  Ids = {2}
  Bits = {"STATUS1"}
  CusId <- MCCusId
  CusListen <- MCCusListen
  CusPersist <- MCCusPersist
  Durations <- NoDelay
  TimerIds = {"t1","t2"}
  HasFreeCb = {"t1"}
  Delays <- NoDelay
INVARIANTS
  IInv
  NoDueTimerLeft
  RunningIsAtPos
PROPERTIES
  StopIsObeyed
  ActivationIsHandled
  DueTimerIsCalled
CHECK_DEADLOCK FALSE
