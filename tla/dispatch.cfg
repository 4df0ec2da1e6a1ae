SPECIFICATION Spec
CONSTANTS
  Million = 2
  Nobody = Nobody
  MaxNow = 0
  a = a
  b = b
  c = c
  p = p
  o = o
  IoEvents = {b, c}
  Fds = {1, 2}
  EvFd <- MCEvFd
  EvPersist <- MCEvPersist
  MaxEvents = 2
  CusEvents = {p, o}
  Ids = {1, 2}
  Bits = {"STATUS1"}
  CusId <- MCCusId
  CusListen <- MCCusListen
  CusPersist <- MCCusPersist
  Durations = {}
  TimerIds = {}
  HasFreeCb = {}
  Delays = {}
INVARIANTS
  CopyIsLive
  CrashOnlyInTeardown
  RegisteredHasEntry
  EntryIsLive
  SpentIsLeaving
PROPERTIES
  NoLostTrigger
  CusKeepsPromise
  StaleOnlyByClose
  IoKeepsPromise
CHECK_DEADLOCK FALSE
