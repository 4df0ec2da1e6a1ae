SPECIFICATION Spec
CONSTANTS
  datum1 = datum1
  datum2 = datum2
  Data = {datum1, datum2}
  Nothing = Nothing
  Gaps = {1, 2}
  N_NACKS_BEFORE_RETX = 1
  MaxPackno = 4
  Window = 3
SYMMETRY Perms
INVARIANTS
  Sane
  NothingLost
  AlarmArmed
  NoGapInNumbers
  HonestAckAccepted
CHECK_DEADLOCK FALSE
