SPECIFICATION StreamSpec
CONSTANTS
  Final = 5
  DB_DATA_SIZE = 4
  EffLow = 1
INVARIANTS
  EofMeansAll
CHECK_DEADLOCK FALSE
