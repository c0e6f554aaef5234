\* Two writers and two readers; up to four events.
CONSTANTS
  Writers = {w1, w2}
  Readers = {a, b}
  MaxEvents = 3
SPECIFICATION FairSpec
INVARIANTS
  NothingSkipped
  CloseIsComplete
PROPERTIES
  NumbersNeverReused
  StreamsEnd
CHECK_DEADLOCK FALSE
