\* After MaxKeys keys the readers wait for a key that never comes.
CHECK_DEADLOCK FALSE
SPECIFICATION FairSpec
CONSTANTS
  CONS_RBUF_LEN = 2
  Readers = {r1, r2}
  Keys = {"a", "bs", "nl", "nul"}
  MaxKeys = 3
  MaxLine = 9
INVARIANTS
  InOrder
  LineIsEdited
  OvershootBounded
PROPERTY NewlineEndsRead
