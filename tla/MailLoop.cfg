SPECIFICATION Spec
CONSTANTS
  None = None
  NoId = NoId
  BadId = BadId
  Junk = Junk
  Foreign = Foreign
  Names = {1, 2}
  Readers = {r1, r2}
  Loops = {r2}
  MaxFaults = 1
INVARIANTS
  MailNeverEndsTheLoop
CHECK_DEADLOCK FALSE
