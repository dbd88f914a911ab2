SPECIFICATION FairSpec
CONSTANTS
  a = a
  b = b
  lamp = lamp
  moon = moon
  Submit = {a, b}
  Words = {lamp, moon}
  Prompt <- TwoWords
  Kinds = {"text", "video"}
  Absent = Absent
  MaxDeletes = 1
  MaxTrouble = 1
INVARIANTS TypeOK
PROPERTIES EntriesAreKept DeletedStaysAway SpinningEnds
CHECK_DEADLOCK FALSE
