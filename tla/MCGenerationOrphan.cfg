SPECIFICATION Spec
CONSTANTS
  a = a
  b = b
  lamp = lamp
  moon = moon
  Submit = {a, b}
  Words = {lamp, moon}
  Prompt <- SameWords
  Kinds = {"image"}
  Absent = Absent
  MaxDeletes = 1
  MaxTrouble = 1
PROPERTIES DeletesWhatWasAsked
CHECK_DEADLOCK FALSE
