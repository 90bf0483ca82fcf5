SPECIFICATION GridSpec
CONSTANTS
  Keys <- Strip
  Chunks = {c1, c2}
  Absent = Absent
  ViewDistance = 0
  Hysteresis = 1
PROPERTIES ImplementsColumnMap
