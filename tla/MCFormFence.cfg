SPECIFICATION Spec
CONSTANTS
  Asks = {a, b}
  Explicit = {b}
  None = None
  Modes = {"manual", "yolo"}
  MaxPrompts = 1
  MaxChanges = 1
  MaxFaults = 1
  MaxEvents = 2
PROPERTIES
  AnswersFenced
CHECK_DEADLOCK FALSE
