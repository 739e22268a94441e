CONSTANTS
  Samplers = {"meter"}
  Deadline = 2
  MaxRows = 1
SPECIFICATION LiveSpec
INVARIANTS NobodyHeld
PROPERTIES ProcessEnds
CHECK_DEADLOCK FALSE
