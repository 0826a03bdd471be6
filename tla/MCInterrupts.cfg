SPECIFICATION Spec
CONSTANTS
  Lines = {0, 1, 14}
  SoftInts = {0, 32, 33, 40}
  Calls = {2, 7, 9, 99}
  MaxLines = 2
  MaxTicks = 2
CHECK_DEADLOCK FALSE
INVARIANTS
  NothingLeftInService
  TicksAccounted
  ProgramsAreInterruptible
PROPERTIES
  EmptyReadIsTheEnd
  KeyboardIsServed
