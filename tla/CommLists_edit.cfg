SPECIFICATION Spec
CONSTANTS
  Messages = {m1}
  Typed = {10}
  MaxComms = 3
INVARIANTS TypeOK RefsFollow
PROPERTY RefsStay
CHECK_DEADLOCK FALSE
