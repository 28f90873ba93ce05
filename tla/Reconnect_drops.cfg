\* One command whose link drops, sleeps and comes back at any moment; it
\* gives up after two failures in a row.
CONSTANTS
  a = a
  b = b
  Slots = {a, b}
  MaxAttempts = 2
  Sleeper = Sleeper
SPECIFICATION Spec
CHECK_DEADLOCK FALSE
INVARIANTS
  KeyboardHasOneReader
  SpawnsOnce
  GivesUpLate
  OldIsOver
PROPERTIES
  EndsWithoutNetwork
