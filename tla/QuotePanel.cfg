CONSTANTS
  Prices = {1, 2}
  DaiInputs = {1}
  EthInputs = {1, 2}
  MaxEdits = 5
SPECIFICATION Spec
INVARIANTS
  RestIsCurrent
PROPERTIES
  EditsAreQuoted
