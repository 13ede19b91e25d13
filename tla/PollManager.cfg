CONSTANTS
  MaxFlips = 3
  MaxFaults = 1
SPECIFICATION Spec
INVARIANTS
  HibernationIsQuiet
  SilentOnlyAfterGap
  AwakeUnderRaisedFlag
  StuckOnlyByUnservedTicks
PROPERTIES
  LoweredFlagWakes
CHECK_DEADLOCK FALSE
