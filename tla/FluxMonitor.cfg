CONSTANTS
  MaxRound = 3
  MaxTxs = 2
  MaxTrouble = 1
  MaxLoad = 6
SPECIFICATION Spec
INVARIANTS
  RecordCountsSubmissions
  LogAnsweredOnce
  ConsumedIsAnsweredOrDeclined
  PollRepeatsOnlyUnrecorded
PROPERTIES
  LogsAreHandled
CHECK_DEADLOCK FALSE
