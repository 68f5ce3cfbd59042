SPECIFICATION AnalyzerSpec
CONSTANTS
  Frames <- MCFrames
  MaxFrames = 2
INVARIANTS SummaryMatchesReports FlowsAreGenuine
CHECK_DEADLOCK FALSE
