CONSTANTS
  MaxRetries = 3
  Timeout = 3
SPECIFICATION FairCSpec
INVARIANTS CTypeOK DirRemoved WholeFileUsed Answered ProgressGone ConversionUsable FramesRemoved
PROPERTY Ends
CHECK_DEADLOCK FALSE
