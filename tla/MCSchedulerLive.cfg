SPECIFICATION FairSpec
CONSTANTS
  Pipeline <- MCPipeline
  Task <- MCTask
  Kind <- MCKind
  Target <- MCTarget
  Interval <- MCInterval
  Callback <- MCCallback
  Outside <- MCOutside
  None = None
PROPERTIES EventuallyCalled ReadyIsTold DestroyEnds
