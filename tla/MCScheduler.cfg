SPECIFICATION Spec
CONSTANTS
  Pipeline <- MCPipeline
  Task <- MCTask
  Kind <- MCKind
  Target <- MCTarget
  Interval <- MCInterval
  Callback <- MCCallback
  Outside <- MCOutside
  None = None
INVARIANTS TypeOK OnePlace PassIsExact CalledOnce NoDelayNoOvertaking RegisteredOnce QuietAfterDestroy
PROPERTIES ImplementsTimer
