SPECIFICATION PipelineSpec
CONSTANTS
  Stages <- MCStages
  ItemTypes = {"raw", "node", "result"}
  Makes <- MCMakes
  RetryAttempts = 3
  BufferSize = 2
  MaxItems = 4
INVARIANTS
  Settled
PROPERTIES
  StreamReturns
CHECK_DEADLOCK FALSE
