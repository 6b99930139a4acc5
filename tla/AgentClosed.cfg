\* Three requests to the model, two calls in a reply, and short texts.
SPECIFICATION AgentSpec
CONSTANTS
  MaxSteps = 3
  MaxCalls = 2
  TextSizes = {1, 4, 7}
  MaxToolChars = 5
  MarkerSize = 1
  MaxContextChars = 14
  DroppedSize = 2
  ReplySize = 1
  TaskSize = 3
INVARIANT
  ClosedAsReported
CHECK_DEADLOCK FALSE
