SPECIFICATION Spec
CONSTANTS
  Last = 6
  Ecms <- MCEcms
  Sizes = {1, 2}
  Modes = {"sync", "async", "plain"}
  TsSize = 4
  BufferSize = 2
  Word = 8
  MaxResets = 2
INVARIANT DataLeavesRight
PROPERTY StreamIsAccepted
\* The stream ends.
CHECK_DEADLOCK FALSE
