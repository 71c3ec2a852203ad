\* A flip refused because the control is grabbed.
SPECIFICATION Spec
CONSTANTS
  small = small  large = large
  Modes = {small}
  DefaultMode = small
  Width <- MCWidth
  Height <- MCHeight
  VtsDef <- MCVtsDef
  Depths = {10}
  DefaultDepth = 10
  VtsMax = 9
  VblankMin = 4
  Ppl = 10
  ExposureMin = 4
  ExposureDefault = 4
  FlipCtrls = {"h", "v"}
  Reset = Reset
  Faults = {}
  ProbeCallers = FALSE
  FormatWhileStreaming = FALSE
  RemoveWhileStreaming = FALSE
  OtherClkUsers = 1
  MaxUsage = 2
INVARIANT BayerOrderStable
