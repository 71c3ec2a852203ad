\* A control set between registration and pm_runtime_enable.
SPECIFICATION Spec
CONSTANTS
  small = small  large = large
  Modes = {small, large}
  DefaultMode = large
  Width <- MCWidth
  Height <- MCHeight
  VtsDef <- MCVtsDef
  Depths = {10}
  DefaultDepth = 10
  VtsMax = 11
  VblankMin = 4
  Ppl = 10
  ExposureMin = 4
  ExposureDefault = 6
  FlipCtrls = {"h"}
  Reset = Reset
  Faults = {}
  ProbeCallers = TRUE
  FormatWhileStreaming = FALSE
  RemoveWhileStreaming = FALSE
  OtherClkUsers = 1
  MaxUsage = 2
PROPERTY CtrlWritesOnlyInUse
