\* No fault, calls only after probe, no format change on a streaming sensor.
SPECIFICATION FairSpec
CONSTANTS
  small = small  large = large
  Modes = {small, large}
  DefaultMode = large
  Width <- MCWidth
  Height <- MCHeight
  VtsDef <- MCVtsDef
  Depths = {8, 10}
  DefaultDepth = 10
  VtsMax = 11
  VblankMin = 4
  Ppl = 10
  ExposureMin = 4
  ExposureDefault = 6
  FlipCtrls = {"h"}
  Reset = Reset
  Faults = {}
  ProbeCallers = FALSE
  FormatWhileStreaming = FALSE
  RemoveWhileStreaming = FALSE
  OtherClkUsers = 1
  MaxUsage = 2
INVARIANTS TimingConsistent SensorRunsReported
PROPERTY StoppedSensorSuspends
