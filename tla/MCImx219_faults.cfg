\* Every fault, format changes and unbinding in the middle of a stream.
SPECIFICATION Spec
CONSTANTS
  small = small  large = large
  Modes = {small, large}
  DefaultMode = large
  Width <- MCWidth
  Height <- MCHeight
  VtsDef <- MCVtsDef
  Depths = {10}
  DefaultDepth = 10
  VtsMax = 11
  VblankMin = 4
  Ppl = 10
  ExposureMin = 4
  ExposureDefault = 6
  FlipCtrls = {"h"}
  Reset = Reset
  Faults = {"i2c", "rail"}
  ProbeCallers = FALSE
  FormatWhileStreaming = TRUE
  RemoveWhileStreaming = TRUE
  OtherClkUsers = 0
  MaxUsage = 2
INVARIANTS TypeOK StreamHoldsPower PowerAccounted
PROPERTY FlipsFrozen
