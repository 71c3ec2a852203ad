\* No fault, a disciplined caller, rails that really switch the chip.
SPECIFICATION FairSpec
CONSTANTS
  f1 = f1  f2 = f2  f3 = f3  c1 = c1  c2 = c2  v1 = v1  v2 = v2
  Formats = {f1, f2, f3}
  DefaultFormat = f1
  Ctrls = {c1, c2}
  Vals = {v1, v2}
  DefaultVal = v1
  Reset = Reset
  Torn = Torn
  Faults = {}
  ExternalPower = FALSE
  Disciplined = TRUE
  OtherClkUsers = 1
  MaxUsage = 2
INVARIANTS ControlsApplied FormatApplied ClockNotStolen
PROPERTIES ReconfigureWindow StoppedSensorSuspends
