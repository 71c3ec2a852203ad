\* Lost transfers and failing supplies, a chip that keeps its own power.
SPECIFICATION Spec
CONSTANTS
  f1 = f1  f2 = f2  f3 = f3  c1 = c1  c2 = c2  v1 = v1  v2 = v2
  Formats = {f1, f2, f3}
  DefaultFormat = f1
  Ctrls = {c1, c2}
  Vals = {v1, v2}
  DefaultVal = v1
  Reset = Reset
  Torn = Torn
  Faults = {"i2c", "rail"}
  ExternalPower = TRUE
  Disciplined = TRUE
  OtherClkUsers = 0
  MaxUsage = 2
INVARIANTS TypeOK PowerMatchesStatus StreamHoldsPower FlagMatchesSensor NoWrongConfiguration
