\* The capture class on a board whose supplies really switch the sensor; supplies
\* of the receiver may fail.
SPECIFICATION PipelineSpec
CONSTANTS
  c1 = c1  v1 = v1  v2 = v2
  Formats <- MCFormats
  DefaultFormat <- MCDefaultFormat
  Requests <- MCRequests
  SensorCodes = {"raw8", "raw10"}
  CsisCodes = {"yuyv", "raw8", "raw10"}
  FirstCsisCode = "yuyv"
  YuvCodes = {"yuyv"}
  NoFormat = NoFormat
  SupplyFaults = TRUE
  Ctrls = {c1}
  Vals = {v1, v2}
  DefaultVal = v1
  Reset = Reset
  Torn = Torn
  Faults = {}
  ExternalPower = FALSE
  Disciplined = FALSE
  OtherClkUsers = 1
  MaxUsage = 2
INVARIANTS StreamKeepsPower ReferencesBalanced ReceiverPowered FormatsAgree
PROPERTIES SurplusNeedsRace PipelinePowersDown RetryStreams
