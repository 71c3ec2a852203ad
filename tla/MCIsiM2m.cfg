\* Two source and four target buffers, queued by index before STREAMON, an application
\* that keeps the rules.
SPECIFICATION FairSpec
CONSTANTS
    Sources = {1, 2}
    Targets = {11, 12, 13, 14}
    NoAddr = 0
    Sizes <- MCSizes
    CountMod = 4
    MaxCaptureUsers = 1
    Rewinds = TRUE
    Rules = {"order", "once", "two", "format", "alone", "index"}
INVARIANTS TypeOK TargetOwned FrameFits ExclusiveUse
PROPERTIES PairedResult CallsEnd ConversionProceeds
