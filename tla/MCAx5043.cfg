SPECIFICATION FairSpec
CONSTANTS
    MaxSends = 2
    MaxPackets = 2
    MaxHangs = 1
INVARIANTS TypeOK NeverStranded NeverDeaf
PROPERTIES ReceptionReturns StartUpEnds SendGoesOut
CHECK_DEADLOCK FALSE
