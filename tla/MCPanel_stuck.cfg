SPECIFICATION FairSpec
CONSTANT Limit = 1
PROPERTY CloseDetected
