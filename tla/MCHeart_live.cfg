SPECIFICATION FairSpec
CONSTANT MaxPending = 0
PROPERTIES SilentPeerGoesOffline EachRadioSupervised
CHECK_DEADLOCK FALSE
