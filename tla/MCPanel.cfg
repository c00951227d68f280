SPECIFICATION FairSpec
CONSTANT Limit = 2
INVARIANTS TypeOK LampFollowsStatus ReceiverNeverWrong
PROPERTY OpenEnds
