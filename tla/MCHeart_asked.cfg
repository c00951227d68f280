SPECIFICATION Spec
CONSTANT MaxPending = 1
PROPERTY JudgesRadioAsked
CHECK_DEADLOCK FALSE
