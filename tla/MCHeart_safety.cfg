SPECIFICATION Spec
CONSTANT MaxPending = 1
INVARIANTS TypeOK OneBeatPending LockOnlyInExchange RetryBounded
PROPERTIES StallIsPermanent LinkSpec
VIEW SeenFromRadioInUse
