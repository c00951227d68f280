SPECIFICATION Spec
CONSTANTS
    Writers = {"heart", "button"}
    Reader = "shell"
    Half = 2
    MaxNum = 9
    MaxCrashes = 3
    MaxHolds = 2
INVARIANTS TypeOK LastRecordsKept NumbersGoUp SavedNumberCurrent
PROPERTY UploadIsStable
CHECK_DEADLOCK FALSE
