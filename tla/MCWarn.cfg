SPECIFICATION FairSpec
CONSTANTS Levels = {2, 3} Manual = {1}
INVARIANTS TypeOK AllDeadIsShown DeadIsAudible DeadRadioIsRed
PROPERTIES PanelRecovers AlarmCeases
