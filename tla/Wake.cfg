SPECIFICATION Spec

CONSTANTS
    DayHours = 2
    DailyHour = 1
    MaxSilence = 3
    WakeMin = 1
    AnswerHours = 4
    Horizon = 4
    Evidences <- MCEvidences
    Prices = {1, 2}
    Width = 0

INVARIANTS
    OneFloorCallPerDay
    ShiftReachesCouncil

PROPERTIES
    WakeThrottled

CHECK_DEADLOCK FALSE
