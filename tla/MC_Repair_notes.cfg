\* Two notes of one session, and an edit the other device has not pulled yet.
SPECIFICATION RepairSpec
CONSTANTS
    Replicas = {d1, d2}
    NoteIds = {1, 2}
    TagIds = {}
    MaxClock = 2
    MaxEdits = 3
    MaxMishaps = 0
INVARIANT NoteSurvives
CHECK_DEADLOCK FALSE
