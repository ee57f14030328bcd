SPECIFICATION LogSpec
CONSTANTS
    Task = {t1, t2}
    Replayer = {th1}
    Plain = {t1, t2}
    MaxKills = 1
    MaxFaults = 1
    MaxEdits = 2
INVARIANTS ExactlyOnce
PROPERTIES EditsSurvive EventuallySettled
