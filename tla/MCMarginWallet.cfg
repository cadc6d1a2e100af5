SPECIFICATION Spec
CONSTANTS
    Accounts = {a1, a2}
    Tasks = {t1, t2}
    None = None
    MaxStarts = 3
    MaxAlerts = 1
CHECK_DEADLOCK FALSE
INVARIANTS
    TimerOfBanner
PROPERTIES
    PressedOnce
    ButtonsComeBack
