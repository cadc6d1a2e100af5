SPECIFICATION ViewSpec
CONSTANTS
    Accounts = {a1, a2}
    Markets = {m1, m2}
    None = None
    Reloads <- MCReloads
    MaxEvents = 4
SYMMETRY Symmetry
CHECK_DEADLOCK FALSE

    
PROPERTIES
    RefreshEndsOrTells
