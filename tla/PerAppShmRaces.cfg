SPECIFICATION Spec
CONSTANTS
    App = {gps, led}
    Value = {v1}
    Size = 2
    None = None
    Null = Null
    Torn = Torn
    Junk = gps
    Serial = FALSE
    MayCrash = TRUE
INVARIANTS
    UniqueName
    NoRawSlot
    ClaimsOnlyIfAbsent
PROPERTIES
    SettledIsFound
