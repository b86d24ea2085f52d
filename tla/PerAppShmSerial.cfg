SPECIFICATION Spec
CONSTANTS
    App = {gps, led, net}
    Value = {v1, v2}
    Size = 2
    None = None
    Null = Null
    Torn = Torn
    Junk = Junk
    Serial = TRUE
    MayCrash = FALSE
PROPERTIES
    ImplementsRegistry
