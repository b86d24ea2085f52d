SPECIFICATION LedSpec
CONSTANTS
    App = {a1, a2}
    Delay = {7, 9}
INVARIANTS
    AgreedIsShown
